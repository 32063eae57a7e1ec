---------------------------- MODULE LibwebrtcServer ----------------------------
(***************************************************************************)
(* The libwebrtc echo server: HttpSimpleServer's libevent loop on the main  *)
(* thread, PcFactory::CreatePeerConnection called from it, and the          *)
(* SignalingThread that sets the descriptions and reports back through      *)
(* CreateSdpObserver.                                                       *)
(*                                                                          *)
(* The mutex, the condition variable, isReady, pc and remoteOffer are       *)
(* locals of CreatePeerConnection that the posted task and the observer     *)
(* hold by reference.  When the 3 s wait expires the function returns, and  *)
(* whatever the signaling thread still has to run touches a dead stack      *)
(* frame.  That is undefined behaviour; the outcomes modelled are a crash,  *)
(* stale memory that still holds its old contents, and the live frame of    *)
(* the next request at the same address.                                    *)
(***************************************************************************)
EXTENDS Naturals, FiniteSets, Sequences

CONSTANTS
    Requests,       \* the HTTP requests that may arrive
    NoRequest,      \* no request
    Kinds           \* what a request may carry, a subset of AllKinds

(***************************************************************************)
(* options     an OPTIONS request                                          *)
(* empty       no body                                                     *)
(* badJson     json::parse throws                                          *)
(* pcError     the factory gives no peer connection or no track            *)
(* noSdp       JSON without an "sdp" string: the conversion throws         *)
(* badSdp      CreateSessionDescription returns null                       *)
(* badRemote   SetRemoteDescription fails                                  *)
(* badLocal    the remote offer is set, creating or setting an answer fails *)
(* good        an offer that can be answered                               *)
(***************************************************************************)
AllKinds == {"options", "empty", "badJson", "pcError", "noSdp", "badSdp",
             "badRemote", "badLocal", "good"}

ASSUME KindsAssumption == Kinds \subseteq AllKinds

ASSUME NoRequestAssumption == NoRequest \notin Requests

VARIABLES
    loop,       \* where the main thread is
    cur,        \* the request whose handler is running, or NoRequest
    kind,       \* what each request carried, "unsent" before it arrives
    reply,      \* the reply of evhttp_send_reply, "none" before it
    pcs,        \* _peerConnections, in push_back order
    closed,     \* the peer connections Close() was called on
    queue,      \* tasks posted to SignalingThread that have not run
    creating,   \* per peer connection: implicit SetLocalDescription calls in flight
    sig,        \* SignalingThread: NoRequest, or in the observer of this request
    at,         \* where that observer's references point: "frame" or "other"
    desc,       \* local_description() of each peer connection
    isReady,    \* the flag in the frame of the running handler
    sigint,     \* SIGINT was delivered to the process
    gotTerm,    \* event_base_loopexit was called
    freed,      \* how often the libevent objects were freed
    timedOut,   \* history: requests whose wait_for expired with isReady false
    dangling,   \* history: requests whose frame was touched after it died
    completed   \* history: requests whose observer ran while their frame lived

http == <<loop, cur, kind, reply>>
peers == <<pcs, closed, creating, desc>>
signaling == <<queue, sig, at>>
shutdown == <<sigint, gotTerm, freed>>
history == <<timedOut, dangling, completed>>
vars == <<http, peers, signaling, isReady, shutdown, history>>

LoopStates == {"start", "dispatch", "create", "lock", "wait", "woken",
               "expired", "describe", "stopping", "destroying", "closing",
               "exited", "crashed"}

Bodies == {"ok", "badRequest", "error", "timeout", "noDescription",
           "answer", "offer"}

TypeOK ==
    /\ loop \in LoopStates
    /\ cur \in Requests \cup {NoRequest}
    /\ kind \in [Requests -> Kinds \cup {"unsent"}]
    /\ reply \in [Requests -> Bodies \cup {"none"}]
    /\ pcs \in Seq(Requests)
    /\ closed \in SUBSET Requests
    /\ queue \in Seq(Requests)
    /\ creating \in [Requests -> Nat]
    /\ sig \in Requests \cup {NoRequest}
    /\ at \in {"frame", "other"}
    /\ desc \in [Requests -> {"none", "answer", "offer"}]
    /\ isReady \in BOOLEAN
    /\ sigint \in BOOLEAN
    /\ gotTerm \in BOOLEAN
    /\ freed \in Nat
    /\ timedOut \in SUBSET Requests
    /\ dangling \in SUBSET Requests
    /\ completed \in SUBSET Requests

Init ==
    /\ loop = "start"
    /\ cur = NoRequest
    /\ kind = [r \in Requests |-> "unsent"]
    /\ reply = [r \in Requests |-> "none"]
    /\ pcs = <<>>
    /\ closed = {}
    /\ queue = <<>>
    /\ creating = [r \in Requests |-> 0]
    /\ sig = NoRequest
    /\ at = "other"
    /\ desc = [r \in Requests |-> "none"]
    /\ isReady = FALSE
    /\ sigint = FALSE
    /\ gotTerm = FALSE
    /\ freed = 0
    /\ timedOut = {}
    /\ dangling = {}
    /\ completed = {}

Alive == loop \notin {"exited", "crashed"}

\* The main thread is between the declaration of mtx, cv, isReady and return.
FrameLive == loop \in {"lock", "wait", "woken", "expired", "describe"}

\* From LockMtx to return the main thread holds mtx; in every other state of
\* the frame it has not locked it yet or gave it up in cv.wait_for.
MtxHeld == loop = "describe"

--------------------------------------------------------------------------------
(* main and HttpSimpleServer: the event loop.                              *)

\* main constructs PcFactory and HttpSimpleServer and binds the socket; every
\* failure of it throws out of main.
Startup ==
    /\ loop = "start"
    /\ loop' \in {"dispatch", "crashed"}
    /\ UNCHANGED <<cur, kind, reply, peers, signaling, isReady, shutdown, history>>

\* Leave the handler of request r: evhttp_send_reply with this body.
Send(r, body) ==
    /\ reply' = [reply EXCEPT ![r] = body]
    /\ loop' = "dispatch"
    /\ cur' = NoRequest

\* OnHttpRequest up to the call of CreatePeerConnection.
OnHttpRequest(r) ==
    /\ loop = "dispatch"
    /\ kind[r] = "unsent"
    /\ \E k \in Kinds :
        /\ kind' = [kind EXCEPT ![r] = k]
        /\ \/ k = "options" /\ Send(r, "ok")
           \/ k = "empty" /\ Send(r, "badRequest")
           \/ /\ k \notin {"options", "empty"}
              /\ loop' = "create"
              /\ cur' = r
              /\ UNCHANGED reply
    /\ UNCHANGED <<peers, signaling, isReady, shutdown, history>>

--------------------------------------------------------------------------------
(* PcFactory::CreatePeerConnection, on the main thread.                    *)

\* The early exits: an exception passes the C frames of libevent and ends the
\* process; the other failures become the body "error".
CreateFails(r) ==
    \/ kind[r] \in {"badJson", "noSdp"} /\ loop' = "crashed" /\ UNCHANGED <<cur, reply>>
    \/ kind[r] \in {"pcError", "badSdp"} /\ Send(r, "error")

\* The peer connection is kept in _peerConnections before the SDP is looked at.
Registers(k) == k \in {"noSdp", "badSdp", "badRemote", "badLocal", "good"}

\* Up to PostTask: a new frame, its isReady false, its task queued.
CreatePeerConnection ==
    /\ loop = "create"
    /\ pcs' = IF Registers(kind[cur]) THEN Append(pcs, cur) ELSE pcs
    /\ \/ /\ CreateFails(cur)
          /\ UNCHANGED <<queue, isReady>>
       \/ /\ kind[cur] \in {"badRemote", "badLocal", "good"}
          /\ queue' = Append(queue, cur)
          /\ isReady' = FALSE
          /\ loop' = "lock"
          /\ UNCHANGED <<cur, reply>>
    /\ UNCHANGED <<kind, closed, creating, desc, sig, at, shutdown, history>>

\* Mutant: the main thread does not wait for the observer at all.
LockMtxNoWait ==
    /\ loop = "lock"
    /\ loop' = "describe"
    /\ UNCHANGED <<cur, kind, reply, peers, signaling, isReady, shutdown, history>>

\* Mutant: it waits without having tested isReady.
LockMtxUntested ==
    /\ loop = "lock"
    /\ loop' = "wait"
    /\ UNCHANGED <<cur, kind, reply, peers, signaling, isReady, shutdown, history>>

\* Lock mtx and test isReady; waiting on cv gives mtx up in the same step.
LockMtx ==
    /\ loop = "lock"
    /\ loop' = IF isReady THEN "describe" ELSE "wait"
    /\ UNCHANGED <<cur, kind, reply, peers, signaling, isReady, shutdown, history>>

\* notify_all took the thread out of the wait set; it locks mtx again and
\* evaluates the predicate of wait_for.
WakeUp ==
    /\ loop = "woken"
    /\ loop' = IF isReady THEN "describe" ELSE "wait"
    /\ UNCHANGED <<cur, kind, reply, peers, signaling, isReady, shutdown, history>>

\* SET_REMOTE_SDP_TIMEOUT_SECONDS pass.
TimerExpires ==
    /\ loop = "wait"
    /\ loop' = "expired"
    /\ UNCHANGED <<cur, kind, reply, peers, signaling, isReady, shutdown, history>>

\* Mutant: the handler returns on the empty string without evhttp_send_reply.
WaitExpiredUnanswered ==
    /\ loop = "expired"
    /\ \/ /\ isReady
          /\ loop' = "describe"
          /\ UNCHANGED <<cur, timedOut>>
       \/ /\ ~isReady
          /\ loop' = "dispatch" /\ cur' = NoRequest
          /\ timedOut' = timedOut \cup {cur}
    /\ UNCHANGED <<kind, reply, peers, signaling, isReady, shutdown, dangling, completed>>

\* wait_for locks mtx and returns the predicate's last value; false makes
\* CreatePeerConnection return the empty string.
WaitExpired ==
    /\ loop = "expired"
    /\ \/ /\ isReady
          /\ loop' = "describe"
          /\ UNCHANGED <<cur, reply, timedOut>>
       \/ /\ ~isReady
          /\ Send(cur, "timeout")
          /\ timedOut' = timedOut \cup {cur}
    /\ UNCHANGED <<kind, peers, signaling, isReady, shutdown, dangling, completed>>

\* local_description() is a blocking call to the signaling thread: it returns
\* once that thread is idle and has run what was posted before.  Whatever the
\* description is, its JSON says "answer".
Describe ==
    /\ loop = "describe"
    /\ sig = NoRequest
    /\ queue = <<>>
    /\ Send(cur, IF desc[cur] = "none" THEN "noDescription" ELSE desc[cur])
    /\ UNCHANGED <<kind, peers, signaling, isReady, shutdown, history>>

--------------------------------------------------------------------------------
(* SignalingThread.                                                         *)

\* The task's references are good while the handler that posted it is running.
OwnFrame(r) == FrameLive /\ cur = r

\* The posted task: SetRemoteDescription, then the implicit
\* SetLocalDescription, whose completion is reported later.  A task whose frame
\* died works on whatever pc its reference finds, or crashes.
RunTask ==
    /\ Alive
    /\ sig = NoRequest
    /\ queue # <<>>
    /\ queue' = Tail(queue)
    /\ LET r == Head(queue) IN
        \/ /\ OwnFrame(r)
           /\ creating' = [creating EXCEPT ![r] = @ + 1]
           /\ UNCHANGED <<loop, dangling>>
        \/ /\ ~OwnFrame(r)
           /\ dangling' = dangling \cup {r}
           /\ \/ /\ \E p \in {r} \cup (IF FrameLive THEN {cur} ELSE {}) :
                      creating' = [creating EXCEPT ![p] = @ + 1]
                 /\ UNCHANGED loop
              \/ loop' = "crashed" /\ UNCHANGED creating
    /\ UNCHANGED <<cur, kind, reply, pcs, closed, desc, sig, at, isReady,
                   shutdown, timedOut, completed>>

\* Mutant: the local description is set before the remote offer.
DescriptionForUnset(k) == IF k \in {"good", "badRemote"} THEN "offer" ELSE "none"

\* What the implicit SetLocalDescription leaves as local description: with the
\* remote offer set it creates an answer; if SetRemoteDescription failed the
\* signaling state is still stable and it creates an offer.
DescriptionFor(k) ==
    IF k = "good" THEN "answer" ELSE IF k = "badRemote" THEN "offer" ELSE "none"

\* An implicit SetLocalDescription ends and its observer is called.
LocalDescriptionSet(r) ==
    /\ Alive
    /\ sig = NoRequest
    /\ creating[r] > 0
    /\ creating' = [creating EXCEPT ![r] = @ - 1]
    /\ desc' = [desc EXCEPT ![r] = IF r \in closed THEN @ ELSE DescriptionFor(kind[r])]
    /\ sig' = r
    /\ at' \in IF OwnFrame(r) THEN {"frame"} ELSE {"frame", "other"}
    /\ UNCHANGED <<http, pcs, closed, queue, isReady, shutdown, history>>

\* CreateSdpObserver::OnSetLocalDescriptionComplete, whatever the error is:
\* lock mtx, set isReady, notify_all.  With the frame gone the references find
\* a later request's frame, stale memory, or nothing that can be written.
OnSetLocalDescriptionComplete ==
    /\ Alive
    /\ sig # NoRequest
    /\ \/ /\ FrameLive /\ at = "frame"
          /\ ~MtxHeld
          /\ isReady' = TRUE
          /\ loop' = IF loop = "wait" THEN "woken" ELSE loop
       \/ /\ ~(FrameLive /\ at = "frame")
          /\ loop' \in {loop, "crashed"}
          /\ UNCHANGED isReady
    /\ sig' = NoRequest
    /\ completed' = IF OwnFrame(sig) THEN completed \cup {sig} ELSE completed
    /\ dangling' = IF OwnFrame(sig) THEN dangling ELSE dangling \cup {sig}
    /\ UNCHANGED <<cur, kind, reply, peers, queue, at, shutdown, timedOut>>

--------------------------------------------------------------------------------
(* Interrupt and shutdown.                                                  *)

\* The signal may be delivered at any time.
Interrupt ==
    /\ Alive /\ loop # "start"
    /\ ~sigint
    /\ sigint' = TRUE
    /\ UNCHANGED <<http, peers, signaling, isReady, gotTerm, freed, history>>

\* Mutant: the interrupt is logged and nothing else.
OnSignalIgnored ==
    /\ loop = "dispatch"
    /\ sigint /\ ~gotTerm
    /\ UNCHANGED vars

\* libevent runs the handler from the loop, never inside another callback.
OnSignal ==
    /\ loop = "dispatch"
    /\ sigint /\ ~gotTerm
    /\ gotTerm' = TRUE
    /\ UNCHANGED <<http, peers, signaling, isReady, sigint, freed, history>>

\* event_base_loopexit ends the loop after the events that are already active,
\* so requests may still be handled between OnSignal and this step.
LoopExit ==
    /\ loop = "dispatch"
    /\ gotTerm
    /\ loop' = "stopping"
    /\ UNCHANGED <<cur, kind, reply, peers, signaling, isReady, shutdown, history>>

\* Mutant: the second run of the destructor is not guarded by _isDisposed.
DisposeAgain == freed' = freed + 1

\* ~HttpSimpleServer: the libevent objects are freed unless _isDisposed.
Dispose == freed' = IF freed = 0 THEN freed + 1 ELSE freed

\* Stop() calls the destructor, which runs again when main's scope ends.
Stop ==
    /\ \/ loop = "stopping" /\ loop' = "destroying"
       \/ loop = "destroying" /\ loop' = "closing"
    /\ Dispose
    /\ UNCHANGED <<cur, kind, reply, peers, signaling, isReady, sigint, gotTerm, history>>

Registered == {pcs[i] : i \in DOMAIN pcs}

\* ~PcFactory closes every peer connection; Close() is a blocking call to the
\* signaling thread.
ClosePeerConnection ==
    /\ loop = "closing"
    /\ sig = NoRequest
    /\ queue = <<>>
    /\ \E i \in DOMAIN pcs :
        /\ pcs[i] \notin closed
        /\ \A j \in 1 .. (i - 1) : pcs[j] \in closed
        /\ closed' = closed \cup {pcs[i]}
    /\ UNCHANGED <<http, pcs, creating, desc, signaling, isReady, shutdown, history>>

\* The factory and the thread go.  A SetLocalDescription still in flight is
\* failed by its dying peer connection, which calls its observer.
Exit ==
    /\ loop = "closing"
    /\ sig = NoRequest
    /\ queue = <<>>
    /\ Registered \subseteq closed
    /\ LET late == {r \in Requests : creating[r] > 0} IN
        /\ dangling' = dangling \cup late
        /\ loop' \in IF late = {} THEN {"exited"} ELSE {"exited", "crashed"}
    /\ creating' = [r \in Requests |-> 0]
    /\ pcs' = <<>>
    /\ UNCHANGED <<cur, kind, reply, closed, desc, signaling, isReady,
                   shutdown, timedOut, completed>>

--------------------------------------------------------------------------------

MainThread ==
    \/ \E r \in Requests : OnHttpRequest(r)
    \/ CreatePeerConnection \/ LockMtx \/ WakeUp \/ TimerExpires \/ WaitExpired
    \/ Describe \/ OnSignal \/ LoopExit \/ Stop \/ ClosePeerConnection \/ Exit

SignalingThread ==
    \/ RunTask
    \/ \E r \in Requests : LocalDescriptionSet(r)
    \/ OnSetLocalDescriptionComplete

Next == Startup \/ MainThread \/ SignalingThread \/ Interrupt

(***************************************************************************)
(* Fairness: a thread that can run does run.  Requests and SIGINT come when *)
(* they come, so the steps of the loop are fair one by one and the arrival  *)
(* of a request is not.                                                     *)
(***************************************************************************)
Fairness ==
    /\ WF_vars(CreatePeerConnection) /\ WF_vars(LockMtx) /\ WF_vars(WakeUp)
    /\ WF_vars(TimerExpires) /\ WF_vars(WaitExpired) /\ WF_vars(Describe)
    /\ WF_vars(OnSignal) /\ WF_vars(LoopExit)
    /\ WF_vars(Stop) /\ WF_vars(ClosePeerConnection) /\ WF_vars(Exit)
    /\ WF_vars(SignalingThread)

Spec == Init /\ [][Next]_vars
FairSpec == Spec /\ Fairness

--------------------------------------------------------------------------------
(* Properties.                                                              *)

\* The hand-over between CreateSdpObserver and CreatePeerConnection loses no
\* wake-up: the main thread never sleeps on cv with isReady already true, for
\* it tests the flag under the mutex the observer sets it under.
NoLostWakeup == ~(loop = "wait" /\ isReady)

\* The signaling thread touches the locals of a CreatePeerConnection call that
\* has returned only in a process in which some call returned by timeout:
\* with the wait successful, the task and the observer are done before return.
NoDanglingWithoutTimeout == dangling # {} => timedOut # {}

\* Until a dead frame is touched, local_description() is read only after the
\* observer of this very request has reported that it was set.
ReadAfterComplete == (loop = "describe" /\ dangling = {}) => cur \in completed

\* An answerable offer is answered, unless its wait timed out or an earlier
\* timeout has let the signaling thread write into a frame that is not its own.
GoodOfferAnswered ==
    \A r \in Requests :
        (kind[r] = "good" /\ reply[r] # "none") =>
            reply[r] = "answer" \/ r \in timedOut \/ dangling # {}

\* On a regular exit every peer connection that was ever kept is closed and the
\* libevent objects were freed exactly once, although main runs the
\* HttpSimpleServer destructor twice.
ShutdownReleasesAll ==
    loop = "exited" =>
        /\ freed = 1
        /\ \A r \in Requests : reply[r] # "none" /\ Registers(kind[r]) => r \in closed

\* The signaling thread has touched, or is trying to lock the mutex of, a frame
\* that is dead.
FrameMisused == dangling # {} \/ (sig # NoRequest /\ ~OwnFrame(sig))

\* A request whose handler was entered gets its reply: the wait is bounded and
\* the signaling thread is not waiting for the main thread.  Misuse of a dead
\* frame can break either: a late observer that finds the mutex of the next
\* request locks the two threads into waiting for each other.
RequestReplied ==
    \A r \in Requests :
        (cur = r) ~> (reply[r] # "none" \/ ~Alive \/ FrameMisused)

\* Ctrl-C ends the process, whatever it is doing when the signal arrives.
InterruptEnds == sigint ~> (~Alive \/ FrameMisused)

\* The HTTP side implements the abstract offer/answer service.
Status(r) ==
    IF reply[r] = "answer" THEN "answered"
    ELSE IF reply[r] # "none" THEN "refused"
    ELSE IF cur = r THEN "open"
    ELSE "idle"

OA == INSTANCE OfferAnswer WITH
        MaxOpen <- 1,
        status <- [r \in Requests |-> Status(r)],
        up <- Alive

\* One reply per request, never revised, one request at a time, none after the
\* end of the process.
ImplementsOfferAnswer == OA!Spec

================================================================================
