------------------------- MODULE LibwebrtcServerProofs -------------------------
(***************************************************************************)
(* Proofs about the libwebrtc server, for any set of requests.              *)
(***************************************************************************)
EXTENDS LibwebrtcServer, FiniteSetTheorems, TLAPS

\* Inside CreatePeerConnection there is a request whose handler is running.
HandlerHasRequest == FrameLive \/ loop = "create" => cur \in Requests

TypeInv == TypeOK /\ HandlerHasRequest

\* Counting one more pending call of a peer connection gives a count again.
LEMMA CountUp ==
    ASSUME NEW S, NEW f \in [S -> Nat], NEW p \in S
    PROVE  [f EXCEPT ![p] = f[p] + 1] \in [S -> Nat]
OBVIOUS

\* Every variable keeps its type: in particular the count of pending
\* SetLocalDescription calls never drops below zero.
THEOREM TypeCorrect == Spec => [](TypeOK /\ HandlerHasRequest)
<1>1. Init => TypeInv
  <2> SUFFICES ASSUME Init PROVE TypeInv
    OBVIOUS
  <2> USE DEF Init
  <2>1. loop \in LoopStates /\ HandlerHasRequest
    BY DEF LoopStates, HandlerHasRequest, FrameLive
  <2>2. /\ kind \in [Requests -> Kinds \cup {"unsent"}]
        /\ reply \in [Requests -> Bodies \cup {"none"}]
        /\ creating \in [Requests -> Nat]
        /\ desc \in [Requests -> {"none", "answer", "offer"}]
    OBVIOUS
  <2>3. pcs \in Seq(Requests) /\ queue \in Seq(Requests)
    OBVIOUS
  <2> QED
    BY <2>1, <2>2, <2>3 DEF TypeInv, TypeOK
<1>2. TypeInv /\ [Next]_vars => TypeInv'
  <2> SUFFICES ASSUME TypeInv, [Next]_vars PROVE TypeInv'
    OBVIOUS
  <2> USE DEF TypeInv, TypeOK, HandlerHasRequest, FrameLive, LoopStates, Bodies, http, peers, signaling, shutdown, history
  <2>1. CASE Startup
    BY <2>1 DEF Startup
  <2>2. ASSUME NEW r \in Requests, OnHttpRequest(r) PROVE TypeInv'
    BY <2>2 DEF OnHttpRequest, Send
  <2>3. CASE CreatePeerConnection
    <3>1. cur \in Requests
      BY <2>3 DEF CreatePeerConnection
    <3>2. Append(pcs, cur) \in Seq(Requests) /\ Append(queue, cur) \in Seq(Requests)
      BY <3>1
    <3>3. pcs' \in Seq(Requests) /\ queue' \in Seq(Requests)
      BY <2>3, <3>2 DEF CreatePeerConnection
    <3>4. /\ loop' \in LoopStates
          /\ cur' \in Requests \cup {NoRequest}
          /\ reply' \in [Requests -> Bodies \cup {"none"}]
          /\ HandlerHasRequest'
      BY <2>3, <3>1 DEF CreatePeerConnection, CreateFails, Send
    <3>5. isReady' \in BOOLEAN
      BY <2>3 DEF CreatePeerConnection
    <3> QED
      BY <2>3, <3>3, <3>4, <3>5 DEF CreatePeerConnection
  <2>4. CASE LockMtx
    BY <2>4 DEF LockMtx
  <2>5. CASE WakeUp
    BY <2>5 DEF WakeUp
  <2>6. CASE TimerExpires
    BY <2>6 DEF TimerExpires
  <2>7. CASE WaitExpired
    BY <2>7 DEF WaitExpired, Send
  <2>8. CASE Describe
    BY <2>8 DEF Describe, Send
  <2>9. CASE RunTask
    <3>1. Head(queue) \in Requests /\ Tail(queue) \in Seq(Requests)
      BY <2>9 DEF RunTask
    <3>2. \/ creating' = creating
          \/ \E p \in Requests : creating' = [creating EXCEPT ![p] = creating[p] + 1]
      BY <2>9, <3>1 DEF RunTask, OwnFrame
    <3>2a. creating' \in [Requests -> Nat]
      <4>1. creating \in [Requests -> Nat]
        OBVIOUS
      <4>2. ASSUME NEW p \in Requests, creating' = [creating EXCEPT ![p] = creating[p] + 1]
            PROVE  creating' \in [Requests -> Nat]
        BY <4>1, <4>2, CountUp, Zenon
      <4> QED
        BY <3>2, <4>1, <4>2, Zenon
    <3>2b. dangling' \in SUBSET Requests
      BY <2>9, <3>1 DEF RunTask
    <3>3. loop' \in LoopStates /\ HandlerHasRequest'
      BY <2>9 DEF RunTask
    <3> QED
      BY <2>9, <3>1, <3>2a, <3>2b, <3>3 DEF RunTask
  <2>10. ASSUME NEW r \in Requests, LocalDescriptionSet(r) PROVE TypeInv'
    BY <2>10 DEF LocalDescriptionSet, DescriptionFor, OwnFrame, FrameLive
  <2>11. CASE OnSetLocalDescriptionComplete
    BY <2>11 DEF OnSetLocalDescriptionComplete
  <2>12. CASE Interrupt
    BY <2>12 DEF Interrupt
  <2>13. CASE OnSignal
    BY <2>13 DEF OnSignal
  <2>14. CASE LoopExit
    BY <2>14 DEF LoopExit
  <2>15. CASE Stop
    BY <2>15 DEF Stop, Dispose
  <2>16. CASE ClosePeerConnection
    BY <2>16 DEF ClosePeerConnection
  <2>17. CASE Exit
    BY <2>17 DEF Exit
  <2>18. CASE UNCHANGED vars
    BY <2>18 DEF vars
  <2> QED
    BY <2>1, <2>2, <2>3, <2>4, <2>5, <2>6, <2>7, <2>8, <2>9, <2>10, <2>11,
       <2>12, <2>13, <2>14, <2>15, <2>16, <2>17, <2>18
       DEF Next, MainThread, SignalingThread
<1> QED
  BY <1>1, <1>2, PTL DEF Spec, TypeInv


--------------------------------------------------------------------------------
(* The wake-up hand-over.                                                   *)

\* No interleaving of the main thread's test and wait with the observer's
\* notify_all loses the wake-up.  The invariant is inductive as it stands.
THEOREM WakeupNeverLost == Spec => []NoLostWakeup
<1>1. Init => NoLostWakeup
  BY DEF Init, NoLostWakeup
<1>2. NoLostWakeup /\ [Next]_vars => NoLostWakeup'
  <2> SUFFICES ASSUME NoLostWakeup, [Next]_vars, loop' = "wait", isReady' PROVE FALSE
    BY DEF NoLostWakeup
  <2> USE DEF NoLostWakeup, http, peers, signaling, shutdown, history, Send
  <2>1. ~MainThread
    <3>1. ASSUME NEW r \in Requests, OnHttpRequest(r) PROVE FALSE
      BY <3>1 DEF OnHttpRequest
    <3>2. CASE CreatePeerConnection
      BY <3>2 DEF CreatePeerConnection, CreateFails
    <3>3. CASE LockMtx \/ WakeUp
      BY <3>3 DEF LockMtx, WakeUp
    <3>4. CASE TimerExpires \/ WaitExpired \/ Describe
      BY <3>4 DEF TimerExpires, WaitExpired, Describe
    <3>5. CASE OnSignal \/ LoopExit \/ Stop \/ ClosePeerConnection \/ Exit
      BY <3>5 DEF OnSignal, LoopExit, Stop, ClosePeerConnection, Exit
    <3> QED
      BY <3>1, <3>2, <3>3, <3>4, <3>5 DEF MainThread
  <2>2. ~SignalingThread
    <3>1. CASE RunTask
      BY <3>1 DEF RunTask
    <3>2. ASSUME NEW r \in Requests, LocalDescriptionSet(r) PROVE FALSE
      BY <3>2 DEF LocalDescriptionSet
    <3>3. CASE OnSetLocalDescriptionComplete
      BY <3>3 DEF OnSetLocalDescriptionComplete
    <3> QED
      BY <3>1, <3>2, <3>3 DEF SignalingThread
  <2>3. ~Startup /\ ~Interrupt /\ ~UNCHANGED vars
    BY DEF Startup, Interrupt, vars
  <2> QED
    BY <2>1, <2>2, <2>3 DEF Next
<1> QED
  BY <1>1, <1>2, PTL DEF Spec

--------------------------------------------------------------------------------
(* Dead frames.                                                             *)

NonePending == [r \in Requests |-> 0]

\* Nothing the main thread handed to the signaling thread is outstanding.
Quiet == queue = <<>> /\ creating = NonePending /\ sig = NoRequest

\* Exactly one thing is: the running handler's task, its SetLocalDescription,
\* or its observer.
OnePending ==
    \/ queue = <<cur>> /\ creating = NonePending /\ sig = NoRequest
    \/ queue = <<>> /\ creating = [NonePending EXCEPT ![cur] = 1] /\ sig = NoRequest
    \/ queue = <<>> /\ creating = NonePending /\ sig = cur /\ at = "frame"

\* The strengthening of NoDanglingWithoutTimeout: until a wait has expired, work
\* is outstanding only for the live frame, and only while its isReady is false.
HandOver ==
    timedOut = {} =>
        /\ dangling = {}
        /\ ~FrameLive => Quiet
        /\ FrameLive => \/ isReady /\ Quiet
                        \/ ~isReady /\ loop \in {"lock", "wait", "expired"} /\ OnePending


\* One step keeps HandOver.
LEMMA HandOverStep == TypeInv /\ HandOver /\ [Next]_vars => HandOver'
<1> SUFFICES ASSUME TypeInv, HandOver, [Next]_vars, timedOut' = {}
             PROVE  /\ dangling' = {}
                    /\ ~FrameLive' => Quiet'
                    /\ FrameLive' => \/ isReady' /\ Quiet'
                                     \/ /\ ~isReady'
                                        /\ loop' \in {"lock", "wait", "expired"}
                                        /\ OnePending'
  BY DEF HandOver
<1> DEFINE Goal == /\ dangling' = {}
                   /\ ~FrameLive' => Quiet'
                   /\ FrameLive' => \/ isReady' /\ Quiet'
                                    \/ /\ ~isReady'
                                       /\ loop' \in {"lock", "wait", "expired"}
                                       /\ OnePending'
<1>0. timedOut = {}
  <2>1. CASE WaitExpired
    BY <2>1 DEF WaitExpired
  <2>2. CASE ~WaitExpired
    BY <2>2 DEF Next, MainThread, SignalingThread, Startup, OnHttpRequest,
       CreatePeerConnection, LockMtx, WakeUp, TimerExpires, Describe, RunTask,
       LocalDescriptionSet, OnSetLocalDescriptionComplete, Interrupt, OnSignal,
       LoopExit, Stop, ClosePeerConnection, Exit, history, vars
  <2> QED
    BY <2>1, <2>2
<1>a. /\ dangling = {}
      /\ ~FrameLive => Quiet
      /\ FrameLive => \/ isReady /\ Quiet
                      \/ ~isReady /\ loop \in {"lock", "wait", "expired"} /\ OnePending
  BY <1>0 DEF HandOver
<1>b. NonePending \in [Requests -> Nat] /\ NoRequest \notin Requests
  BY NoRequestAssumption DEF NonePending
\* Steps that leave the signaling side and isReady alone.
<1>c. ASSUME UNCHANGED <<queue, creating, sig, at, isReady, dangling>>, ~FrameLive, ~FrameLive'
      PROVE  Goal
  BY <1>c, <1>a DEF Quiet, NonePending
<1>d. ASSUME UNCHANGED <<queue, creating, sig, at, isReady, dangling, loop, cur>>
      PROVE  Goal
  BY <1>d, <1>a DEF Quiet, OnePending, NonePending, FrameLive
<1>1. CASE Startup
  BY <1>1, <1>c DEF Startup, FrameLive, peers, signaling, history
<1>2. ASSUME NEW r \in Requests, OnHttpRequest(r) PROVE Goal
  BY <1>2, <1>c DEF OnHttpRequest, Send, FrameLive, peers, signaling, history
<1>3. CASE CreatePeerConnection
  <2>1. Quiet /\ cur \in Requests
    BY <1>3, <1>a DEF CreatePeerConnection, FrameLive, TypeInv, HandlerHasRequest
  <2>2. CASE CreateFails(cur) /\ UNCHANGED <<queue, isReady>>
    BY <1>3, <1>c, <2>2 DEF CreatePeerConnection, CreateFails, Send, FrameLive, history
  <2>3. CASE /\ queue' = Append(queue, cur)
             /\ isReady' = FALSE
             /\ loop' = "lock"
             /\ UNCHANGED cur
    <3>1. queue' = <<cur>> /\ UNCHANGED <<creating, sig, at, dangling>>
      BY <1>3, <2>1, <2>3 DEF CreatePeerConnection, Quiet, history
    <3> QED
      BY <1>a, <2>1, <2>3, <3>1 DEF Quiet, OnePending, NonePending, FrameLive
  <2> QED
    BY <1>3, <2>2, <2>3 DEF CreatePeerConnection
<1>4. CASE LockMtx \/ WakeUp \/ TimerExpires
  <2>1. UNCHANGED <<queue, creating, sig, at, isReady, dangling, cur>>
    BY <1>4 DEF LockMtx, WakeUp, TimerExpires, peers, signaling, history
  <2>2. FrameLive
    BY <1>4 DEF LockMtx, WakeUp, TimerExpires, FrameLive
  <2>3. CASE isReady
    <3>1. FrameLive'
      BY <1>4, <2>3 DEF LockMtx, WakeUp, TimerExpires, FrameLive
    <3> QED
      BY <1>a, <2>1, <2>2, <2>3, <3>1 DEF Quiet, NonePending
  <2>4. CASE ~isReady
    <3>1. loop' \in {"wait", "expired"}
      BY <1>4, <2>4 DEF LockMtx, WakeUp, TimerExpires
    <3> QED
      BY <1>a, <2>1, <2>2, <2>4, <3>1 DEF OnePending, NonePending, FrameLive
  <2> QED
    BY <2>3, <2>4
<1>5. CASE WaitExpired
  <2>1. isReady /\ loop = "expired" /\ loop' = "describe" /\ UNCHANGED cur
    BY <1>5 DEF WaitExpired
  <2>2. UNCHANGED <<queue, creating, sig, at, isReady, dangling>>
    BY <1>5 DEF WaitExpired, peers, signaling
  <2> QED
    BY <1>a, <2>1, <2>2 DEF Quiet, NonePending, FrameLive
<1>6. CASE Describe
  <2>1. loop = "describe" /\ loop' = "dispatch"
    BY <1>6 DEF Describe, Send
  <2>2. UNCHANGED <<queue, creating, sig, at, isReady, dangling>>
    BY <1>6 DEF Describe, peers, signaling, history
  <2> QED
    BY <1>a, <2>1, <2>2 DEF Quiet, NonePending, FrameLive
<1>7. CASE RunTask
  <2>1. ~isReady /\ FrameLive /\ OnePending /\ queue # <<>>
    BY <1>7, <1>a DEF RunTask, Quiet
  <2>2. queue = <<cur>> /\ creating = NonePending /\ sig = NoRequest /\ cur \in Requests
    BY <2>1 DEF OnePending, TypeInv, HandlerHasRequest
  <2>3. Head(queue) = cur /\ Tail(queue) = <<>>
    BY <2>2
  <2>4. /\ queue' = <<>>
        /\ creating' = [NonePending EXCEPT ![cur] = NonePending[cur] + 1]
        /\ UNCHANGED <<loop, cur, sig, isReady, dangling>>
    BY <1>7, <2>1, <2>2, <2>3 DEF RunTask, OwnFrame
  <2>5. creating' = [NonePending EXCEPT ![cur] = 1]
    BY <2>2, <2>4 DEF NonePending
  <2> QED
    BY <1>a, <2>1, <2>2, <2>4, <2>5 DEF OnePending, NonePending, FrameLive
<1>8. ASSUME NEW r \in Requests, LocalDescriptionSet(r) PROVE Goal
  <2>1. FrameLive /\ ~isReady /\ OnePending /\ sig = NoRequest /\ creating[r] > 0
    BY <1>8, <1>a DEF LocalDescriptionSet, Quiet, NonePending
  <2>2. cur \in Requests
    BY <2>1 DEF TypeInv, HandlerHasRequest
  <2>3. queue = <<>> /\ creating = [NonePending EXCEPT ![cur] = 1]
    BY <2>1, <2>2, <1>b DEF OnePending, NonePending
  <2>4. r = cur
    BY <2>1, <2>2, <2>3 DEF NonePending
  <2>5. creating' = [creating EXCEPT ![cur] = creating[cur] - 1]
    BY <1>8, <2>4 DEF LocalDescriptionSet
  <2>6. creating' = NonePending
    BY <2>2, <2>3, <2>5 DEF NonePending
  <2>7. /\ sig' = cur /\ at' = "frame"
        /\ UNCHANGED <<loop, cur, queue, isReady, dangling>>
    BY <1>8, <2>1, <2>4 DEF LocalDescriptionSet, OwnFrame, http, history
  <2> QED
    BY <1>a, <2>1, <2>3, <2>6, <2>7 DEF OnePending, NonePending, FrameLive
<1>9. CASE OnSetLocalDescriptionComplete
  <2>1. FrameLive /\ ~isReady /\ OnePending /\ sig # NoRequest
    BY <1>9, <1>a DEF OnSetLocalDescriptionComplete, Quiet
  <2>2. queue = <<>> /\ creating = NonePending /\ sig = cur /\ at = "frame"
    BY <2>1 DEF OnePending
  <2>3. /\ isReady' = TRUE
        /\ loop' = IF loop = "wait" THEN "woken" ELSE loop
        /\ sig' = NoRequest
        /\ UNCHANGED <<queue, creating, dangling>>
    BY <1>9, <2>1, <2>2 DEF OnSetLocalDescriptionComplete, OwnFrame, peers
  <2> QED
    BY <1>a, <2>1, <2>2, <2>3 DEF Quiet, NonePending, FrameLive
<1>10. CASE Interrupt \/ OnSignal \/ ClosePeerConnection \/ UNCHANGED vars
  BY <1>10, <1>d DEF Interrupt, OnSignal, ClosePeerConnection, vars, http, peers,
     signaling, history
<1>11. CASE LoopExit \/ Stop
  BY <1>11, <1>c DEF LoopExit, Stop, FrameLive, peers, signaling, history
<1>12. CASE Exit
  <2>1. loop = "closing" /\ ~FrameLive /\ creating = NonePending /\ dangling = {}
    BY <1>12, <1>a DEF Exit, FrameLive, Quiet
  <2>2. {r \in Requests : creating[r] > 0} = {}
    BY <2>1 DEF NonePending
  <2>3. /\ loop' = "exited" /\ dangling' = {} /\ creating' = NonePending
        /\ UNCHANGED <<queue, sig>>
    BY <1>12, <2>1, <2>2 DEF Exit, signaling, NonePending
  <2> QED
    BY <1>a, <2>1, <2>3 DEF FrameLive, Quiet, NonePending
<1> QED
  BY <1>1, <1>2, <1>3, <1>4, <1>5, <1>6, <1>7, <1>8, <1>9, <1>10, <1>11, <1>12
     DEF Next, MainThread, SignalingThread

\* Without an expired wait the signaling thread never touches the locals of a
\* CreatePeerConnection call that has returned.
THEOREM FramesSafeUntilTimeout == Spec => []NoDanglingWithoutTimeout
<1>1. Init => HandOver
  BY DEF Init, HandOver, FrameLive, Quiet, NonePending
<1>2. HandOver => NoDanglingWithoutTimeout
  BY DEF HandOver, NoDanglingWithoutTimeout
<1> QED
  BY <1>1, <1>2, TypeCorrect, HandOverStep, PTL DEF Spec, TypeInv


--------------------------------------------------------------------------------
(* The order of completion and read.                                        *)

\* The strengthening of ReadAfterComplete: isReady says the same of the whole
\* life of the frame, and the main thread gets to the read only with isReady.
ReadyMeansComplete ==
    /\ loop = "describe" => isReady
    /\ dangling = {} /\ FrameLive /\ isReady => cur \in completed

\* Unless a dead frame was touched, the description is read only after the
\* observer of this request has run.
THEOREM ReadFollowsCompletion == Spec => []ReadAfterComplete
<1>1. Init => ReadyMeansComplete
  BY DEF Init, ReadyMeansComplete, FrameLive
<1>2. ReadyMeansComplete /\ [Next]_vars => ReadyMeansComplete'
  <2> SUFFICES ASSUME ReadyMeansComplete, [Next]_vars PROVE ReadyMeansComplete'
    OBVIOUS
  <2> USE DEF ReadyMeansComplete, FrameLive, http, peers, signaling, shutdown, history
  <2>1. CASE MainThread
    <3>1. ASSUME NEW r \in Requests, OnHttpRequest(r) PROVE ReadyMeansComplete'
      BY <3>1 DEF OnHttpRequest, Send
    <3>2. CASE CreatePeerConnection
      BY <3>2 DEF CreatePeerConnection, CreateFails, Send
    <3>3. CASE LockMtx
      BY <3>3 DEF LockMtx
    <3>4. CASE WakeUp
      BY <3>4 DEF WakeUp
    <3>5. CASE TimerExpires
      BY <3>5 DEF TimerExpires
    <3>6. CASE WaitExpired
      BY <3>6 DEF WaitExpired, Send
    <3>7. CASE Describe
      BY <3>7 DEF Describe, Send
    <3>8. CASE OnSignal \/ LoopExit \/ Stop \/ ClosePeerConnection \/ Exit
      BY <3>8 DEF OnSignal, LoopExit, Stop, ClosePeerConnection, Exit
    <3> QED
      BY <2>1, <3>1, <3>2, <3>3, <3>4, <3>5, <3>6, <3>7, <3>8 DEF MainThread
  <2>2. CASE SignalingThread
    <3>1. CASE RunTask
      BY <3>1 DEF RunTask
    <3>2. ASSUME NEW r \in Requests, LocalDescriptionSet(r) PROVE ReadyMeansComplete'
      BY <3>2 DEF LocalDescriptionSet
    <3>3. CASE OnSetLocalDescriptionComplete
      <4>1. dangling' = {} => dangling = {} /\ OwnFrame(sig) /\ completed' = completed \cup {sig}
        BY <3>3 DEF OnSetLocalDescriptionComplete
      <4> QED
        BY <3>3, <4>1 DEF OnSetLocalDescriptionComplete, OwnFrame, MtxHeld
    <3> QED
      BY <2>2, <3>1, <3>2, <3>3 DEF SignalingThread
  <2>3. CASE Startup \/ Interrupt \/ UNCHANGED vars
    BY <2>3 DEF Startup, Interrupt, vars
  <2> QED
    BY <2>1, <2>2, <2>3 DEF Next
<1>3. ReadyMeansComplete => ReadAfterComplete
  BY DEF ReadyMeansComplete, ReadAfterComplete, FrameLive
<1> QED
  BY <1>1, <1>2, <1>3, PTL DEF Spec

--------------------------------------------------------------------------------
(* One request at a time.                                                   *)

\* The main thread is inside the handler of a request.
Handling == FrameLive \/ loop = "create"

\* A request that has not arrived has left no trace anywhere.
Untouched(r) ==
    /\ cur # r /\ sig # r
    /\ reply[r] = "none"
    /\ creating[r] = 0
    /\ r \notin completed
    /\ \A k \in DOMAIN queue : queue[k] # r

\* The handler runs for one request, which has arrived and is not replied to;
\* outside of it there is none.
OneHandler ==
    /\ Alive => (cur # NoRequest <=> Handling)
    /\ \A r \in Requests : cur = r => reply[r] = "none"
    /\ \A r \in Requests : kind[r] = "unsent" => Untouched(r)

\* No two handlers overlap, and nothing in the signaling thread belongs to a
\* request the loop has not read yet.
THEOREM RequestsOneByOne == Spec => []OneHandler
<1>1. Init => OneHandler
  BY NoRequestAssumption DEF Init, OneHandler, Untouched, Alive, Handling, FrameLive
<1>2. TypeInv /\ OneHandler /\ [Next]_vars => OneHandler'
  <2> SUFFICES ASSUME TypeInv, OneHandler, [Next]_vars PROVE OneHandler'
    OBVIOUS
  <2> USE NoRequestAssumption, KindsAssumption DEF OneHandler, Alive, Handling, FrameLive
  <2> USE DEF TypeInv, TypeOK, HandlerHasRequest, http, peers, signaling, shutdown, history
  <2>1. CASE Startup
    BY <2>1 DEF Startup, Untouched
  <2>2. ASSUME NEW r \in Requests, OnHttpRequest(r) PROVE OneHandler'
    <3>1. kind[r] = "unsent" /\ reply[r] = "none" /\ kind'[r] # "unsent"
      BY <2>2 DEF OnHttpRequest, Untouched, AllKinds
    <3> QED
      BY <2>2, <3>1 DEF OnHttpRequest, Send, Untouched
  <2>3. CASE CreatePeerConnection
    <3>1. cur \in Requests /\ kind[cur] # "unsent" /\ reply[cur] = "none"
      BY <2>3 DEF CreatePeerConnection, Untouched
    <3>2. /\ Alive' => (cur' # NoRequest <=> Handling')
          /\ \A r \in Requests : cur' = r => reply'[r] = "none"
      BY <2>3, <3>1 DEF CreatePeerConnection, CreateFails, Send
    <3>3. ASSUME NEW r \in Requests, kind'[r] = "unsent" PROVE Untouched(r)'
      <4>1. r # cur /\ kind[r] = "unsent" /\ Untouched(r)
        BY <2>3, <3>1, <3>3 DEF CreatePeerConnection
      <4>2. \A k \in DOMAIN queue' : queue'[k] # r
        <5>1. CASE queue' = Append(queue, cur)
          BY <3>1, <4>1, <5>1 DEF Untouched
        <5>2. CASE UNCHANGED queue
          BY <4>1, <5>2 DEF Untouched
        <5> QED
          BY <2>3, <5>1, <5>2 DEF CreatePeerConnection
      <4>3. cur' # r /\ sig' # r /\ reply'[r] = "none" /\ creating'[r] = 0 /\ r \notin completed'
        BY <2>3, <3>1, <4>1 DEF CreatePeerConnection, CreateFails, Send, Untouched
      <4> QED
        BY <4>2, <4>3 DEF Untouched
    <3> QED
      BY <3>2, <3>3
  <2>4. CASE LockMtx \/ WakeUp \/ TimerExpires
    BY <2>4 DEF LockMtx, WakeUp, TimerExpires, Untouched
  <2>5. CASE WaitExpired
    BY <2>5 DEF WaitExpired, Send, Untouched
  <2>6. CASE Describe
    BY <2>6 DEF Describe, Send, Untouched
  <2>7. CASE RunTask
    <3>1. Head(queue) \in Requests /\ Head(queue) = queue[1] /\ 1 \in DOMAIN queue
      BY <2>7 DEF RunTask
    <3>2. \A k \in DOMAIN Tail(queue) : k + 1 \in DOMAIN queue /\ Tail(queue)[k] = queue[k + 1]
      BY <2>7 DEF RunTask
    <3>3. UNCHANGED <<cur, kind, reply, sig, completed>> /\ loop' \in {loop, "crashed"}
      BY <2>7 DEF RunTask
    <3>4. \/ creating' = creating
          \/ \E p \in {Head(queue), cur} \cap Requests :
                creating' = [creating EXCEPT ![p] = creating[p] + 1]
      BY <2>7, <3>1 DEF RunTask, OwnFrame
    <3>5. ASSUME NEW r \in Requests, kind[r] = "unsent" PROVE Untouched(r)'
      <4>1. Untouched(r) /\ r \notin {Head(queue), cur}
        BY <3>1, <3>5 DEF Untouched
      <4>2. creating'[r] = 0
        BY <3>4, <4>1 DEF Untouched
      <4>3. \A k \in DOMAIN queue' : queue'[k] # r
        BY <2>7, <3>2, <4>1 DEF RunTask, Untouched
      <4> QED
        BY <3>3, <4>1, <4>2, <4>3 DEF Untouched
    <3> QED
      BY <3>3, <3>5
  <2>8. ASSUME NEW r \in Requests, LocalDescriptionSet(r) PROVE OneHandler'
    <3>1. kind[r] # "unsent"
      BY <2>8 DEF LocalDescriptionSet, Untouched
    <3> QED
      BY <2>8, <3>1 DEF LocalDescriptionSet, Untouched
  <2>9. CASE OnSetLocalDescriptionComplete
    BY <2>9 DEF OnSetLocalDescriptionComplete, Untouched
  <2>10. CASE Interrupt \/ OnSignal \/ ClosePeerConnection \/ UNCHANGED vars
    BY <2>10 DEF Interrupt, OnSignal, ClosePeerConnection, vars, Untouched
  <2>11. CASE LoopExit \/ Stop
    BY <2>11 DEF LoopExit, Stop, Untouched
  <2>12. CASE Exit
    BY <2>12 DEF Exit, Untouched
  <2> QED
    BY <2>1, <2>2, <2>3, <2>4, <2>5, <2>6, <2>7, <2>8, <2>9, <2>10, <2>11, <2>12
       DEF Next, MainThread, SignalingThread
<1> QED
  BY <1>1, <1>2, TypeCorrect, PTL DEF Spec, TypeInv
--------------------------------------------------------------------------------
(* What an answerable offer gets.                                           *)

\* Nothing is closed before the shutdown.
ClosedLate == closed # {} => loop \in {"closing", "exited", "crashed"}

\* Once its observer is called a peer connection has the description its offer
\* leads to, and it keeps it.
Described ==
    /\ ClosedLate
    /\ \A r \in Requests :
        (r \in completed \/ (sig = r /\ r \notin closed)) => desc[r] = DescriptionFor(kind[r])

\* One step keeps Described.
LEMMA DescribedStep == TypeInv /\ OneHandler /\ Described /\ [Next]_vars => Described'
<1> SUFFICES ASSUME TypeInv, OneHandler, Described, [Next]_vars PROVE Described'
  OBVIOUS
<1> USE NoRequestAssumption DEF Described, ClosedLate
<1> USE DEF TypeInv, TypeOK, http, peers, signaling, shutdown, history
<1>1. CASE Startup
  BY <1>1 DEF Startup
<1>2. ASSUME NEW r \in Requests, OnHttpRequest(r) PROVE Described'
  <2>1. sig # r /\ r \notin completed
    BY <1>2 DEF OnHttpRequest, OneHandler, Untouched
  <2> QED
    BY <1>2, <2>1 DEF OnHttpRequest, Send
<1>3. CASE CreatePeerConnection
  BY <1>3 DEF CreatePeerConnection, CreateFails, Send
<1>4. CASE LockMtx \/ WakeUp \/ TimerExpires
  BY <1>4 DEF LockMtx, WakeUp, TimerExpires
<1>5. CASE WaitExpired \/ Describe
  BY <1>5 DEF WaitExpired, Describe, Send
<1>6. CASE RunTask
  BY <1>6 DEF RunTask
<1>7. ASSUME NEW r \in Requests, LocalDescriptionSet(r) PROVE Described'
  BY <1>7 DEF LocalDescriptionSet
<1>8. CASE OnSetLocalDescriptionComplete
  <2>1. OwnFrame(sig) => closed = {}
    BY DEF OwnFrame, FrameLive
  <2> QED
    BY <1>8, <2>1 DEF OnSetLocalDescriptionComplete
<1>9. CASE Interrupt \/ OnSignal \/ UNCHANGED vars
  BY <1>9 DEF Interrupt, OnSignal, vars
<1>10. CASE LoopExit \/ Stop
  BY <1>10 DEF LoopExit, Stop
<1>11. CASE ClosePeerConnection
  BY <1>11 DEF ClosePeerConnection
<1>12. CASE Exit
  BY <1>12 DEF Exit
<1> QED
  BY <1>1, <1>2, <1>3, <1>4, <1>5, <1>6, <1>7, <1>8, <1>9, <1>10, <1>11, <1>12
     DEF Next, MainThread, SignalingThread

\* A good offer gets its answer unless its wait expired or a dead frame was
\* touched.  With ReadAfterComplete the description is read after the observer
\* ran, and with Described it is the answer then.
THEOREM GoodOffersAnswered == Spec => []GoodOfferAnswered
<1>1. Init => GoodOfferAnswered /\ Described
  BY NoRequestAssumption DEF Init, GoodOfferAnswered, Described, ClosedLate
<1>2. TypeInv /\ OneHandler /\ Described /\ ReadAfterComplete /\ GoodOfferAnswered /\ [Next]_vars
        => GoodOfferAnswered'
  <2> SUFFICES ASSUME TypeInv, OneHandler, Described, ReadAfterComplete, GoodOfferAnswered,
                      [Next]_vars,
                      NEW q \in Requests, kind'[q] = "good", reply'[q] # "none",
                      q \notin timedOut', dangling' = {}
               PROVE  reply'[q] = "answer"
    BY DEF GoodOfferAnswered
  <2> USE DEF TypeInv, TypeOK, GoodOfferAnswered, http, peers, signaling, shutdown, history
  <2>1. CASE Startup
    BY <2>1 DEF Startup
  <2>2. ASSUME NEW r \in Requests, OnHttpRequest(r) PROVE reply'[q] = "answer"
    <3>1. reply[r] = "none"
      BY <2>2 DEF OnHttpRequest, OneHandler, Untouched
    <3> QED
      BY <2>2, <3>1 DEF OnHttpRequest, Send
  <2>3. CASE CreatePeerConnection
    BY <2>3 DEF CreatePeerConnection, CreateFails, Send
  <2>4. CASE LockMtx \/ WakeUp \/ TimerExpires
    BY <2>4 DEF LockMtx, WakeUp, TimerExpires
  <2>5. CASE WaitExpired
    BY <2>5 DEF WaitExpired, Send
  <2>6. CASE Describe
    <3>1. dangling = {} /\ loop = "describe" /\ kind[q] = "good" /\ UNCHANGED timedOut
      BY <2>6 DEF Describe
    <3>2. q = cur => desc[q] = "answer"
      BY <3>1 DEF ReadAfterComplete, Described, DescriptionFor
    <3> QED
      BY <2>6, <3>1, <3>2 DEF Describe, Send
  <2>7. CASE SignalingThread
    BY <2>7 DEF SignalingThread, RunTask, LocalDescriptionSet, OnSetLocalDescriptionComplete
  <2>8. CASE Interrupt \/ OnSignal \/ LoopExit \/ Stop \/ UNCHANGED vars
    BY <2>8 DEF Interrupt, OnSignal, LoopExit, Stop, vars
  <2>9. CASE ClosePeerConnection \/ Exit
    BY <2>9 DEF ClosePeerConnection, Exit
  <2> QED
    BY <2>1, <2>2, <2>3, <2>4, <2>5, <2>6, <2>7, <2>8, <2>9 DEF Next, MainThread
<1> QED
  BY <1>1, <1>2, TypeCorrect, RequestsOneByOne, DescribedStep, ReadFollowsCompletion, PTL
     DEF Spec, TypeInv
--------------------------------------------------------------------------------
(* The shutdown.                                                            *)

\* The libevent objects are freed by the first run of ~HttpSimpleServer.
FreedOnce ==
    /\ loop \in {"destroying", "closing", "exited"} => freed = 1
    /\ Alive /\ loop \notin {"destroying", "closing"} => freed = 0

\* What a replied or running request keeps is in _peerConnections until
\* ~PcFactory has closed it.
Kept ==
    /\ FrameLive => cur \in Registered
    /\ \A r \in Requests :
        reply[r] # "none" /\ Registers(kind[r]) =>
            /\ Alive => r \in Registered
            /\ loop = "exited" => r \in closed

\* push_back keeps what is listed and lists one more.
LEMMA RegisteredAppend ==
    ASSUME NEW s \in Seq(Requests), NEW p \in Requests
    PROVE  {Append(s, p)[i] : i \in DOMAIN Append(s, p)} = {s[i] : i \in DOMAIN s} \cup {p}
<1>1. DOMAIN Append(s, p) = 1 .. Len(s) + 1 /\ Append(s, p)[Len(s) + 1] = p
  OBVIOUS
<1>2. \A i \in DOMAIN s : i \in DOMAIN Append(s, p) /\ Append(s, p)[i] = s[i]
  OBVIOUS
<1>3. Len(s) + 1 \in DOMAIN Append(s, p)
  BY <1>1
<1>4. \A i \in DOMAIN Append(s, p) : i \in DOMAIN s \/ i = Len(s) + 1
  BY <1>1
<1> QED
  BY <1>1, <1>2, <1>3, <1>4

\* One step keeps Kept.
LEMMA KeptStep == TypeInv /\ OneHandler /\ Kept /\ [Next]_vars => Kept'
<1> SUFFICES ASSUME TypeInv, OneHandler, Kept, [Next]_vars PROVE Kept'
  OBVIOUS
<1> USE NoRequestAssumption DEF Kept, Alive, FrameLive
<1> USE DEF TypeInv, TypeOK, HandlerHasRequest, http, peers, signaling, shutdown, history
<1>1. CASE Startup
  BY <1>1 DEF Startup, Registered
<1>2. ASSUME NEW r \in Requests, OnHttpRequest(r) PROVE Kept'
  <2>1. reply[r] = "none" /\ UNCHANGED Registered
    BY <1>2 DEF OnHttpRequest, OneHandler, Untouched, Registered
  <2>2. ASSUME NEW q \in Requests, reply'[q] # "none", Registers(kind'[q])
        PROVE  q \in Registered
    BY <1>2, <2>1, <2>2 DEF OnHttpRequest, Send, Registers
  <2> QED
    BY <1>2, <2>1, <2>2 DEF OnHttpRequest, Send
<1>3. CASE CreatePeerConnection
  <2>1. cur \in Requests
    BY <1>3 DEF CreatePeerConnection
  <2>2. Registered' = IF Registers(kind[cur]) THEN Registered \cup {cur} ELSE Registered
    <3>1. CASE Registers(kind[cur])
      <4>1. pcs' = Append(pcs, cur) /\ pcs \in Seq(Requests)
        BY <1>3, <3>1 DEF CreatePeerConnection
      <4>2. {Append(pcs, cur)[i] : i \in DOMAIN Append(pcs, cur)} = {pcs[i] : i \in DOMAIN pcs} \cup {cur}
        BY <2>1, <4>1, RegisteredAppend
      <4> QED
        BY <3>1, <4>1, <4>2, Zenon DEF Registered
    <3>2. CASE ~Registers(kind[cur])
      BY <1>3, <3>2 DEF CreatePeerConnection, Registered
    <3> QED
      BY <3>1, <3>2
  <2>3. loop' \in {"crashed", "dispatch", "lock"} /\ loop = "create" /\ UNCHANGED kind
    BY <1>3 DEF CreatePeerConnection, CreateFails, Send
  <2>4. loop' = "lock" => Registers(kind[cur]) /\ UNCHANGED cur
    BY <1>3 DEF CreatePeerConnection, CreateFails, Send, Registers
  <2>5. \A q \in Requests : q # cur => reply'[q] = reply[q]
    BY <1>3 DEF CreatePeerConnection, CreateFails, Send
  <2> QED
    BY <2>1, <2>2, <2>3, <2>4, <2>5
<1>4. CASE LockMtx \/ WakeUp \/ TimerExpires
  <2>1. UNCHANGED <<pcs, kind, cur, reply, closed>> /\ FrameLive /\ FrameLive'
    BY <1>4 DEF LockMtx, WakeUp, TimerExpires
  <2>2. UNCHANGED Registered
    BY <2>1 DEF Registered
  <2> QED
    BY <2>1, <2>2
<1>5. CASE WaitExpired \/ Describe
  <2>1. /\ UNCHANGED <<Registered, kind>>
        /\ loop \in {"expired", "describe"}
        /\ \/ loop' = "dispatch"
           \/ loop' = "describe" /\ UNCHANGED cur
        /\ \A q \in Requests : q # cur => reply'[q] = reply[q]
    BY <1>5 DEF WaitExpired, Describe, Send, Registered
  <2> QED
    BY <2>1
<1>6. CASE SignalingThread
  <2>1. UNCHANGED <<pcs, kind, cur, reply, closed>>
    BY <1>6 DEF SignalingThread, RunTask, LocalDescriptionSet, OnSetLocalDescriptionComplete
  <2>1a. UNCHANGED Registered
    BY <2>1 DEF Registered
  <2>2. Alive /\ (loop' \in {loop, "crashed"} \/ (loop = "wait" /\ loop' = "woken"))
    BY <1>6 DEF SignalingThread, RunTask, LocalDescriptionSet, OnSetLocalDescriptionComplete
  <2> QED
    BY <2>1, <2>1a, <2>2
<1>7. CASE Interrupt \/ OnSignal \/ LoopExit \/ Stop \/ UNCHANGED vars
  BY <1>7 DEF Interrupt, OnSignal, LoopExit, Stop, vars, Registered
<1>8. CASE ClosePeerConnection
  BY <1>8 DEF ClosePeerConnection, Registered
<1>9. CASE Exit
  BY <1>9 DEF Exit
<1> QED
  BY <1>1, <1>2, <1>3, <1>4, <1>5, <1>6, <1>7, <1>8, <1>9 DEF Next, MainThread

\* A regular exit has closed every peer connection that was kept, and freed the
\* libevent objects once although the destructor runs twice.
THEOREM ShutdownComplete == Spec => []ShutdownReleasesAll
<1>1. Init => FreedOnce /\ Kept
  BY DEF Init, FreedOnce, Kept, Alive, FrameLive
<1>2. FreedOnce /\ [Next]_vars => FreedOnce'
  <2> SUFFICES ASSUME FreedOnce, [Next]_vars PROVE FreedOnce'
    OBVIOUS
  <2> USE DEF FreedOnce, Alive, http, peers, signaling, shutdown, history
  <2>1. CASE Stop
    BY <2>1 DEF Stop, Dispose
  <2>2. CASE MainThread /\ ~Stop
    <3>1. UNCHANGED freed
      BY <2>2 DEF MainThread, OnHttpRequest, CreatePeerConnection, LockMtx, WakeUp, TimerExpires,
         WaitExpired, Describe, OnSignal, LoopExit, ClosePeerConnection, Exit
    <3>2. \/ loop \notin {"stopping", "destroying", "closing", "exited", "crashed"}
             /\ loop' \notin {"destroying", "closing", "exited"}
          \/ loop = "closing" /\ loop' \in {"closing", "exited", "crashed"}
      BY <2>2 DEF MainThread, OnHttpRequest, CreatePeerConnection, CreateFails, Send, LockMtx,
         WakeUp, TimerExpires, WaitExpired, Describe, OnSignal, LoopExit, ClosePeerConnection, Exit
    <3> QED
      BY <3>1, <3>2
  <2>3. CASE SignalingThread
    <3>1. UNCHANGED freed /\ Alive
      BY <2>3 DEF SignalingThread, RunTask, LocalDescriptionSet, OnSetLocalDescriptionComplete
    <3>2. loop' \in {loop, "crashed"} \/ (loop = "wait" /\ loop' = "woken")
      BY <2>3 DEF SignalingThread, RunTask, LocalDescriptionSet, OnSetLocalDescriptionComplete
    <3> QED
      BY <3>1, <3>2
  <2>4. CASE Startup \/ Interrupt \/ UNCHANGED vars
    BY <2>4 DEF Startup, Interrupt, vars
  <2> QED
    BY <2>1, <2>2, <2>3, <2>4 DEF Next
<1>3. FreedOnce /\ Kept => ShutdownReleasesAll
  BY DEF FreedOnce, Kept, ShutdownReleasesAll
<1> QED
  BY <1>1, <1>2, <1>3, TypeCorrect, RequestsOneByOne, KeptStep, PTL DEF Spec, TypeInv
--------------------------------------------------------------------------------
(* The abstract offer/answer service.                                       *)

\* The abstract state.
Statuses == [r \in Requests |-> Status(r)]

\* Every step of the server is a step of the abstract service, or none of it.
THEOREM OfferAnswerImplemented == Spec => ImplementsOfferAnswer
<1>1. Init => OA!Init
  BY NoRequestAssumption DEF Init, OA!Init, Status, Alive
<1>2. TypeInv /\ OneHandler /\ [Next]_vars => [OA!Next]_(OA!vars)
  <2> SUFFICES ASSUME TypeInv, OneHandler, [Next]_vars PROVE [OA!Next]_(OA!vars)
    OBVIOUS
  <2> USE NoRequestAssumption DEF TypeInv, TypeOK, HandlerHasRequest, OneHandler, Handling
  <2> USE DEF http, peers, signaling, shutdown, history
  \* Steps of no interest: they neither reply nor end the process.
  <2>a. ASSUME UNCHANGED <<cur, reply, Alive>> PROVE UNCHANGED OA!vars
    <3>1. Statuses' = Statuses
      BY <2>a DEF Statuses, Status
    <3> QED
      BY <2>a, <3>1 DEF OA!vars, Statuses
  \* The process ends.
  <2>b. ASSUME UNCHANGED <<cur, reply>>, Alive, ~Alive' PROVE OA!Next
    BY <2>b DEF OA!Next, OA!Down, Status
  \* The running handler replies.
  <2>c. ASSUME NEW body \in Bodies, Alive, Alive', cur \in Requests, Send(cur, body)
        PROVE  OA!Next
    <3>1. Status(cur) = "open"
      BY <2>c DEF Status
    <3>2. Statuses' = [Statuses EXCEPT ![cur] = IF body = "answer" THEN "answered" ELSE "refused"]
      BY <2>c DEF Send, Statuses, Status, Bodies
    <3>3. CASE body = "answer"
      <4>1. OA!Answer(cur)
        BY <2>c, <3>1, <3>2, <3>3 DEF OA!Answer, Statuses
      <4> QED
        BY <2>c, <4>1 DEF OA!Next
    <3>4. CASE body # "answer"
      <4>1. OA!Refuse(cur)
        BY <2>c, <3>1, <3>2, <3>4 DEF OA!Refuse, Statuses
      <4> QED
        BY <2>c, <4>1 DEF OA!Next
    <3> QED
      BY <3>3, <3>4
  <2>1. CASE Startup
    BY <2>1, <2>a, <2>b DEF Startup, Alive
  <2>2. ASSUME NEW r \in Requests, OnHttpRequest(r) PROVE OA!Next
    <3>1. Alive /\ Alive' /\ cur = NoRequest /\ reply[r] = "none"
      BY <2>2 DEF OnHttpRequest, Send, Alive, FrameLive, Untouched
    <3>2. Status(r) = "idle"
      BY <3>1 DEF Status
    <3>3. CASE \E body \in {"ok", "badRequest"} : Send(r, body)
      <4>1. Statuses' = [Statuses EXCEPT ![r] = "refused"]
        BY <3>1, <3>3 DEF Send, Statuses, Status
      <4>2. OA!Refuse(r)
        BY <3>1, <3>2, <4>1 DEF OA!Refuse, Statuses
      <4> QED
        BY <4>2 DEF OA!Next
    <3>4. CASE cur' = r /\ UNCHANGED reply
      <4>1. Statuses' = [Statuses EXCEPT ![r] = "open"]
        BY <3>1, <3>4 DEF Statuses, Status
      <4>2. OA!Open = {}
        BY <3>1 DEF OA!Open, Status
      <4>3. OA!Cardinality({}) = Cardinality({})
        BY DEF OA!Cardinality, Cardinality, OA!IsFiniteSet, IsFiniteSet
      <4>3a. OA!Cardinality(OA!Open) < 1
        BY <4>2, <4>3, FS_EmptySet
      <4>4. OA!Accept(r)
        BY <3>1, <3>2, <4>1, <4>3a DEF OA!Accept, Statuses
      <4> QED
        BY <4>4 DEF OA!Next
    <3> QED
      BY <2>2, <3>3, <3>4 DEF OnHttpRequest
  <2>3. CASE CreatePeerConnection
    <3>1. Alive /\ cur \in Requests
      BY <2>3 DEF CreatePeerConnection, Alive
    <3>2. CASE Send(cur, "error")
      BY <3>1, <3>2, <2>c DEF Bodies, Send, Alive
    <3>3. CASE UNCHANGED <<cur, reply>> /\ loop' = "crashed"
      BY <3>1, <3>3, <2>b DEF Alive
    <3>4. CASE UNCHANGED <<cur, reply>> /\ loop' = "lock"
      BY <3>1, <3>4, <2>a DEF Alive
    <3> QED
      BY <2>3, <3>2, <3>3, <3>4 DEF CreatePeerConnection, CreateFails
  <2>4. CASE LockMtx \/ WakeUp \/ TimerExpires
    BY <2>4, <2>a DEF LockMtx, WakeUp, TimerExpires, Alive
  <2>5. CASE WaitExpired
    <3>1. Alive /\ Alive' /\ cur \in Requests
      BY <2>5 DEF WaitExpired, Send, Alive, FrameLive
    <3>2. CASE Send(cur, "timeout")
      BY <3>1, <3>2, <2>c DEF Bodies
    <3>3. CASE UNCHANGED <<cur, reply>>
      BY <3>1, <3>3, <2>a
    <3> QED
      BY <2>5, <3>2, <3>3 DEF WaitExpired
  <2>6. CASE Describe
    <3>1. Alive /\ Alive' /\ cur \in Requests
      BY <2>6 DEF Describe, Send, Alive, FrameLive
    <3>2. \E body \in Bodies : Send(cur, body)
      BY <2>6, <3>1 DEF Describe, Bodies
    <3> QED
      BY <3>1, <3>2, <2>c
  <2>7. CASE SignalingThread \/ LoopExit \/ Stop \/ Exit
    <3>1. UNCHANGED <<cur, reply>> /\ Alive
      BY <2>7 DEF SignalingThread, RunTask, LocalDescriptionSet, OnSetLocalDescriptionComplete,
         LoopExit, Stop, Exit, Alive
    <3>2. Alive' \in BOOLEAN
      BY DEF Alive
    <3> QED
      BY <3>1, <3>2, <2>a, <2>b
  <2>8. CASE Interrupt \/ OnSignal \/ ClosePeerConnection \/ UNCHANGED vars
    BY <2>8, <2>a DEF Interrupt, OnSignal, ClosePeerConnection, vars, Alive
  <2> QED
    BY <2>1, <2>2, <2>3, <2>4, <2>5, <2>6, <2>7, <2>8 DEF Next, MainThread
<1> QED
  BY <1>1, <1>2, TypeCorrect, RequestsOneByOne, PTL
     DEF Spec, TypeInv, ImplementsOfferAnswer, OA!Spec

================================================================================
