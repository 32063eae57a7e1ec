------------------------------ MODULE AiortcServer ------------------------------
(***************************************************************************)
(* The aiortc echo server: coroutines of one event loop, which interleave   *)
(* only where they await.  offer adds its peer connection to pcs before it  *)
(* negotiates, the ICE handler closes and discards a failed one, and        *)
(* on_shutdown closes them all; aiohttp calls it while requests that are    *)
(* already accepted are still being handled, and run_app then cancels every *)
(* task and closes the loop.                                                *)
(***************************************************************************)
CONSTANT Peers

VARIABLES
    offer,      \* per peer: where its offer coroutine awaits
    ice,        \* per peer: ICE connection state, and the handler for a failure
    pcs,        \* the set of peer connections
    closed,     \* the peer connections whose close() has completed
    shutdown,   \* where on_shutdown is
    coros,      \* the peers whose close() on_shutdown gathers
    loop        \* the event loop

aiortcVars == <<offer, ice, pcs, closed, shutdown, coros, loop>>

AiortcTypeOK ==
    /\ offer \in [Peers -> {"none", "body", "remote", "answer", "replied", "bad", "error"}]
    /\ ice \in [Peers -> {"new", "connected", "failed", "closing", "raised", "done"}]
    /\ pcs \subseteq Peers /\ closed \subseteq Peers /\ coros \subseteq Peers
    /\ shutdown \in {"no", "closing", "raised", "done"}
    /\ loop \in {"running", "closed"}

AiortcInit ==
    /\ offer = [p \in Peers |-> "none"]
    /\ ice = [p \in Peers |-> "new"]
    /\ pcs = {} /\ closed = {} /\ coros = {}
    /\ shutdown = "no"
    /\ loop = "running"

\* A coroutine or callback runs, which takes the loop.
OnLoop == loop = "running" /\ UNCHANGED loop

--------------------------------------------------------------------------------
(* offer                                                                    *)

Step(p, from, to) ==
    /\ OnLoop
    /\ offer[p] = from
    /\ offer' = [offer EXCEPT ![p] = to]

\* A request is accepted until the sites are stopped, and awaits its body.
Accept(p) ==
    /\ shutdown = "no"
    /\ Step(p, "none", "body")
    /\ UNCHANGED <<ice, pcs, closed, shutdown, coros>>

\* The body is no session description: status 500.
BadBody(p) ==
    /\ Step(p, "body", "bad")
    /\ UNCHANGED <<ice, pcs, closed, shutdown, coros>>

\* RTCPeerConnection(), pcs.add, the handlers, and the await of setRemoteDescription.
AddPeer(p) ==
    /\ Step(p, "body", "remote")
    /\ pcs' = pcs \cup {p}
    /\ UNCHANGED <<ice, closed, shutdown, coros>>

\* createAnswer, and the await of setLocalDescription.
RemoteSet(p) ==
    /\ Step(p, "remote", "answer")
    /\ UNCHANGED <<ice, pcs, closed, shutdown, coros>>

Reply(p) ==
    /\ Step(p, "answer", "replied")
    /\ UNCHANGED <<ice, pcs, closed, shutdown, coros>>

\* Any of these awaits raises: status 500, and the connection stays in pcs.
Raises(p) ==
    /\ \E from \in {"remote", "answer"} : Step(p, from, "error")
    /\ UNCHANGED <<ice, pcs, closed, shutdown, coros>>

--------------------------------------------------------------------------------
(* on_iceconnectionstatechange                                              *)

PeerConnects(p) ==
    /\ OnLoop
    /\ offer[p] \in {"answer", "replied"} /\ p \notin closed
    /\ ice[p] = "new"
    /\ ice' = [ice EXCEPT ![p] = "connected"]
    /\ UNCHANGED <<offer, pcs, closed, shutdown, coros>>

Fails(p) ==
    /\ OnLoop
    /\ offer[p] \in {"answer", "replied"} /\ p \notin closed
    /\ ice[p] \in {"new", "connected"}
    /\ ice' = [ice EXCEPT ![p] = "failed"]
    /\ UNCHANGED <<offer, pcs, closed, shutdown, coros>>

\* Mutant: discard before close is awaited.
DiscardFirst(p) ==
    /\ OnLoop
    /\ ice[p] = "failed"
    /\ ice' = [ice EXCEPT ![p] = "closing"]
    /\ pcs' = pcs \ {p}
    /\ UNCHANGED <<offer, closed, shutdown, coros>>

\* await pc.close() begins.
CloseFailed(p) ==
    /\ OnLoop
    /\ ice[p] = "failed"
    /\ ice' = [ice EXCEPT ![p] = "closing"]
    /\ UNCHANGED <<offer, pcs, closed, shutdown, coros>>

\* Mutant: the failed connection is closed but kept.
DiscardForgotten(p) ==
    /\ OnLoop
    /\ ice[p] = "closing"
    /\ ice' = [ice EXCEPT ![p] = "done"]
    /\ closed' = closed \cup {p}
    /\ UNCHANGED <<offer, pcs, shutdown, coros>>

\* close() raises out of the handler: pcs.discard is not reached.
CloseRaises(p) ==
    /\ OnLoop
    /\ ice[p] = "closing"
    /\ ice' = [ice EXCEPT ![p] = "raised"]
    /\ UNCHANGED <<offer, pcs, closed, shutdown, coros>>

\* close() has completed, and pcs.discard follows.
Discard(p) ==
    /\ OnLoop
    /\ ice[p] = "closing"
    /\ ice' = [ice EXCEPT ![p] = "done"]
    /\ closed' = closed \cup {p}
    /\ pcs' = pcs \ {p}
    /\ UNCHANGED <<offer, shutdown, coros>>

--------------------------------------------------------------------------------
(* on_shutdown                                                              *)

\* The list of close() coroutines is made in one go; gathering none of them does
\* not suspend.
Shutdown ==
    /\ OnLoop
    /\ shutdown = "no"
    /\ shutdown' = IF pcs = {} THEN "done" ELSE "closing"
    /\ coros' = pcs
    /\ UNCHANGED <<offer, ice, pcs, closed>>

\* One of the gathered close() coroutines completes.
CloseGathered(p) ==
    /\ OnLoop
    /\ shutdown \in {"closing", "raised"}
    /\ p \in coros \ closed
    /\ closed' = closed \cup {p}
    /\ UNCHANGED <<offer, ice, pcs, shutdown, coros>>

\* One of them raises, and so does the await of gather.
GatherRaises ==
    /\ OnLoop
    /\ shutdown = "closing"
    /\ coros \ closed # {}
    /\ shutdown' = "raised"
    /\ UNCHANGED <<offer, ice, pcs, closed, coros>>

\* Mutant: gather is not awaited.
ClearEarly ==
    /\ OnLoop
    /\ shutdown = "closing"
    /\ shutdown' = "done"
    /\ pcs' = {}
    /\ UNCHANGED <<offer, ice, closed, coros>>

\* gather is done: pcs.clear().
Clear ==
    /\ OnLoop
    /\ shutdown = "closing"
    /\ coros \subseteq closed
    /\ shutdown' = "done"
    /\ pcs' = {}
    /\ UNCHANGED <<offer, ice, closed, coros>>

\* run_app ends: it cancels the tasks that are left and closes the loop.
LoopCloses ==
    /\ loop = "running"
    /\ shutdown \in {"done", "raised"}
    /\ loop' = "closed"
    /\ UNCHANGED <<offer, ice, pcs, closed, shutdown, coros>>

--------------------------------------------------------------------------------

AiortcNext ==
    \/ \E p \in Peers :
        \/ Accept(p) \/ BadBody(p) \/ AddPeer(p) \/ RemoteSet(p) \/ Reply(p) \/ Raises(p)
        \/ PeerConnects(p) \/ Fails(p) \/ CloseFailed(p) \/ CloseRaises(p) \/ Discard(p)
        \/ CloseGathered(p)
    \/ Shutdown \/ GatherRaises \/ Clear \/ LoopCloses

(***************************************************************************)
(* Fairness: while it is open, the event loop runs a handler that can go    *)
(* on, and close() of a failed connection completes or raises.              *)
(***************************************************************************)
AiortcFairness ==
    \A p \in Peers :
        WF_aiortcVars(CloseFailed(p)) /\ WF_aiortcVars(Discard(p) \/ CloseRaises(p))

AiortcSpec == AiortcInit /\ [][AiortcNext]_aiortcVars
FairAiortcSpec == AiortcSpec /\ AiortcFairness

--------------------------------------------------------------------------------
(* Properties.                                                              *)

Added == {p \in Peers : offer[p] \notin {"none", "body", "bad"}}

\* No connection leaves pcs unclosed, by whichever of the handlers and on_shutdown
\* gets there first, except one that was added while on_shutdown was closing the
\* others.
DroppedIsClosed ==
    /\ AiortcTypeOK
    /\ \A p \in Added \ pcs : p \in closed \/ (shutdown = "done" /\ p \notin coros)

PeerState(p) ==
    IF p \in closed \ pcs THEN "released"
    ELSE IF p \notin Added THEN "absent"
    ELSE IF p \notin pcs THEN "leaked"
    ELSE IF ice[p] \in {"failed", "closing", "raised"} THEN "failed"
    ELSE "listed"

PR == INSTANCE PeerRegistry WITH
        peer <- [p \in Peers |-> PeerState(p)],
        up <- shutdown = "no"

\* Until the shutdown pcs is a peer registry: only failed connections are closed
\* and taken off, in this order.
RegistryUntilShutdown == [][shutdown = "no" => PR!Next \/ UNCHANGED PR!vars]_aiortcVars

\* A failed connection is closed and taken off, also while on_shutdown is closing
\* it, unless close() raises or run_app cancels the handler.
FailedIsReleased ==
    \A p \in Peers :
        (ice[p] = "failed") ~> (p \in closed \ pcs \/ ice[p] = "raised" \/ loop = "closed")

================================================================================
