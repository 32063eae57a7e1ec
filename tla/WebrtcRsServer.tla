----------------------------- MODULE WebrtcRsServer -----------------------------
(***************************************************************************)
(* The webrtc-rs echo server: a tokio task per POST running process_offer,  *)
(* a spawned task per failed ICE connection, and one per remote track.      *)
(* Every error in process_offer is a panic, which ends the task and leaves  *)
(* the rest of the process alone; the peer connections are listed under     *)
(* PEER_CONNECTIONS_MUTEX.                                                  *)
(***************************************************************************)
CONSTANTS Peers, NoPeer

ASSUME NoPeerAssumption == NoPeer \notin Peers

VARIABLES
    offer,      \* per peer: where its process_offer task is
    ice,        \* per peer: ICE connection state and the removal task
    pcs,        \* the listed peer connections
    closed,     \* those on which close() was awaited
    mutex,      \* the removal task holding PEER_CONNECTIONS_MUTEX, or NoPeer
    bound,      \* peers whose EchoTracks have a TrackLocalContext
    echo        \* per peer: the task that writes back a remote track

vars == <<offer, ice, pcs, closed, mutex, bound, echo>>

TypeOK ==
    /\ offer \in [Peers -> {"none", "decoded", "listed", "negotiated", "replied",
                            "panicked", "unreplied"}]
    /\ ice \in [Peers -> {"new", "connected", "failed", "closing", "retain", "removed"}]
    /\ pcs \subseteq Peers /\ closed \subseteq Peers /\ bound \subseteq Peers
    /\ mutex \in Peers \cup {NoPeer}
    /\ echo \in [Peers -> {"none", "running", "ended", "panicked"}]

Init ==
    /\ offer = [p \in Peers |-> "none"]
    /\ ice = [p \in Peers |-> "new"]
    /\ pcs = {} /\ closed = {} /\ bound = {}
    /\ mutex = NoPeer
    /\ echo = [p \in Peers |-> "none"]

--------------------------------------------------------------------------------
(* process_offer                                                            *)

\* One stretch of process_offer ends well, or in a panic.
Proceed(p, from, to, panicked) ==
    /\ offer[p] = from
    /\ \E at \in {to, panicked} : offer' = [offer EXCEPT ![p] = at]

\* Read and parse the body, make the API and the peer connection.
Decode(p) ==
    /\ Proceed(p, "none", "decoded", "panicked")
    /\ UNCHANGED <<ice, pcs, closed, mutex, bound, echo>>

Push(p) ==
    /\ offer[p] = "decoded"
    /\ mutex = NoPeer
    /\ pcs' = pcs \cup {p}
    /\ offer' = [offer EXCEPT ![p] = "listed"]
    /\ UNCHANGED <<ice, closed, mutex, bound, echo>>

\* The tracks and callbacks, the remote offer, the answer.  After a panic the
\* connection stays listed.
Negotiate(p) ==
    /\ Proceed(p, "listed", "negotiated", "panicked")
    /\ UNCHANGED <<ice, pcs, closed, mutex, bound, echo>>

\* The response; a panic here leaves a live connection without a reply.
Respond(p) ==
    /\ Proceed(p, "negotiated", "replied", "unreplied")
    /\ UNCHANGED <<ice, pcs, closed, mutex, bound, echo>>

Negotiated(p) == offer[p] \in {"negotiated", "replied", "unreplied"}

--------------------------------------------------------------------------------
(* Callbacks, and the tasks they spawn.                                     *)

Connect(p) ==
    /\ Negotiated(p)
    /\ ice[p] = "new"
    /\ ice' = [ice EXCEPT ![p] = "connected"]
    /\ UNCHANGED <<offer, pcs, closed, mutex, bound, echo>>

\* ICE fails and the callback spawns the removal task, which waits for the mutex.
IceFails(p) ==
    /\ Negotiated(p)
    /\ ice[p] \in {"new", "connected"}
    /\ ice' = [ice EXCEPT ![p] = "failed"]
    /\ UNCHANGED <<offer, pcs, closed, mutex, bound, echo>>

LockForRemoval(p) ==
    /\ ice[p] = "failed"
    /\ mutex = NoPeer
    /\ mutex' = p
    /\ ice' = [ice EXCEPT ![p] = "closing"]
    /\ UNCHANGED <<offer, pcs, closed, bound, echo>>

\* close().await of the connection with this stats id, with the mutex held; an
\* error is only logged.
CloseMatching(p) ==
    /\ ice[p] = "closing"
    /\ closed' = closed \cup (pcs \cap {p})
    /\ ice' = [ice EXCEPT ![p] = "retain"]
    /\ UNCHANGED <<offer, pcs, mutex, bound, echo>>

\* Mutant: the comparison in retain is the wrong way round.
RetainInverted(p) ==
    /\ ice[p] = "retain"
    /\ pcs' = pcs \cap {p}
    /\ ice' = [ice EXCEPT ![p] = "removed"]
    /\ mutex' = NoPeer
    /\ UNCHANGED <<offer, closed, bound, echo>>

\* Mutant: the task ends without giving the mutex back.
RetainLocked(p) ==
    /\ ice[p] = "retain"
    /\ pcs' = pcs \ {p}
    /\ ice' = [ice EXCEPT ![p] = "removed"]
    /\ UNCHANGED <<offer, closed, mutex, bound, echo>>

\* retain all others and drop the guard.
Retain(p) ==
    /\ ice[p] = "retain"
    /\ pcs' = pcs \ {p}
    /\ ice' = [ice EXCEPT ![p] = "removed"]
    /\ mutex' = NoPeer
    /\ UNCHANGED <<offer, closed, bound, echo>>

\* EchoTrack::bind: the library binds the local track to its sender.
Bind(p) ==
    /\ Negotiated(p)
    /\ p \notin bound
    /\ bound' = bound \cup {p}
    /\ UNCHANGED <<offer, ice, pcs, closed, mutex, echo>>

\* on_track spawns the echo task, which indexes ctx[0]: without a bound context
\* the task panics.
OnTrack(p) ==
    /\ ice[p] = "connected"
    /\ echo[p] = "none"
    /\ echo' = [echo EXCEPT ![p] = IF p \in bound THEN "running" ELSE "panicked"]
    /\ UNCHANGED <<offer, ice, pcs, closed, mutex, bound>>

\* A read or a write fails, at the latest when the connection is closed.
EchoEnds(p) ==
    /\ echo[p] = "running"
    /\ echo' = [echo EXCEPT ![p] = "ended"]
    /\ UNCHANGED <<offer, ice, pcs, closed, mutex, bound>>

--------------------------------------------------------------------------------

\* What a peer does by itself, once its offer has come.
Step(p) ==
    \/ Push(p) \/ Negotiate(p) \/ Respond(p)
    \/ IceFails(p) \/ LockForRemoval(p) \/ CloseMatching(p) \/ Retain(p)
    \/ Bind(p) \/ OnTrack(p) \/ EchoEnds(p)

Next == \E p \in Peers : Decode(p) \/ Connect(p) \/ Step(p)

Spec == Init /\ [][Next]_vars

--------------------------------------------------------------------------------
(* Properties.                                                              *)

PeerState(p) ==
    IF p \in closed \ pcs THEN "released"
    ELSE IF offer[p] \in {"none", "decoded"} \/ (offer[p] = "panicked" /\ p \notin pcs) THEN "absent"
    ELSE IF p \notin pcs THEN "leaked"
    ELSE IF ice[p] \in {"failed", "closing", "retain"} THEN "failed"
    ELSE "listed"

PR == INSTANCE PeerRegistry WITH
        peer <- [p \in Peers |-> PeerState(p)],
        up <- TRUE

\* Only a failed connection is closed and taken off the list, and it is closed
\* first; a panic in a handler takes nothing off and closes nothing.
ImplementsPeerRegistry == PR!Spec

\* A connection whose ICE fails is closed and taken off the list, although any
\* number of handlers and echo tasks may panic.
FailedIsRemoved == \A p \in Peers : (ice[p] = "failed") ~> (p \in closed \ pcs)

================================================================================
