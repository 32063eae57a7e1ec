------------------------------- MODULE PionServer -------------------------------
(***************************************************************************)
(* The pion echo server: one goroutine per POST running offer, the ICE and  *)
(* track callbacks of each peer connection, and the list pcs guarded by     *)
(* pcsLock.  Every error path is log.Fatal, which ends the process for all  *)
(* of its peers.                                                            *)
(***************************************************************************)
EXTENDS Naturals, FiniteSets, Sequences

CONSTANTS Peers, NoPeer

ASSUME NoPeerAssumption == NoPeer \notin Peers

VARIABLES
    status,     \* "up", or how the process ended
    offer,      \* per peer: how far its offer goroutine is
    ice,        \* per peer: its ICE connection state and the handler for it
    pcs,        \* the slice of listed peer connections
    closed,     \* the peer connections Close() was called on
    lock,       \* the ICE callback holding pcsLock, or NoPeer
    i, n,       \* its range loop: index (from 1) and the length taken at its start
    echo        \* peers whose OnTrack loop is running

loop == <<lock, i, n>>
vars == <<status, offer, ice, pcs, closed, loop, echo>>

TypeOK ==
    /\ status \in {"up", "fatal", "panic"}
    /\ offer \in [Peers -> {"none", "decoded", "listed", "negotiated", "replied"}]
    /\ ice \in [Peers -> {"new", "connected", "failed", "removing", "removed"}]
    /\ pcs \in Seq(Peers)
    /\ closed \in SUBSET Peers
    /\ lock \in Peers \cup {NoPeer}
    /\ i \in Nat \ {0}
    /\ n \in Nat
    /\ echo \in SUBSET Peers

Init ==
    /\ status = "up"
    /\ offer = [p \in Peers |-> "none"]
    /\ ice = [p \in Peers |-> "new"]
    /\ pcs = <<>>
    /\ closed = {}
    /\ lock = NoPeer
    /\ i = 1
    /\ n = 0
    /\ echo = {}

Up == status = "up"

--------------------------------------------------------------------------------
(* offer, the HTTP handler.                                                 *)

\* One stretch of offer ends well, or in log.Fatal.
Proceed(p, from, to) ==
    /\ Up
    /\ offer[p] = from
    /\ \/ offer' = [offer EXCEPT ![p] = to] /\ UNCHANGED status
       \/ status' = "fatal" /\ UNCHANGED offer

\* Decode the body and make the peer connection.
Decode(p) ==
    /\ Proceed(p, "none", "decoded")
    /\ UNCHANGED <<ice, pcs, closed, loop, echo>>

\* Append to pcs under pcsLock; the critical section is one step.
Append_(p) ==
    /\ Up
    /\ offer[p] = "decoded"
    /\ lock = NoPeer
    /\ pcs' = Append(pcs, p)
    /\ offer' = [offer EXCEPT ![p] = "listed"]
    /\ UNCHANGED <<status, ice, closed, loop, echo>>

\* Add the tracks, set the remote offer, create and set the answer.
Negotiate(p) ==
    /\ Proceed(p, "listed", "negotiated")
    /\ UNCHANGED <<ice, pcs, closed, loop, echo>>

\* Write the answer; a client that went away is a fatal error too.
WriteResponse(p) ==
    /\ Proceed(p, "negotiated", "replied")
    /\ UNCHANGED <<ice, pcs, closed, loop, echo>>

--------------------------------------------------------------------------------
(* Callbacks of a peer connection that has its answer set.                  *)

Negotiated(p) == offer[p] \in {"negotiated", "replied"}

\* ICE connects.
Connect(p) ==
    /\ Up /\ Negotiated(p)
    /\ ice[p] = "new"
    /\ ice' = [ice EXCEPT ![p] = "connected"]
    /\ UNCHANGED <<status, offer, pcs, closed, loop, echo>>

\* OnTrack: the loop that writes back what it reads.
OnTrack(p) ==
    /\ Up
    /\ ice[p] = "connected"
    /\ p \notin echo
    /\ echo' = echo \cup {p}
    /\ UNCHANGED <<status, offer, ice, pcs, closed, loop>>

\* ReadRTP returns io.EOF once the peer connection is closed, and the loop
\* returns; any other error of ReadRTP or WriteRTP is fatal.
EchoEnds(p) ==
    /\ Up
    /\ p \in echo
    /\ \/ p \in closed /\ echo' = echo \ {p} /\ UNCHANGED status
       \/ status' = "fatal" /\ UNCHANGED echo
    /\ UNCHANGED <<offer, ice, pcs, closed, loop>>

\* ICE fails; the callback is about to lock pcsLock.
IceFails(p) ==
    /\ Up /\ Negotiated(p)
    /\ ice[p] \in {"new", "connected"}
    /\ ice' = [ice EXCEPT ![p] = "failed"]
    /\ UNCHANGED <<status, offer, pcs, closed, loop, echo>>

\* for i := range pcs: the number of rounds is fixed when the loop starts.
StartRemoval(p) ==
    /\ Up
    /\ ice[p] = "failed"
    /\ lock = NoPeer
    /\ lock' = p
    /\ i' = 1
    /\ n' = Len(pcs)
    /\ ice' = [ice EXCEPT ![p] = "removing"]
    /\ UNCHANGED <<status, offer, pcs, closed, echo>>

\* Mutant: the element after the one to remove is dropped as well.
WithoutTwo(s, k) == SubSeq(s, 1, k - 1) \o SubSeq(s, k + 2, Len(s))

\* append(pcs[:k], pcs[k+1:]...)
Without(s, k) == SubSeq(s, 1, k - 1) \o SubSeq(s, k + 1, Len(s))

\* One round: pcs is read anew, so after the removal the last index is out of
\* range and the callback's goroutine panics.
RemovalRound ==
    /\ Up
    /\ lock # NoPeer
    /\ i <= n
    /\ \/ /\ i > Len(pcs)
          /\ status' = "panic"
          /\ UNCHANGED <<pcs, closed, i>>
       \/ /\ i <= Len(pcs) /\ pcs[i] = lock
          /\ \/ /\ closed' = closed \cup {lock}
                /\ pcs' = Without(pcs, i)
                /\ i' = i + 1
                /\ UNCHANGED status
             \/ status' = "fatal" /\ UNCHANGED <<pcs, closed, i>>
       \/ /\ i <= Len(pcs) /\ pcs[i] # lock
          /\ i' = i + 1
          /\ UNCHANGED <<status, pcs, closed>>
    /\ UNCHANGED <<offer, ice, lock, n, echo>>

\* Mutant: no deferred Unlock.
RemovalDoneLocked ==
    /\ Up
    /\ lock # NoPeer
    /\ i > n
    /\ ice[lock] = "removing"
    /\ ice' = [ice EXCEPT ![lock] = "removed"]
    /\ UNCHANGED <<status, offer, pcs, closed, loop, echo>>

\* The deferred Unlock.
RemovalDone ==
    /\ Up
    /\ lock # NoPeer
    /\ i > n
    /\ ice' = [ice EXCEPT ![lock] = "removed"]
    /\ lock' = NoPeer
    /\ UNCHANGED <<status, offer, pcs, closed, i, n, echo>>

--------------------------------------------------------------------------------

Next ==
    \/ \E p \in Peers :
        \/ Decode(p) \/ Append_(p) \/ Negotiate(p) \/ WriteResponse(p)
        \/ Connect(p) \/ OnTrack(p) \/ EchoEnds(p) \/ IceFails(p) \/ StartRemoval(p)
    \/ RemovalRound \/ RemovalDone

(***************************************************************************)
(* Fairness: sync.RWMutex is starvation free, so a callback waiting for     *)
(* pcsLock gets it although the lock is taken by others again and again     *)
(* (strong fairness), and the callback that has it runs on.                 *)
(***************************************************************************)
Fairness ==
    /\ \A p \in Peers : SF_vars(StartRemoval(p))
    /\ WF_vars(RemovalRound) /\ WF_vars(RemovalDone)

Spec == Init /\ [][Next]_vars
FairSpec == Spec /\ Fairness

--------------------------------------------------------------------------------
(* Properties.                                                              *)

Listed == {pcs[k] : k \in DOMAIN pcs}

\* pcs holds exactly the peer connections that were made and not closed, each
\* once: removing while ranging over the slice neither skips nor drops a
\* neighbour, not even in the run of the loop that ends in the panic.
ListMatches ==
    /\ TypeOK
    /\ Listed = {p \in Peers : offer[p] \in {"listed", "negotiated", "replied"}} \ closed
    /\ Len(pcs) = Cardinality(Listed)

\* A connection whose ICE fails is closed, unless the process ends first.
FailedIsClosed == \A p \in Peers : (ice[p] = "failed") ~> (p \in closed \/ ~Up)

PeerState(p) ==
    IF p \in closed /\ p \notin Listed THEN "released"
    ELSE IF offer[p] \in {"none", "decoded"} THEN "absent"
    ELSE IF p \notin Listed THEN "leaked"
    ELSE IF ice[p] \in {"failed", "removing"} THEN "failed"
    ELSE "listed"

PR == INSTANCE PeerRegistry WITH
        peer <- [p \in Peers |-> PeerState(p)],
        up <- Up

\* Only a failed connection is closed and taken off the list, in one go.
ImplementsPeerRegistry == PR!Spec

\* doc/PeerConnectionTestSpecification.md: "Listen on TCP port 8080 for HTTP
\* POST requests": the failure of one peer connection does not end the server.
SurvivesFailedPeer == status # "panic"

================================================================================
