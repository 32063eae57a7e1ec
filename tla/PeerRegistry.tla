------------------------------ MODULE PeerRegistry ------------------------------
(***************************************************************************)
(* What the servers that keep a list of their peer connections promise      *)
(* about it: a connection is listed when it is made, a listed connection    *)
(* may fail, and only a failed one is released, that is closed and taken    *)
(* off the list.  No connection leaves the list unclosed and none is        *)
(* released for the failure of another.                                     *)
(***************************************************************************)
CONSTANT Peers

VARIABLES
    peer,       \* [Peers -> PeerStates]
    up          \* the process is running

vars == <<peer, up>>

PeerStates == {"absent", "listed", "failed", "released"}

TypeOK == peer \in [Peers -> PeerStates] /\ up \in BOOLEAN

Init ==
    /\ peer = [p \in Peers |-> "absent"]
    /\ up = TRUE

Move(p, from, to) ==
    /\ up
    /\ peer[p] = from
    /\ peer' = [peer EXCEPT ![p] = to]
    /\ UNCHANGED up

List(p) == Move(p, "absent", "listed")

Fail(p) == Move(p, "listed", "failed")

Release(p) == Move(p, "failed", "released")

Down == up /\ up' = FALSE /\ UNCHANGED peer

Next ==
    \/ \E p \in Peers : List(p) \/ Fail(p) \/ Release(p)
    \/ Down

Spec == Init /\ [][Next]_vars

================================================================================
