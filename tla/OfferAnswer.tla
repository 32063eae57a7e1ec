------------------------------ MODULE OfferAnswer ------------------------------
(***************************************************************************)
(* What every echo test server promises about its one HTTP operation, the  *)
(* POST of an SDP offer (doc/PeerConnectionTestSpecification.md): a request *)
(* that was accepted is replied to at most once, the reply is either an SDP *)
(* answer or something else, no reply is ever revised, and a server that is *)
(* down replies to nobody.  MaxOpen is the number of requests the server    *)
(* works on at the same time: 1 for the single-threaded event loops.        *)
(***************************************************************************)
EXTENDS Naturals, FiniteSets

CONSTANTS Requests, MaxOpen

VARIABLES
    status,     \* [Requests -> Statuses]
    up          \* TRUE until the process ends

vars == <<status, up>>

Statuses == {"idle", "open", "answered", "refused"}

TypeOK ==
    /\ status \in [Requests -> Statuses]
    /\ up \in BOOLEAN

Init ==
    /\ status = [r \in Requests |-> "idle"]
    /\ up = TRUE

Open == {r \in Requests : status[r] = "open"}

Accept(r) ==
    /\ up
    /\ status[r] = "idle"
    /\ Cardinality(Open) < MaxOpen
    /\ status' = [status EXCEPT ![r] = "open"]
    /\ UNCHANGED up

Answer(r) ==
    /\ up
    /\ status[r] = "open"
    /\ status' = [status EXCEPT ![r] = "answered"]
    /\ UNCHANGED up

\* A reply without an SDP answer; it may be sent as soon as the request is read.
Refuse(r) ==
    /\ up
    /\ status[r] \in {"idle", "open"}
    /\ status' = [status EXCEPT ![r] = "refused"]
    /\ UNCHANGED up

\* The process ends, in good order or not; what is open is never replied to.
Down ==
    /\ up
    /\ up' = FALSE
    /\ UNCHANGED status

Next ==
    \/ \E r \in Requests : Accept(r) \/ Answer(r) \/ Refuse(r)
    \/ Down

Spec == Init /\ [][Next]_vars

================================================================================
