------------------------------ MODULE TestVerdict ------------------------------
(***************************************************************************)
(* What a client peer promises about its exit status                       *)
(* (doc/PeerConnectionTestSpecification.md and                              *)
(* doc/DataChannelEchoTestSpecification.md): it is given once, and it is a  *)
(* success only if the condition of the test, a completed handshake or an   *)
(* identical echo, was met before.                                          *)
(***************************************************************************)
VARIABLES
    met,        \* the test's condition has been met
    verdict     \* "running", then "success" or "failure"

vars == <<met, verdict>>

TypeOK == met \in BOOLEAN /\ verdict \in {"running", "success", "failure"}

Init == met = FALSE /\ verdict = "running"

Meet ==
    /\ verdict = "running"
    /\ met' = TRUE
    /\ UNCHANGED verdict

Succeed ==
    /\ verdict = "running"
    /\ met
    /\ verdict' = "success"
    /\ UNCHANGED met

Fail ==
    /\ verdict = "running"
    /\ verdict' = "failure"
    /\ UNCHANGED met

Next == Meet \/ Succeed \/ Fail

Spec == Init /\ [][Next]_vars

================================================================================
