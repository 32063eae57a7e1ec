-------------------------- MODULE LibdatachannelClient --------------------------
(***************************************************************************)
(* The libdatachannel test client: main waits for one promise that four     *)
(* callbacks, on threads of the library, settle; the second to do so gets a *)
(* future_error, which the library catches.  The callbacks hold the locals  *)
(* of main by reference, and main destroys its locals in reverse order.     *)
(***************************************************************************)
EXTENDS Naturals, Sequences

VARIABLES
    test,           \* 0: peer connection, 1: data channel echo
    main,           \* where main is
    locals,         \* the locals of main that are alive, in declaration order
    promise,
    gather,         \* gathering, and the POST its callback makes
    conn,           \* the state of the peer connection
    opened,         \* the track of test 0 is open
    dc,             \* the data channel of test 1 and what came back
    usedDead,       \* locals a callback used after their destruction
    result,         \* what main has decided
    exit

vars == <<test, main, locals, promise, gather, conn, opened, dc, usedDead, result, exit>>

Messages == {"same", "other", "binary"}

TypeOK ==
    /\ test \in {0, 1}
    /\ main \in {"setup", "offer", "wait", "unwind", "exited"}
    /\ locals \in {SubSeq(<<"promise", "cl", "pc", "dc">>, 1, n) : n \in {0, 1, 2, 3, 4}}
    /\ promise \in {"pending", "value", "exception"}
    /\ gather \in {"new", "running", "posting", "done"}
    /\ conn \in {"new", "connecting", "connected", "disconnected", "failed", "closed"}
    /\ opened \in BOOLEAN
    /\ dc \in {"closed", "failed", "sent", "same", "different"}
    /\ usedDead \subseteq {"promise", "cl", "dc"}
    /\ result \in {"none", "success", "failure"}
    /\ exit \in {"running", "success", "failure", "crash"}

Init ==
    /\ test \in {0, 1}
    /\ main = "setup"
    /\ locals = <<>>
    /\ promise = "pending"
    /\ gather = "new"
    /\ conn = "new"
    /\ opened = FALSE
    /\ dc = "closed"
    /\ usedDead = {}
    /\ result = "none"
    /\ exit = "running"

Alive(x) == \E i \in DOMAIN locals : locals[i] = x

\* The library runs callbacks until the peer connection is destroyed.
Running == exit = "running" /\ Alive("pc")

\* A callback uses a local of main.
Use(x) == usedDead' = IF Alive(x) THEN usedDead ELSE usedDead \cup {x}

\* set_value or set_exception of a callback; only the first one counts.
Settle(v) ==
    /\ promise' = IF promise = "pending" THEN v ELSE promise
    /\ Use("promise")

--------------------------------------------------------------------------------
(* main                                                                     *)

Fail == main' = "unwind" /\ result' = "failure"

\* The arguments are read; a bad one throws before there is any local to destroy.
ParseArguments ==
    /\ main = "setup"
    /\ \/ main' = "offer" /\ locals' = <<"promise", "cl", "pc", "dc">> /\ UNCHANGED result
       \/ Fail /\ UNCHANGED locals
    /\ UNCHANGED <<test, promise, gather, conn, opened, dc, usedDead, exit>>

\* setLocalDescription begins to gather; it, or what comes before it, may throw.
SetLocalDescription ==
    /\ main = "offer"
    /\ \/ main' = "wait" /\ gather' = "running" /\ UNCHANGED result
       \/ Fail /\ gather' \in {"new", "running"}
    /\ UNCHANGED <<test, locals, promise, conn, opened, dc, usedDead, exit>>

\* wait_for finds the promise settled, and future.get returns or throws.
FutureGet ==
    /\ main = "wait"
    /\ promise # "pending"
    /\ main' = "unwind"
    /\ result' = IF promise = "value" THEN "success" ELSE "failure"
    /\ UNCHANGED <<test, locals, promise, gather, conn, opened, dc, usedDead, exit>>

\* Ten seconds are over.
Timeout ==
    /\ main = "wait"
    /\ promise = "pending"
    /\ Fail
    /\ UNCHANGED <<test, locals, promise, gather, conn, opened, dc, usedDead, exit>>

\* The locals go, the last one first.  The destructor of the peer connection
\* waits for a callback that is running.
Destroy ==
    /\ main = "unwind"
    /\ locals # <<>>
    /\ locals[Len(locals)] = "pc" => gather # "posting"
    /\ locals' = SubSeq(locals, 1, Len(locals) - 1)
    /\ UNCHANGED <<test, main, promise, gather, conn, opened, dc, usedDead, result, exit>>

Return ==
    /\ main = "unwind"
    /\ locals = <<>>
    /\ main' = "exited"
    /\ exit' = result
    /\ UNCHANGED <<test, locals, promise, gather, conn, opened, dc, usedDead, result>>

--------------------------------------------------------------------------------
(* Callbacks                                                                *)

\* Gathering is complete: POST the local description, if there is one.
GatheringComplete ==
    /\ Running
    /\ gather = "running"
    /\ \/ gather' = "posting" /\ Use("cl") /\ UNCHANGED promise
       \/ gather' = "done" /\ Settle("exception")
    /\ UNCHANGED <<test, main, locals, conn, opened, dc, result, exit>>

\* Mutant: the status and the body of the reply are not looked at.
PostReturnsUnchecked(reply) ==
    /\ Running
    /\ gather = "posting"
    /\ gather' = "done"
    /\ conn' = "connecting"
    /\ UNCHANGED <<test, main, locals, promise, opened, dc, usedDead, result, exit>>

\* The POST ends: no reply, a status other than 200, a body without a description
\* or a description that is not taken throw into the promise.
PostReturns(reply) ==
    /\ Running
    /\ gather = "posting"
    /\ gather' = "done"
    /\ \/ reply = "answer" /\ conn' = "connecting" /\ UNCHANGED <<promise, usedDead>>
       \/ Settle("exception") /\ UNCHANGED conn
    /\ UNCHANGED <<test, main, locals, opened, dc, result, exit>>

\* The state of the peer connection changes.
Connects ==
    /\ Running
    /\ conn = "connecting"
    /\ conn' \in {"connected", "failed"}
    /\ UNCHANGED <<test, main, locals, promise, gather, opened, dc, usedDead, result, exit>>

Disconnects ==
    /\ Running
    /\ conn = "connected"
    /\ conn' = "disconnected"
    /\ UNCHANGED <<test, main, locals, promise, gather, opened, dc, usedDead, result, exit>>

\* onStateChange: disconnected closes and settles; failed is left to the timeout.
OnDisconnected ==
    /\ Running
    /\ conn = "disconnected"
    /\ conn' = "closed"
    /\ Settle("exception")
    /\ UNCHANGED <<test, main, locals, gather, opened, dc, result, exit>>

OnTrackOpen ==
    /\ Running
    /\ test = 0
    /\ conn = "connected"
    /\ ~opened
    /\ opened' = TRUE
    /\ Settle("value")
    /\ UNCHANGED <<test, main, locals, gather, conn, dc, result, exit>>

\* onOpen of the channel sends through dc, which main may have destroyed: then
\* the channel may be gone, or still there for one more send, or the read crashes.
OnOpen ==
    /\ Running
    /\ test = 1
    /\ conn = "connected"
    /\ dc = "closed"
    /\ dc' \in {"sent", "failed"}
    /\ Use("dc")
    /\ \/ UNCHANGED <<main, exit>>
       \/ ~Alive("dc") /\ main' = "exited" /\ exit' = "crash"
    /\ UNCHANGED <<test, locals, promise, gather, conn, opened, result>>

\* Mutant: any string will do.
OnMessageAnyString(m) ==
    /\ Running
    /\ dc \in {"sent", "different"}
    /\ conn = "connected"
    /\ dc' = IF m = "same" THEN "same" ELSE "different"
    /\ Settle(IF m = "binary" THEN "exception" ELSE "value")
    /\ UNCHANGED <<test, main, locals, gather, conn, opened, result, exit>>

\* onMessage: the string that was sent is the success of the test.
OnMessage(m) ==
    /\ Running
    /\ dc \in {"sent", "different"}
    /\ conn = "connected"
    /\ dc' = IF m = "same" THEN "same" ELSE "different"
    /\ Settle(IF m = "same" THEN "value" ELSE "exception")
    /\ UNCHANGED <<test, main, locals, gather, conn, opened, result, exit>>

--------------------------------------------------------------------------------

MainStep ==
    \/ ParseArguments \/ SetLocalDescription \/ FutureGet \/ Timeout \/ Destroy \/ Return

--------------------------------------------------------------------------------
(* Properties.                                                              *)

TV == INSTANCE TestVerdict WITH
        met <- IF test = 0 THEN opened ELSE dc = "same",
        verdict <- IF exit = "crash" THEN "failure" ELSE exit

\* The exit status is 0 only after the track opened or the string came back
\* unchanged, whichever callback settles the promise first.
ImplementsTestVerdict == TV!Spec

\* No callback ever finds the promise or the HTTP client destroyed; the channel
\* it may, but only when the test has failed already.
LocalsOutliveCallbacks ==
    /\ usedDead \subseteq {"dc"}
    /\ usedDead # {} => result = "failure"

================================================================================
