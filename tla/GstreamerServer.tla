---------------------------- MODULE GstreamerServer ----------------------------
(***************************************************************************)
(* The gstreamer echo server.  The libevent loop handles one HTTP request   *)
(* at a time in on_http_request_cb; each webrtcbin runs the operations      *)
(* asked of it, one after the other, on a thread of its own, and calls      *)
(* on_offer_set and on_answer_created there.  create-answer is asked for    *)
(* twice: by the HTTP handler, for the reply, and by on_offer_set, for the  *)
(* local description.                                                       *)
(***************************************************************************)
EXTENDS Naturals, Sequences

CONSTANTS Requests, NoRequest

ASSUME NoRequestAssumption == NoRequest \notin Requests

VARIABLES
    status,     \* "up", "assert" for a failed g_assert, "crash" for a wild pointer
    req,        \* the request in on_http_request_cb, or NoRequest
    at,         \* where on_http_request_cb is
    reply,      \* per request: the reply sent, "stale" for an answer of leftover memory
    bin,        \* per request: its webrtcbin
    tasks,      \* per request: what its webrtcbin has been asked to do
    signaling,  \* per request: the signaling state of its webrtcbin
    promise,    \* per request: create_answer_promise of the HTTP handler
    conn        \* per request: the connection state of its webrtcbin

vars == <<status, req, at, reply, bin, tasks, signaling, promise, conn>>

Tasks == {"set-remote", "answer-http", "answer-local", "set-local"}

TypeOK ==
    /\ status \in {"up", "assert", "crash"}
    /\ req \in Requests \cup {NoRequest}
    /\ at \in {"dispatch", "create", "offer", "emit", "wait"}
    /\ reply \in [Requests -> {"none", "answer", "stale", "error"}]
    /\ bin \in [Requests -> {"none", "playing", "released"}]
    /\ tasks \in [Requests -> Seq(Tasks)]
    /\ signaling \in [Requests -> {"initial", "have-remote-offer", "stable"}]
    /\ promise \in [Requests -> {"none", "pending", "answer", "error", "expired"}]
    /\ conn \in [Requests -> {"new", "connected", "failed"}]

Init ==
    /\ status = "up"
    /\ req = NoRequest
    /\ at = "dispatch"
    /\ reply = [r \in Requests |-> "none"]
    /\ bin = [r \in Requests |-> "none"]
    /\ tasks = [r \in Requests |-> <<>>]
    /\ signaling = [r \in Requests |-> "initial"]
    /\ promise = [r \in Requests |-> "none"]
    /\ conn = [r \in Requests |-> "new"]

Up == status = "up"

--------------------------------------------------------------------------------
(* on_http_request_cb                                                       *)

Handling(r, where) == Up /\ req = r /\ at = where

\* Mutant: an answer is never sent off, so that its request is handled again.
SendNoAnswer(r, what) ==
    /\ reply' = [reply EXCEPT ![r] = IF what = "answer" THEN @ ELSE what]
    /\ req' = NoRequest
    /\ at' = "dispatch"

Send(r, what) ==
    /\ reply' = [reply EXCEPT ![r] = what]
    /\ req' = NoRequest
    /\ at' = "dispatch"

\* An OPTIONS request, no body, or no sdp in it: replied to at once.  Otherwise a
\* webrtcbin is made.
OnHttpRequest(r) ==
    /\ Handling(NoRequest, "dispatch")
    /\ reply[r] = "none"
    /\ \/ Send(r, "error")
       \/ req' = r /\ at' = "create" /\ UNCHANGED reply
    /\ UNCHANGED <<status, bin, tasks, signaling, promise, conn>>

\* create_webrtc: NULL if the pipeline does not parse or does not play.
CreateWebrtc(r) ==
    /\ Handling(r, "create")
    /\ \/ Send(r, "error") /\ UNCHANGED bin
       \/ /\ bin' = [bin EXCEPT ![r] = "playing"]
          /\ at' = "offer"
          /\ UNCHANGED <<req, reply>>
    /\ UNCHANGED <<status, tasks, signaling, promise, conn>>

\* set_offer: an sdp that does not parse fails an assertion.
SetOffer(r) ==
    /\ Handling(r, "offer")
    /\ \/ status' = "assert" /\ UNCHANGED <<at, tasks>>
       \/ /\ tasks' = [tasks EXCEPT ![r] = Append(@, "set-remote")]
          /\ at' = "emit"
          /\ UNCHANGED status
    /\ UNCHANGED <<req, reply, bin, signaling, promise, conn>>

\* Mutant: the promise is not given to create-answer.
EmitWithoutPromise(r) ==
    /\ Handling(r, "emit")
    /\ promise' = [promise EXCEPT ![r] = "pending"]
    /\ at' = "wait"
    /\ UNCHANGED <<status, req, reply, bin, tasks, signaling, conn>>

\* create-answer; a webrtcbin that is already closed gives the promise up.
EmitCreateAnswer(r) ==
    /\ Handling(r, "emit")
    /\ IF bin[r] = "playing"
       THEN /\ tasks' = [tasks EXCEPT ![r] = Append(@, "answer-http")]
            /\ promise' = [promise EXCEPT ![r] = "pending"]
       ELSE /\ promise' = [promise EXCEPT ![r] = "expired"]
            /\ UNCHANGED tasks
    /\ at' = "wait"
    /\ UNCHANGED <<status, req, reply, bin, signaling, conn>>

\* Mutant: the reply is sent without waiting for the promise.
PromiseNotAwaited(r) ==
    /\ Handling(r, "wait")
    /\ Send(r, "answer")
    /\ UNCHANGED <<status, bin, tasks, signaling, promise, conn>>

\* The promise is replied to with an answer, or given up.
PromiseOver(r) ==
    /\ Handling(r, "wait")
    /\ \/ promise[r] = "answer" /\ Send(r, "answer")
       \/ promise[r] = "expired" /\ Send(r, "error")
    /\ UNCHANGED <<status, bin, tasks, signaling, promise, conn>>

\* The reply holds an error: gst_structure_get leaves answer as it is, which is
\* uninitialized.  It may be NULL; a pointer that cannot be followed or freed; or
\* what an earlier call left in the same place of the stack, freed but still
\* readable, which is then sent as the answer.
UninitializedAnswer(r) ==
    /\ Handling(r, "wait")
    /\ promise[r] = "error"
    /\ \/ Send(r, "error") /\ UNCHANGED status
       \/ status' = "crash" /\ UNCHANGED <<req, at, reply>>
       \/ /\ \E q \in Requests : reply[q] = "answer"
          /\ Send(r, "stale")
          /\ UNCHANGED status
    /\ UNCHANGED <<bin, tasks, signaling, promise, conn>>

--------------------------------------------------------------------------------
(* The thread of a webrtcbin.                                               *)

Runs(r, task) ==
    /\ Up
    /\ bin[r] = "playing"
    /\ tasks[r] # <<>>
    /\ Head(tasks[r]) = task

\* Mutant: on_offer_set only unrefs its promise.
SetRemoteOnly(r) ==
    /\ Runs(r, "set-remote")
    /\ \E state \in {"initial", "have-remote-offer"} :
        signaling' = [signaling EXCEPT ![r] = state]
    /\ tasks' = [tasks EXCEPT ![r] = Tail(@)]
    /\ UNCHANGED <<status, req, at, reply, bin, promise, conn>>

\* The offer is set or rejected; on_offer_set asks for an answer in either case.
SetRemote(r) ==
    /\ Runs(r, "set-remote")
    /\ \E state \in {"initial", "have-remote-offer"} :
        signaling' = [signaling EXCEPT ![r] = state]
    /\ tasks' = [tasks EXCEPT ![r] = Append(Tail(@), "answer-local")]
    /\ UNCHANGED <<status, req, at, reply, bin, promise, conn>>

\* An answer can be created only while a remote offer is waiting for one.
CanAnswer(r) == signaling[r] = "have-remote-offer"

AnswerForHttp(r) ==
    /\ Runs(r, "answer-http")
    /\ promise' = [promise EXCEPT ![r] = IF CanAnswer(r) THEN "answer" ELSE "error"]
    /\ tasks' = [tasks EXCEPT ![r] = Tail(@)]
    /\ UNCHANGED <<status, req, at, reply, bin, signaling, conn>>

\* on_answer_created: set the answer; without one the pointer is uninitialized.
AnswerForLocal(r) ==
    /\ Runs(r, "answer-local")
    /\ \/ /\ CanAnswer(r)
          /\ tasks' = [tasks EXCEPT ![r] = Append(Tail(@), "set-local")]
          /\ UNCHANGED status
       \/ /\ ~CanAnswer(r)
          /\ tasks' = [tasks EXCEPT ![r] = Tail(@)]
          /\ status' \in {"up", "crash"}
    /\ UNCHANGED <<req, at, reply, bin, signaling, promise, conn>>

SetLocal(r) ==
    /\ Runs(r, "set-local")
    /\ signaling' = [signaling EXCEPT ![r] = "stable"]
    /\ tasks' = [tasks EXCEPT ![r] = Tail(@)]
    /\ UNCHANGED <<status, req, at, reply, bin, promise, conn>>

Connects(r) ==
    /\ Up
    /\ bin[r] = "playing" /\ signaling[r] = "stable" /\ conn[r] = "new"
    /\ conn' = [conn EXCEPT ![r] = "connected"]
    /\ UNCHANGED <<status, req, at, reply, bin, tasks, signaling, promise>>

\* The connection fails and on_connection_state_notify sets the webrtcbin to NULL
\* and gives up its reference; what is still queued is dropped with its promise.
ConnectionFails(r) ==
    /\ Up
    /\ bin[r] = "playing" /\ signaling[r] = "stable" /\ conn[r] # "failed"
    /\ conn' = [conn EXCEPT ![r] = "failed"]
    /\ bin' = [bin EXCEPT ![r] = "released"]
    /\ tasks' = [tasks EXCEPT ![r] = <<>>]
    /\ promise' = [promise EXCEPT ![r] = IF @ = "pending" THEN "expired" ELSE @]
    /\ UNCHANGED <<status, req, at, reply, signaling>>

--------------------------------------------------------------------------------

RunTask(r) ==
    SetRemote(r) \/ AnswerForHttp(r) \/ AnswerForLocal(r) \/ SetLocal(r)

Next ==
    \E r \in Requests :
        \/ OnHttpRequest(r) \/ CreateWebrtc(r) \/ SetOffer(r) \/ EmitCreateAnswer(r)
        \/ PromiseOver(r) \/ UninitializedAnswer(r)
        \/ SetRemote(r) \/ AnswerForHttp(r) \/ AnswerForLocal(r) \/ SetLocal(r)
        \/ Connects(r) \/ ConnectionFails(r)

(***************************************************************************)
(* Fairness: the HTTP thread runs on and each webrtcbin works off what it   *)
(* has been asked to do.                                                    *)
(***************************************************************************)
Fairness ==
    \A r \in Requests :
        /\ WF_vars(CreateWebrtc(r)) /\ WF_vars(SetOffer(r)) /\ WF_vars(EmitCreateAnswer(r))
        /\ WF_vars(PromiseOver(r)) /\ WF_vars(UninitializedAnswer(r))
        /\ WF_vars(RunTask(r))

Spec == Init /\ [][Next]_vars
FairSpec == Spec /\ Fairness

--------------------------------------------------------------------------------
(* Properties.                                                              *)

Status(r) ==
    CASE reply[r] \in {"answer", "stale"} -> "answered"
      [] reply[r] = "error" -> "refused"
      [] req = r -> "open"
      [] OTHER -> "idle"

OA == INSTANCE OfferAnswer WITH
        MaxOpen <- 1,
        status <- [r \in Requests |-> Status(r)],
        up <- Up

\* One request at a time, each replied to at most once, by a running server.
ImplementsOfferAnswer == OA!Spec

\* An answer of this request is sent only for an offer the webrtcbin has accepted;
\* and an accepted offer is replied to with an error, or with leftover memory, in
\* one case only, when on_offer_set and on_answer_created overtook the handler and
\* have set an answer of their own.
ReplyMatchesOffer ==
    /\ TypeOK
    /\ \A r \in Requests :
        /\ reply[r] = "answer" => signaling[r] # "initial"
        /\ reply[r] \in {"error", "stale"} /\ signaling[r] # "initial" => signaling[r] = "stable"

\* A request that reached create_webrtc is replied to, unless the process ends:
\* the promise the single HTTP thread waits for is always settled.  And though an
\* answer goes out before the local description is set, on another thread and by
\* another create-answer, it is set eventually all the same, if it was created for
\* this request.
RequestServed ==
    \A r \in Requests :
        /\ (req = r) ~> (req # r \/ ~Up)
        /\ (reply[r] = "answer") ~> (signaling[r] = "stable" \/ ~Up)

================================================================================
