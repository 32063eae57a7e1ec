----------------------------- MODULE KurentoGateway -----------------------------
(***************************************************************************)
(* The Kurento gateway: OfferAsync makes a web socket to the Kurento server *)
(* for each request and calls it, one RPC after the other; the answer goes  *)
(* to the client before the last one.  Kurento executes a call or refuses   *)
(* it, and its reply, the connection or the whole server may be lost.       *)
(***************************************************************************)
EXTENDS Naturals, Sequences

CONSTANT Requests

VARIABLES
    task,       \* per request: where OfferAsync is
    pos,        \* per request: which of Rpcs is being called
    rpc,        \* per request: what has become of that call
    replies,    \* per request: the reply to the client
    media       \* per request: what Kurento has done in its session

kurentoVars == <<task, pos, rpc, replies, media>>

\* Mutant: the end point is not connected to itself.
RpcsWithoutLoop == <<"ping", "pipeline", "endpoint", "subscribe", "subscribe",
                     "processOffer", "gatherCandidates">>

\* The calls, in their order.
Rpcs == <<"ping", "pipeline", "endpoint", "connect", "subscribe", "subscribe",
          "processOffer", "gatherCandidates">>

Op(r) == Rpcs[pos[r]]

\* What must be there for Kurento to execute a call.
Needs(op) ==
    IF op \in {"ping", "pipeline"} THEN {}
    ELSE IF op = "endpoint" THEN {"pipeline"}
    ELSE IF op = "gatherCandidates" THEN {"endpoint", "processOffer"}
    ELSE {"endpoint"}

KurentoTypeOK ==
    /\ task \in [Requests -> {"idle", "offer", "socket", "calls", "write", "ended"}]
    /\ pos \in [Requests -> DOMAIN Rpcs]
    /\ rpc \in [Requests -> {"none", "sent", "executed", "error"}]
    /\ replies \in [Requests -> {"none", "answer", "empty", "500"}]
    /\ \A r \in Requests : media[r] \subseteq {Rpcs[k] : k \in DOMAIN Rpcs}

KurentoInit ==
    /\ task = [r \in Requests |-> "idle"]
    /\ pos = [r \in Requests |-> 1]
    /\ rpc = [r \in Requests |-> "none"]
    /\ replies = [r \in Requests |-> "none"]
    /\ media = [r \in Requests |-> {}]

--------------------------------------------------------------------------------
(* OfferAsync                                                               *)

At(r, where) == task[r] = where

To(r, where) == task' = [task EXCEPT ![r] = where]

Call(r, k) == pos' = [pos EXCEPT ![r] = k] /\ rpc' = [rpc EXCEPT ![r] = "sent"]

\* OfferAsync ends; an exception becomes the reply unless there is one.
End(r, status) ==
    /\ To(r, "ended")
    /\ replies' = [replies EXCEPT ![r] = IF @ = "none" THEN status ELSE @]
    /\ rpc' = [rpc EXCEPT ![r] = "none"]
    /\ UNCHANGED <<pos, media>>

Accept(r) ==
    /\ At(r, "idle")
    /\ To(r, "offer")
    /\ UNCHANGED <<pos, rpc, replies, media>>

\* The body is not a description: outside of the try block.
BodyThrows(r) == At(r, "offer") /\ End(r, "500")

ReadOffer(r) ==
    /\ At(r, "offer")
    /\ To(r, "socket")
    /\ UNCHANGED <<pos, rpc, replies, media>>

\* The web socket is connected, whenever Kurento has answered the handshake: the
\* token given to ConnectAsync is never cancelled.
ConnectAsync(r) ==
    /\ At(r, "socket")
    /\ To(r, "calls")
    /\ Call(r, 1)
    /\ UNCHANGED <<replies, media>>

\* Kurento cannot be connected to, also outside of the try block.
ConnectThrows(r) == At(r, "socket") /\ End(r, "500")

\* The result of a call comes: the next one, or the reply after processOffer, or
\* the end, which disposes of the socket.
Result(r) ==
    /\ At(r, "calls")
    /\ rpc[r] = "executed"
    /\ \/ /\ Op(r) \notin {"processOffer", "gatherCandidates"}
          /\ Call(r, pos[r] + 1)
          /\ UNCHANGED <<task, replies, media>>
       \/ /\ Op(r) = "processOffer"
          /\ To(r, "write")
          /\ rpc' = [rpc EXCEPT ![r] = "none"]
          /\ UNCHANGED <<pos, replies, media>>
       \/ /\ Op(r) = "gatherCandidates"
          /\ End(r, "empty")

\* The answer is written, and then Kurento is told to start ICE.
WriteAnswer(r) ==
    /\ At(r, "write")
    /\ To(r, "calls")
    /\ replies' = [replies EXCEPT ![r] = "answer"]
    /\ Call(r, pos[r] + 1)
    /\ UNCHANGED media

\* The client is gone.
WriteThrows(r) == At(r, "write") /\ End(r, "500")

\* Mutant: a call that is refused is made again.
RefusedRetries(r) ==
    /\ At(r, "calls")
    /\ rpc[r] = "error"
    /\ Call(r, pos[r])
    /\ UNCHANGED <<task, replies, media>>

\* RemoteInvocationException is logged, and the reply stays as it is: empty, or
\* the answer if it was the last call.
Refused(r) == At(r, "calls") /\ rpc[r] = "error" /\ End(r, "empty")

\* The connection is lost during a call, which is not caught.
ConnectionLost(r) == At(r, "calls") /\ rpc[r] # "none" /\ End(r, "500")

--------------------------------------------------------------------------------
(* Kurento                                                                  *)

Execute(r) ==
    /\ rpc[r] = "sent"
    /\ \/ /\ Needs(Op(r)) \subseteq media[r]
          /\ media' = [media EXCEPT ![r] = @ \cup {Op(r)}]
          /\ rpc' = [rpc EXCEPT ![r] = "executed"]
       \/ /\ rpc' = [rpc EXCEPT ![r] = "error"]
          /\ UNCHANGED media
    /\ UNCHANGED <<task, pos, replies>>

\* A session that nobody keeps alive is released; the gateway never asks for it.
Expire(r) ==
    /\ At(r, "ended")
    /\ media[r] # {}
    /\ media' = [media EXCEPT ![r] = {}]
    /\ UNCHANGED <<task, pos, rpc, replies>>

--------------------------------------------------------------------------------

KurentoNext ==
    \E r \in Requests :
        \/ Accept(r) \/ BodyThrows(r) \/ ReadOffer(r) \/ ConnectAsync(r)
        \/ ConnectThrows(r) \/ Result(r) \/ WriteAnswer(r) \/ WriteThrows(r)
        \/ Refused(r) \/ ConnectionLost(r) \/ Execute(r) \/ Expire(r)

(***************************************************************************)
(* Fairness: what Kurento answers to a call reaches the gateway, and the    *)
(* write of the answer ends.  The client owes no body, and of Kurento       *)
(* nothing is assumed, not even that it answers the handshake.              *)
(***************************************************************************)
KurentoFairness ==
    \A r \in Requests :
        /\ WF_kurentoVars(Result(r)) /\ WF_kurentoVars(Refused(r))
        /\ WF_kurentoVars(WriteAnswer(r) \/ WriteThrows(r))

KurentoSpec == KurentoInit /\ [][KurentoNext]_kurentoVars

--------------------------------------------------------------------------------
(* Properties.                                                              *)

\* Whoever has been given an answer has an end point at Kurento that took the
\* offer and sends its media back to itself, until Kurento releases the session;
\* whichever calls fail, and although ICE is started only after the answer.
AnswerIsLooped ==
    /\ KurentoTypeOK
    /\ \A r \in Requests :
        replies[r] = "answer" /\ media[r] # {} =>
            {"pipeline", "endpoint", "connect", "processOffer"} \subseteq media[r]

\* A request that was read ends, unless Kurento leaves its handshake or one of
\* its calls unanswered for ever: no timeout of the gateway, whose token is never
\* cancelled, ends that.  Between the calls the gateway itself waits for nothing.
HeldOnlyByKurento ==
    \A r \in Requests :
        At(r, "socket") ~>
            (At(r, "ended") \/ []At(r, "socket") \/ [](rpc[r] = "sent"))

================================================================================
