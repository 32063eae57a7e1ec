----------------------------- MODULE GatewayProofs -----------------------------
(***************************************************************************)
(* Proofs about the two gateways: Janus, for any number of events, and      *)
(* Kurento, for any set of requests.                                        *)
(***************************************************************************)
EXTENDS JanusGateway, KurentoGateway, TLAPS

--------------------------------------------------------------------------------
(* The Janus gateway.                                                       *)

\* How often DestroySession may have been sent: once by OfferAsync, when it is
\* in or past its clean-up, and once by the long poll, when it has ended.
DestroyedByHandler == IF handler \in {"cleaning", "setCanceled", "expiring", "done"} THEN 1 ELSE 0
DestroyedByPoll == IF poll = "ended" THEN 1 ELSE 0

\* There is no long poll before StartSession; and Janus has no offer, and so no
\* event, before OfferAsync has subscribed.
OfferAfterSubscribe ==
    /\ handler \in {"read", "refused", "create"} => poll = "none"
    /\ handler \in {"read", "refused", "create", "subscribe", "attach"} => ~offered
    /\ ~offered => events = <<>>

\* The long poll ends only by the token or by a failure, and OfferAsync replies
\* when it ends.
EndsForAReason ==
    /\ poll \in {"destroying", "ended"} => token \/ pollFailed
    /\ reply # "none" <=> handler \in {"refused", "done"}

Inv ==
    /\ TypeOK
    /\ ~lost
    /\ destroys <= DestroyedByHandler + DestroyedByPoll
    /\ OfferAfterSubscribe
    /\ EndsForAReason

\* One step keeps Inv.
LEMMA InvStep == Inv /\ [Next]_vars => Inv'
<1> SUFFICES ASSUME Inv, [Next]_vars PROVE Inv'
  OBVIOUS
<1> USE DEF Inv, TypeOK, HandlerStates, EventKinds, DestroyedByHandler, DestroyedByPoll
<1> USE DEF OfferAfterSubscribe, EndsForAReason, janus, history
<1>1. CASE StartSession
  <2>1. ~lost' /\ ~offered' /\ events' = <<>> /\ token' = token /\ pollFailed' = pollFailed
    BY <1>1 DEF StartSession
  <2>2. UNCHANGED <<tcs, raised, destroys>> /\ handler = "create"
    BY <1>1 DEF StartSession
  <2>3. /\ session' \in {"none", "alive"}
        /\ \/ poll' = "running" /\ handler' = "subscribe" /\ reply' = reply
           \/ poll' = poll /\ handler' = "done" /\ reply' = "error"
    BY <1>1 DEF StartSession, Reply
  <2>4. lost' \in BOOLEAN /\ offered' \in BOOLEAN /\ token' \in BOOLEAN /\ pollFailed' \in BOOLEAN
    BY <1>1, Zenon DEF StartSession
  <2>5. TypeOK'
    BY <2>1, <2>2, <2>3, <2>4
  <2>6. EndsForAReason'
    BY <2>1, <2>2, <2>3
  <2>7. destroys' <= DestroyedByHandler' + DestroyedByPoll'
    BY <2>2, <2>3
  <2>8. OfferAfterSubscribe'
    BY <2>1, <2>3
  <2> QED
    BY <2>1, <2>5, <2>6, <2>7, <2>8
<1>0. CASE GetRequestData
  BY <1>0 DEF GetRequestData
<1>2. CASE Subscribe
  BY <1>2 DEF Subscribe
<1>3. CASE AttachPlugin
  BY <1>3 DEF AttachPlugin, Reply
<1>4. CASE StartEcho
  BY <1>4 DEF StartEcho, Reply
<1>5. CASE PostAborted
  BY <1>5 DEF PostAborted, Reply
<1>6. CASE CleanUpFailedEcho
  BY <1>6 DEF CleanUpFailedEcho, DestroySession
<1>19. CASE DestroyReturns
  BY <1>19 DEF DestroyReturns, AwaitsDestroy, Reply
<1>7. CASE SetCanceled
  BY <1>7 DEF SetCanceled, Reply
<1>8. CASE Register
  BY <1>8 DEF Register, TrySetCanceled
<1>9. CASE AwaitAnswer
  BY <1>9 DEF AwaitAnswer, Reply
<1>10. CASE TimedOut
  BY <1>10 DEF TimedOut, DestroySession
<1>11. CASE TimerFires
  BY <1>11 DEF TimerFires, TrySetCanceled
<1>12. CASE DeliverOffer
  BY <1>12 DEF DeliverOffer
<1>13. CASE RaiseEvent
  <2>1. UNCHANGED <<handler, poll, token, tcs, reply, session, offered, destroys, lost, pollFailed>>
    BY <1>13 DEF RaiseEvent
  <2>2. offered /\ raised' \in 0 .. MaxEvents /\ events' \in Seq(EventKinds)
    BY <1>13, MaxEventsAssumption DEF RaiseEvent
  <2>3. TypeOK'
    BY <2>1, <2>2
  <2> QED
    BY <2>1, <2>2, <2>3
<1>14. CASE GetEvent
  <2>1. UNCHANGED <<handler, token, reply, session, offered, raised, destroys>>
    BY <1>14 DEF GetEvent
  <2>2. offered /\ events' \in Seq(EventKinds)
    BY <1>14 DEF GetEvent
  <2>3. Subscribed /\ OnJanusEvent(Head(events))
    BY <1>14, <2>2 DEF GetEvent, Subscribed
  <2>4. ~lost' /\ lost' \in BOOLEAN
    BY <2>3 DEF OnJanusEvent
  <2>5. /\ poll = "running"
        /\ tcs' \in {"pending", "answer", "null", "canceled"}
        /\ \/ poll' = poll /\ pollFailed' = pollFailed
           \/ poll' = "destroying" /\ pollFailed' = TRUE
    BY <1>14, <2>3 DEF GetEvent, OnJanusEvent
  <2>6. token' \in BOOLEAN /\ offered' \in BOOLEAN /\ pollFailed' \in BOOLEAN
    BY <2>1, <2>5, Zenon
  <2>7. TypeOK'
    BY <2>1, <2>2, <2>4, <2>5, <2>6
  <2>8. OfferAfterSubscribe'
    BY <2>1, <2>2
  <2>9. EndsForAReason'
    BY <2>1, <2>5
  <2> QED
    BY <2>1, <2>4, <2>5, <2>7, <2>8, <2>9
<1>15. CASE GetEventFails
  BY <1>15 DEF GetEventFails
<1>16. CASE PollCancelled
  BY <1>16 DEF PollCancelled
<1>17. CASE PollDestroys
  BY <1>17 DEF PollDestroys, DestroySession
<1>18. CASE UNCHANGED vars
  BY <1>18 DEF vars
<1> QED
  BY <1>0, <1>1, <1>2, <1>3, <1>4, <1>5, <1>6, <1>7, <1>8, <1>9, <1>10, <1>11, <1>12, <1>13,
     <1>14, <1>15, <1>16, <1>17, <1>18, <1>19 DEF Next, Handler, LongPoll

\* It holds at the start.
LEMMA InvInit == Init => Inv
<1> SUFFICES ASSUME Init PROVE Inv
  OBVIOUS
<1>1. token \in BOOLEAN /\ offered \in BOOLEAN /\ lost \in BOOLEAN /\ pollFailed \in BOOLEAN
  BY Zenon DEF Init
<1>2. ~lost /\ OfferAfterSubscribe /\ EndsForAReason
  BY DEF Init, OfferAfterSubscribe, EndsForAReason
<1>3. TypeOK
  BY <1>1, MaxEventsAssumption DEF Init, TypeOK, HandlerStates, EventKinds
<1> QED
  BY <1>2, <1>3 DEF Init, Inv, DestroyedByHandler, DestroyedByPoll

\* Although the long poll starts before OnJanusEvent has a handler, no answer is
\* fetched without one; and DestroySession is sent at most twice.
THEOREM AnswersNotLost == Spec => []NoAnswerLost
<1>1. Inv => NoAnswerLost
  BY DEF Inv, NoAnswerLost
<1> QED
  BY <1>1, InvInit, InvStep, PTL DEF Spec

\* Once the client has its answer, the gateway ends the session only after 30 s
\* or after its long poll failed.
THEOREM AnswerKeepsSession == Spec => SessionOutlivesAnswer
<1>1. Inv /\ [Next]_vars =>
        [reply = "answer" /\ session = "alive" /\ session' = "destroyed" => token \/ pollFailed]_vars
  <2> SUFFICES ASSUME Inv, [Next]_vars, reply = "answer", session = "alive", session' = "destroyed"
               PROVE  token \/ pollFailed
    OBVIOUS
  <2>1. handler \in {"refused", "done"}
    BY DEF Inv, EndsForAReason
  <2>2. ~Handler
    BY <2>1 DEF Handler, GetRequestData, StartSession, Subscribe, AttachPlugin, StartEcho,
       PostAborted, CleanUpFailedEcho, DestroyReturns, AwaitsDestroy, SetCanceled, Register,
       AwaitAnswer, TimedOut
  <2>3. CASE PollDestroys
    BY <2>3 DEF PollDestroys, Inv, EndsForAReason
  <2>4. ~GetEvent /\ ~GetEventFails /\ ~PollCancelled /\ ~TimerFires /\ ~DeliverOffer /\ ~RaiseEvent
    BY DEF GetEvent, GetEventFails, PollCancelled, TimerFires, DeliverOffer, RaiseEvent, janus
  <2>5. ~UNCHANGED vars
    BY DEF vars, janus
  <2> QED
    BY <2>2, <2>3, <2>4, <2>5 DEF Next, LongPoll
<1> QED
  BY <1>1, InvInit, InvStep, PTL DEF Spec, SessionOutlivesAnswer

--------------------------------------------------------------------------------
(* The Kurento gateway.                                                     *)

\* What an answer promises.
Looped == {"pipeline", "endpoint", "connect", "processOffer"}

\* The calls before the one at hand are executed, and Kurento executes calls only
\* while OfferAsync waits for them; so the answer, which is written after the
\* seventh call, goes to a client whose end point is looped.
CallsInOrder(r) ==
    /\ rpc[r] # "none" => task[r] = "calls"
    /\ task[r] \in {"calls", "write"} => \A j \in 1 .. 8 : j < pos[r] => Rpcs[j] \in media[r]
    /\ rpc[r] = "executed" => Rpcs[pos[r]] \in media[r]
    /\ task[r] = "write" => pos[r] = 7 /\ Rpcs[7] \in media[r]
    /\ replies[r] = "answer" => Looped \subseteq media[r] \/ (task[r] = "ended" /\ media[r] = {})

Calls == {Rpcs[k] : k \in 1 .. 8}

KurentoInv ==
    /\ task \in [Requests -> {"idle", "offer", "socket", "calls", "write", "ended"}]
    /\ pos \in [Requests -> 1 .. 8]
    /\ rpc \in [Requests -> {"none", "sent", "executed", "error"}]
    /\ replies \in [Requests -> {"none", "answer", "empty", "500"}]
    /\ media \in [Requests -> SUBSET Calls]
    /\ \A r \in Requests : CallsInOrder(r)

\* The place of a call in the list.
LEMMA RpcAt ==
    /\ DOMAIN Rpcs = 1 .. 8
    /\ Rpcs[2] = "pipeline" /\ Rpcs[3] = "endpoint" /\ Rpcs[4] = "connect"
    /\ \A k \in 1 .. 8 : Rpcs[k] = "processOffer" <=> k = 7
    /\ \A k \in 1 .. 8 : Rpcs[k] = "gatherCandidates" <=> k = 8
  BY DEF Rpcs

\* It holds at the start.
LEMMA KurentoInvInit == KurentoInit => KurentoInv
  BY DEF KurentoInit, KurentoInv, CallsInOrder

\* One step keeps it.
LEMMA KurentoInvStep == KurentoInv /\ [KurentoNext]_kurentoVars => KurentoInv'
<1> SUFFICES ASSUME KurentoInv, [KurentoNext]_kurentoVars PROVE KurentoInv'
  OBVIOUS
<1> USE DEF KurentoInv, CallsInOrder, At, To, Call, End, Op
<1>1. ASSUME NEW r \in Requests, Accept(r) \/ ReadOffer(r) PROVE KurentoInv'
  BY <1>1 DEF Accept, ReadOffer
<1>2. ASSUME NEW r \in Requests, BodyThrows(r) \/ ConnectThrows(r) PROVE KurentoInv'
  BY <1>2 DEF BodyThrows, ConnectThrows
<1>3. ASSUME NEW r \in Requests, ConnectAsync(r) PROVE KurentoInv'
  BY <1>3 DEF ConnectAsync
<1>4. ASSUME NEW r \in Requests, Result(r) PROVE KurentoInv'
  <2>1. CASE Rpcs[pos[r]] \notin {"processOffer", "gatherCandidates"}
    BY <1>4, <2>1, RpcAt DEF Result
  <2>2. CASE Rpcs[pos[r]] = "processOffer"
    BY <1>4, <2>2, RpcAt DEF Result
  <2>3. CASE Rpcs[pos[r]] = "gatherCandidates"
    BY <1>4, <2>3, RpcAt DEF Result
  <2> QED
    BY <2>1, <2>2, <2>3
<1>5. ASSUME NEW r \in Requests, WriteAnswer(r) PROVE KurentoInv'
  BY <1>5, RpcAt DEF WriteAnswer, Looped
<1>6. ASSUME NEW r \in Requests, WriteThrows(r) PROVE KurentoInv'
  BY <1>6 DEF WriteThrows
<1>7. ASSUME NEW r \in Requests, Refused(r) \/ ConnectionLost(r) PROVE KurentoInv'
  BY <1>7 DEF Refused, ConnectionLost
<1>8. ASSUME NEW r \in Requests, Execute(r) PROVE KurentoInv'
  BY <1>8 DEF Execute, Calls
<1>9. ASSUME NEW r \in Requests, Expire(r) PROVE KurentoInv'
  BY <1>9 DEF Expire
<1>10. CASE UNCHANGED kurentoVars
  BY <1>10 DEF kurentoVars
<1> QED
  BY <1>1, <1>2, <1>3, <1>4, <1>5, <1>6, <1>7, <1>8, <1>9, <1>10 DEF KurentoNext

\* Whichever calls fail, a client that was given an answer has an end point that
\* took its offer and sends its media back, until Kurento releases the session.
THEOREM AnswersLooped == KurentoSpec => []AnswerIsLooped
<1>1. KurentoInv => AnswerIsLooped
  BY RpcAt DEF KurentoInv, CallsInOrder, Calls, Looped, AnswerIsLooped, KurentoTypeOK
<1> QED
  BY <1>1, KurentoInvInit, KurentoInvStep, PTL DEF KurentoSpec

================================================================================
