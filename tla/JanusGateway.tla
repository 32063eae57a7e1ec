------------------------------ MODULE JanusGateway ------------------------------
(***************************************************************************)
(* The gateway in front of a Janus server: one HTTP POST of an SDP offer,   *)
(* handled by Program.OfferAsync, the long poll task its JanusRestClient    *)
(* starts, the 30 s CancelAfter timer, and Janus.  Requests share no state, *)
(* so one request shows every interleaving.                                 *)
(*                                                                          *)
(* Janus is external: it performs a POST and answers it, refuses it, or the *)
(* answer is lost; it hands out its events one per long poll GET.           *)
(***************************************************************************)
EXTENDS Naturals, Sequences

CONSTANT MaxEvents      \* bound on the events Janus raises for the session

ASSUME MaxEventsAssumption == MaxEvents \in Nat

VARIABLES
    handler,    \* where OfferAsync is
    poll,       \* where StartLongPoll is
    token,      \* cts was cancelled, by the timer or by the handler
    tcs,        \* waitForAnswer
    reply,      \* the HTTP response
    session,    \* the session at Janus
    offered,    \* Janus has the offer
    events,     \* events of the session not yet fetched
    raised,     \* number of events raised
    destroys,   \* DestroySession POSTs sent
    lost,       \* history: an answer was fetched with nobody subscribed
    pollFailed  \* history: the long poll ended by an exception

janus == <<session, offered, events, raised>>
history == <<lost, pollFailed>>
vars == <<handler, poll, token, tcs, reply, janus, destroys, history>>

HandlerStates == {"read", "refused", "create", "subscribe", "attach", "offer",
                  "failing", "cleaning", "setCanceled", "register", "await",
                  "timedOut", "expiring", "done"}

EventKinds == {"jsep", "jsepNoSdp", "other"}

TypeOK ==
    /\ handler \in HandlerStates
    /\ poll \in {"none", "running", "destroying", "ended"}
    /\ token \in BOOLEAN
    /\ tcs \in {"pending", "answer", "null", "canceled"}
    /\ reply \in {"none", "answer", "empty", "error"}
    /\ session \in {"none", "alive", "destroyed"}
    /\ offered \in BOOLEAN
    /\ events \in Seq(EventKinds)
    /\ raised \in 0 .. MaxEvents
    /\ destroys \in 0 .. 2
    /\ lost \in BOOLEAN
    /\ pollFailed \in BOOLEAN

Init ==
    /\ handler = "read"
    /\ poll = "none"
    /\ token = FALSE
    /\ tcs = "pending"
    /\ reply = "none"
    /\ session = "none"
    /\ offered = FALSE
    /\ events = <<>>
    /\ raised = 0
    /\ destroys = 0
    /\ lost = FALSE
    /\ pollFailed = FALSE

\* OfferAsync ends; an exception that leaves it is a 500.
Reply(status) == handler' = "done" /\ reply' = status

--------------------------------------------------------------------------------
(* OfferAsync and the POSTs it awaits.                                      *)

\* The body is read and its sdp logged: an unreadable body or a null offer
\* throws before the token's timer is started.
GetRequestData ==
    /\ handler = "read"
    /\ \/ handler' = "create" /\ UNCHANGED reply
       \/ handler' = "refused" /\ reply' = "error"
    /\ UNCHANGED <<poll, token, tcs, janus, destroys, history>>

\* StartSession: the session is created and the long poll started; Janus names
\* no session; or the POST fails, and Janus may have created one all the same.
StartSession ==
    /\ handler = "create" /\ ~token
    /\ \/ /\ session' = "alive"
          /\ poll' = "running"
          /\ handler' = "subscribe"
          /\ UNCHANGED reply
       \/ /\ session' \in {"none", "alive"}
          /\ Reply("error")
          /\ UNCHANGED poll
    /\ UNCHANGED <<token, tcs, offered, events, raised, destroys, history>>

\* waitForAnswer is created and the OnJanusEvent handler added.  The long poll
\* is already running.
Subscribe ==
    /\ handler = "subscribe"
    /\ handler' = "attach"
    /\ UNCHANGED <<poll, token, tcs, reply, janus, destroys, history>>

\* AttachPlugin: an id, no id (Janus refused), or an exception.
AttachPlugin ==
    /\ handler = "attach" /\ ~token
    /\ \/ /\ session = "alive"
          /\ handler' = "offer"
          /\ UNCHANGED reply
       \/ /\ handler' = "failing"
          /\ UNCHANGED reply
       \/ Reply("error")
    /\ UNCHANGED <<poll, token, tcs, janus, destroys, history>>

\* The POST of the offer reaches Janus; its response is still to come.
DeliverOffer ==
    /\ handler = "offer" /\ session = "alive"
    /\ ~offered
    /\ offered' = TRUE
    /\ UNCHANGED <<handler, poll, token, tcs, reply, session, events, raised, destroys, history>>

\* StartEcho: acknowledged, refused, or an exception.
StartEcho ==
    /\ handler = "offer" /\ ~token
    /\ \/ offered /\ handler' = "register" /\ UNCHANGED reply
       \/ handler' = "failing" /\ UNCHANGED reply
       \/ Reply("error")
    /\ UNCHANGED <<poll, token, tcs, janus, destroys, history>>

\* The token is cancelled with a POST in flight: the await throws and nothing
\* in OfferAsync catches it.
PostAborted ==
    /\ token
    /\ handler \in {"create", "attach", "offer"}
    /\ Reply("error")
    /\ UNCHANGED <<poll, token, tcs, janus, destroys, history>>

\* DestroySession sends its POST, without the token and without a timeout; it
\* reaches Janus now, or before the call returns, or never.
DestroySession ==
    /\ destroys' = destroys + 1
    /\ session' \in {session, "destroyed"}
    /\ UNCHANGED <<offered, events, raised>>

\* The plugin did not start: destroy the session.
CleanUpFailedEcho ==
    /\ handler = "failing"
    /\ DestroySession
    /\ handler' = "cleaning"
    /\ UNCHANGED <<poll, token, tcs, reply, history>>

\* OfferAsync is in DestroySession, before it has replied.
AwaitsDestroy == handler \in {"cleaning", "expiring"}

\* The awaited DestroySession ends.  Without a response its log line throws and
\* the rest of OfferAsync is skipped.
DestroyReturns ==
    /\ AwaitsDestroy
    /\ session' \in {session, "destroyed"}
    /\ \/ /\ handler = "cleaning" /\ session' = "destroyed"
          /\ handler' = "setCanceled"
          /\ UNCHANGED reply
       \/ Reply("error")
    /\ UNCHANGED <<poll, token, tcs, offered, events, raised, destroys, history>>

\* SetCanceled throws when an answer came meanwhile; cts.Cancel is then skipped.
SetCanceled ==
    /\ handler = "setCanceled"
    /\ \/ tcs = "pending" /\ tcs' = "canceled" /\ token' = TRUE
       \/ tcs # "pending" /\ UNCHANGED <<tcs, token>>
    /\ Reply("error")
    /\ UNCHANGED <<poll, janus, destroys, history>>

TrySetCanceled == tcs' = IF tcs = "pending" THEN "canceled" ELSE tcs

\* Mutant: a token that is already cancelled does not run the new callback.
RegisterIgnoresCancelled ==
    /\ handler = "register"
    /\ handler' = "await"
    /\ UNCHANGED <<poll, token, tcs, reply, janus, destroys, history>>

\* cts.Token.Register runs its callback at once if the token is cancelled.
Register ==
    /\ handler = "register"
    /\ handler' = "await"
    /\ IF token THEN TrySetCanceled ELSE UNCHANGED tcs
    /\ UNCHANGED <<poll, token, reply, janus, destroys, history>>

\* The await of waitForAnswer.Task ends.  A null answer writes no body, and the
\* write of an answer throws when the client is gone.  When
\* OfferAsync is already awaiting, SetResult runs this step on the poll's own
\* thread before the poll goes on; the model allows the poll to be faster.
AwaitAnswer ==
    /\ handler = "await"
    /\ \/ tcs = "answer" /\ (Reply("answer") \/ Reply("error"))
       \/ tcs = "null" /\ Reply("empty")
       \/ tcs = "canceled" /\ handler' = "timedOut" /\ UNCHANGED reply
    /\ UNCHANGED <<poll, token, tcs, janus, destroys, history>>

\* catch (TaskCanceledException).
TimedOut ==
    /\ handler = "timedOut"
    /\ DestroySession
    /\ handler' = "expiring"
    /\ UNCHANGED <<poll, token, tcs, reply, history>>

\* CancelAfter: the callback registered by the handler runs in the same call.
TimerFires ==
    /\ ~token /\ handler \notin {"read", "refused"}
    /\ token' = TRUE
    /\ IF handler = "await" THEN TrySetCanceled ELSE UNCHANGED tcs
    /\ UNCHANGED <<handler, poll, reply, janus, destroys, history>>

--------------------------------------------------------------------------------
(* StartLongPoll, and the events of Janus.                                  *)

\* Once it has the offer, Janus raises events.
RaiseEvent ==
    /\ offered /\ session = "alive"
    /\ raised < MaxEvents
    /\ raised' = raised + 1
    /\ \E e \in EventKinds : events' = Append(events, e)
    /\ UNCHANGED <<handler, poll, token, tcs, reply, session, offered, destroys, history>>

\* Mutant: the handler is added only after StartEcho has returned.
SubscribedLate == handler \notin {"read", "create", "subscribe", "attach", "offer"}

Subscribed == handler # "subscribe"

\* OnJanusEvent: SetResult throws if waitForAnswer is complete, and the
\* exception ends the poll.
OnJanusEvent(e) ==
    LET delivered == e # "other" /\ Subscribed IN
    /\ lost' = (lost \/ (e # "other" /\ ~Subscribed))
    /\ \/ /\ delivered /\ tcs = "pending"
          /\ tcs' = IF e = "jsep" THEN "answer" ELSE "null"
          /\ UNCHANGED <<poll, pollFailed>>
       \/ /\ delivered /\ tcs # "pending"
          /\ poll' = "destroying"
          /\ pollFailed' = TRUE
          /\ UNCHANGED tcs
       \/ /\ ~delivered
          /\ UNCHANGED <<poll, tcs, pollFailed>>

\* Mutant: the poll stops after the first event.
GetEventOnce ==
    /\ poll = "running" /\ ~token
    /\ events # <<>>
    /\ events' = Tail(events)
    /\ tcs' = IF Head(events) = "jsep" /\ tcs = "pending" THEN "answer" ELSE tcs
    /\ poll' = "destroying"
    /\ UNCHANGED <<handler, token, reply, session, offered, raised, destroys, history>>

\* One round of the loop.  A keepalive, and the error Janus returns for a
\* session that is gone, change nothing.
GetEvent ==
    /\ poll = "running" /\ ~token
    /\ events # <<>>
    /\ events' = Tail(events)
    /\ OnJanusEvent(Head(events))
    /\ UNCHANGED <<handler, token, reply, session, offered, raised, destroys>>

\* The GET fails: any exception ends the loop.
GetEventFails ==
    /\ poll = "running" /\ ~token
    /\ poll' = "destroying"
    /\ pollFailed' = TRUE
    /\ UNCHANGED <<handler, token, tcs, reply, janus, destroys, lost>>

\* Mutant: the GET is not given the token and the loop does not test it.
PollIgnoresToken ==
    /\ poll = "running" /\ token
    /\ UNCHANGED vars

\* The token ends the loop, at its test or by aborting the GET.
PollCancelled ==
    /\ poll = "running" /\ token
    /\ poll' = "destroying"
    /\ UNCHANGED <<handler, token, tcs, reply, janus, destroys, history>>

\* Whatever ended the loop, the task destroys the session.
PollDestroys ==
    /\ poll = "destroying"
    /\ DestroySession
    /\ poll' = "ended"
    /\ UNCHANGED <<handler, token, tcs, reply, history>>

--------------------------------------------------------------------------------

Handler ==
    \/ GetRequestData \/ StartSession \/ Subscribe \/ AttachPlugin \/ StartEcho
    \/ PostAborted \/ CleanUpFailedEcho \/ DestroyReturns \/ SetCanceled
    \/ Register \/ AwaitAnswer \/ TimedOut

LongPoll == GetEvent \/ GetEventFails \/ PollCancelled \/ PollDestroys

Next == Handler \/ LongPoll \/ TimerFires \/ DeliverOffer \/ RaiseEvent

(***************************************************************************)
(* Fairness: the timer fires and tasks that can continue do.  The client    *)
(* owes no body, and Janus neither a response to a POST nor an event; for   *)
(* DestroySession, which has no token, that leaves the await without end.   *)
(***************************************************************************)
Fairness ==
    /\ WF_vars(TimerFires) /\ WF_vars(PostAborted)
    /\ WF_vars(Subscribe) /\ WF_vars(CleanUpFailedEcho) /\ WF_vars(SetCanceled)
    /\ WF_vars(Register) /\ WF_vars(AwaitAnswer) /\ WF_vars(TimedOut)
    /\ WF_vars(PollCancelled) /\ WF_vars(PollDestroys)

Spec == Init /\ [][Next]_vars

--------------------------------------------------------------------------------
(* Properties.                                                              *)

\* The poll runs before OnJanusEvent has a handler; still no SDP answer is ever
\* fetched without one, for Janus answers only what StartEcho posts later.
NoAnswerLost == TypeOK /\ ~lost

\* After the answer went out the gateway ends the session only when the 30 s
\* are over or the long poll failed: the echo test is not cut short.
SessionOutlivesAnswer ==
    [][reply = "answer" /\ session = "alive" /\ session' = "destroyed"
        => token \/ pollFailed]_vars

\* Janus may stay silent at any POST that carries the token and never answer the
\* offer: the client whose offer was read gets its response, unless OfferAsync
\* sent a DestroySession first and Janus leaves that one without an answer.
OfferReplied == (handler = "create") ~> (reply # "none" \/ []AwaitsDestroy)

\* The long poll of every session ends and has asked Janus to destroy it.
SessionReleased == (poll = "running") ~> (poll = "ended" /\ destroys > 0)

================================================================================
