# A TLA+ model of webrtc-echoes

webrtc-echoes is a set of small WebRTC programs that test each other. A
*server peer* listens for one HTTP operation, `POST /offer` with an SDP offer,
answers with an SDP answer and echoes media or data channel messages; a *client
peer* makes the offer, posts it, waits for the DTLS handshake and turns what
happened into its exit status (`doc/PeerConnectionTestSpecification.md`,
`doc/DataChannelEchoTestSpecification.md`). There is one server and often one
client per WebRTC library, and a CI workflow that runs every client against
every server and collates the exit statuses.

The WebRTC libraries, the HTTP libraries, Janus and Kurento are not part of
the repository. They appear in the models as the nondeterministic environment
the code is written against: a call succeeds, is refused, fails, or is late.

## 1. Inventory

| Component | State it keeps | Operations | Interacts through | What is hard |
|---|---|---|---|---|
| libwebrtc server (`libwebrtc/`) | `_peerConnections`, the stack frame of the running `CreatePeerConnection` (mutex, condition variable, `isReady`), `_isDisposed` | `OnHttpRequest`, `CreatePeerConnection`, posted task, observer, `OnSignal`, `Stop`, destructors | main thread and signaling thread; references into a stack frame | wake-up hand-over, 3 s timeout against a late completion, dead frames, shutdown |
| FakeAudioCaptureModule (`libwebrtc/`) | playing/recording flags, `started_` | `Start*`, `Stop*`, `Init*`, `UpdateProcessing` | called by libwebrtc | sequences of legal calls; no lock |
| Janus gateway (`janus/`) | session id, token, `TaskCompletionSource` | `OfferAsync`, REST calls, `StartLongPoll`, `DestroySession` | two tasks, a timer, an external server | 30 s timeout against a late answer, second answer, partial failure of the clean-up |
| Kurento gateway (`kurento/`) | media pipeline and endpoint ids | `OfferAsync` | sequential RPCs | a failing RPC is swallowed, the last one after the answer has gone out; nothing bounds a call |
| pion server (`pion/main.go`) | `pcs`, `pcsLock` | `offer`, ICE callback, `OnTrack` loop | goroutines sharing a slice | removal while ranging, `log.Fatal` on every error |
| webrtc-rs server (`webrtc-rs/server`) | `PEER_CONNECTIONS_MUTEX` vector | `process_offer`, spawned removal task | tokio tasks | panics after the connection is listed, two tasks for one failure |
| aiortc server (`aiortc/server.py`) | `pcs` set | `offer`, ICE callback, `on_shutdown` | coroutines interleaving at awaits | an offer accepted while shutdown closes the others |
| sipsorcery server (`sipsorcery/server`) | peer connection, close timer | `Offer`, `GotOffer`, timer, state callbacks | timer thread and library callbacks | connection closed before the timer's dispose handler is attached |
| libdatachannel server (`libdatachannel/server.cpp`) | a promise per request | POST handler, gathering callback | handler thread and library thread | the handler waits without a timeout; the promise is on its stack |
| gstreamer server (`gstreamer/`) | pipeline, webrtcbin | HTTP callback, promises, bus | main loop, HTTP thread, webrtcbin queue | two create-answer calls race, an uninitialised answer |
| cJSON (`gstreamer/cJSON.c`) | linked items and their strings | parse, add, detach, insert, replace, delete, print | called by the gstreamer server | failure in the middle of a parse; the `prev` of the first item is the last one |
| werift server (`werift/server.ts`) | peer connection per request | POST handler | event loop | none beyond the library's |
| clients (`pion/client`, `webrtc-rs/client`, `aiortc/client.py`, `libdatachannel/client.cpp`, `sipsorcery/client`, `werift/client.ts`) | result flag, promise or event, timeout | main, connection callbacks | main against callbacks and timer | first of success, failure, timeout decides the exit status |
| browser client (`html/index.html`) | globals `pc`, `isOfferSent`, `isClosed` | `start`, `sendOffer`, `closePeer` | event loop, 3 s timer, fetch | a timer or an answer of an earlier start meets the new `pc` |
| CI and `test/collate-results.py` | result files | collate | job outputs | mapping of jobs to cells |

What makes them correct: every accepted request gets exactly one reply, within
the time the code allows; an SDP answer is sent only when it is the answer to
this offer; every connection or session that was made is released, and only
when it is due; nothing touches memory of a call that has returned; one
failing peer does not disturb the others; and a client exits with 0 exactly
when its handshake succeeded in time.

## 2. Modules

| Module | Models |
|---|---|
| `OfferAnswer` | abstract: what a server promises about `POST /offer` |
| `PeerRegistry` | abstract: what a server that lists its peer connections promises about the list |
| `TestVerdict` | abstract: what a client promises about its exit status |
| `ItemForest` | abstract: what cJSON promises about its items |
| `LibwebrtcServer` | `HttpSimpleServer`, `PcFactory`, `PcObserver`, `main`; implements `OfferAnswer` |
| `LibwebrtcServerProofs` | the theorems about it |
| `JanusGateway` | `Program.OfferAsync` and `JanusRestClient`, with Janus as environment |
| `KurentoGateway` | `kurento/Program.cs`, with Kurento as environment |
| `Gateways` | runs one of the two, as a test does |
| `GatewayProofs` | the theorems about the two gateways |
| `PionServer` | `pion/main.go`; implements `PeerRegistry` |
| `PionClient` | `pion/client` |
| `PionProofs` | the theorems about the two |
| `AiortcServer` | `aiortc/server.py`; a `PeerRegistry` until the shutdown |
| `WebrtcRsServer` | `webrtc-rs/server`; implements `PeerRegistry` |
| `WebrtcRsClient` | `webrtc-rs/client` |
| `WebrtcRsEcho` | composes the two |
| `WebrtcRsEchoProofs` | the theorems about the three |
| `SipsorceryServer` | `sipsorcery/server`; implements `OfferAnswer` |
| `SipsorceryClient` | `sipsorcery/client`; implements `TestVerdict` |
| `SipsorceryEcho` | composes the two |
| `SipsorceryEchoProofs` | the theorems about the three |
| `LibdatachannelServer` | `libdatachannel/server.cpp`; implements `OfferAnswer` |
| `LibdatachannelClient` | `libdatachannel/client.cpp`; implements `TestVerdict` |
| `LibdatachannelEcho` | composes the two |
| `LibdatachannelEchoProofs` | the theorems about the three |
| `GstreamerServer` | `gstreamer/gstreamer-webrtc-echo.c`; implements `OfferAnswer` |
| `EchoServerProofs` | the theorems about `GstreamerServer` and `AiortcServer`, the servers without a client of their own here |
| `CJson` | `gstreamer/cJSON.c`; implements `ItemForest` |
| `CJsonProofs` | the theorem about it |

Definitions whose comment begins with "Mutant:" are plausible mistakes in the
definition below them. They are not part of the model; each shows that some
property would notice the mistake.

### LibwebrtcServer

`loop` is the program counter of the main thread. `dispatch` is the libevent
loop; `create`, `lock`, `wait`, `woken`, `expired`, `describe` are the stations
of `CreatePeerConnection`; `stopping`, `destroying`, `closing` those of the
shutdown. `queue`, `creating` and `sig` are what the signaling thread has to
do: posted tasks, implicit `SetLocalDescription` calls in flight, and the
observer it is in. `timedOut`, `dangling` and `completed` are history.

The mutex is held by the main thread exactly in `describe`: every other
critical section (test `isReady` and go to wait; set it and notify) is one
step. `local_description()` and `Close()` are blocking calls to the signaling
thread, so they are enabled only when that thread is idle and its queue empty.

The task and the observer refer to locals of `CreatePeerConnection`. If the
function has returned by timeout, that is undefined behaviour, and the model
chooses between a crash, stale memory that still works, and the frame of the
next request, which lies at the same place when it is entered from the same
depth. In the last case the late observer sets the `isReady` of another
request, which then reads its description too early; or it waits for the mutex
of a main thread that waits for the signaling thread, and both stop. The
properties say what holds until such a misuse, and that a misuse needs a
timeout.

### JanusGateway

`handler` is the program counter of `OfferAsync`, `poll` that of
`StartLongPoll`; `token` is the cancellation token, `tcs` the
`TaskCompletionSource`. Requests share no state, so one request is modelled.
Every REST call has the outcomes success, refusal and exception, and on an
exception Janus may or may not have performed it. `DestroySession` counts the
requests sent and may or may not reach Janus. It carries neither the token nor a
timeout, and `OfferAsync` awaits it before it replies: sending it and its return
are two actions (`CleanUpFailedEcho` or `TimedOut`, then `DestroyReturns`), and
the second may never happen.

### PionServer

`offer` and `ice` are per-peer program counters of the HTTP goroutine and of
the ICE callback. The range loop is modelled round by round with the bound `n`
taken at its start, as Go does, because the slice changes inside it.
Indices are counted from 1.

### AiortcServer

`offer` is the place where a request's coroutine awaits: between two awaits
nothing else runs, so the code between them is one action. `pcs` and `closed`
are sets of peers. `on_shutdown` makes the list of the connections it closes
(`coros`) at its start, closes them one after the other in any order, and
clears `pcs` at its end; requests accepted before go on meanwhile. `close()` may
raise, in `on_shutdown` and in the ICE handler. Once `on_shutdown` has ended or
raised, `web.run_app` cancels what is left and closes the event loop
(`LoopCloses`), and nothing runs any more.

### WebrtcRsServer

Every error of `process_offer` is an `unwrap` and so a panic of its task alone,
with the connection listed or not depending on how far it got. The task for a
failed connection takes `PEER_CONNECTIONS_MUTEX`, closes the matching
connection across an await and retains the others: three actions. `bound` and
`echo` are there because the echo task indexes a vector that `bind` fills.

### SipsorceryServer

Requests share nothing. Per request there are the task of `Offer`, the peer
connection and the close timer; the timer callback and the `failed` callback
run on other threads, hence `firing` and `failed` as states between the event
and what the callback does.

### GstreamerServer

One HTTP request at a time, and per request a webrtcbin with a queue of
operations (`tasks`) it works off on its own thread. `create-answer` is asked
for twice, by the HTTP handler and by `on_offer_set`; `promise` is the promise
of the former. A promise that ends without an answer leaves the local variable
`answer` uninitialised: the model chooses between a null, which gives an error
reply, a wild pointer, which crashes, and, once an answer has been sent, the
pointer that an earlier call left in the same place, freed but still readable,
which is sent as the answer (`reply = "stale"`).

### PionClient and SipsorceryClient

`main` is the program counter of the main function. In `PionClient` every call
of the state handler is a record in `handlers`, for pion starts a goroutine per
state change and these interleave with one another. In `SipsorceryClient`
callbacks of one connection come one after the other: `notice` is the state
change to be reported, `pendingSet` a callback between its assignment to
`success` and `testComplete.Set()`. `handshake` is history, set when the
connection comes up and read by no action; with it the condition of the test
(`Met`) does not depend on what the client itself believes. `ctx` in `PionClient`
records which handler call ended it, or that it expired.

### LibdatachannelServer and LibdatachannelClient

`handler` is the program counter of a POST handler, `promise` the promise on
its stack, "dead" once the handler has returned. The gathering callback holds a
reference to it; `usedDead` records the requests whose callback came too late,
which is undefined behaviour: nothing happens, or the process ends. The only
way to it is a `setRemoteDescription` that throws after it began to gather.

In the client, `locals` are the locals of `main` that are alive, in the order
of their declaration, and `Destroy` takes the last one. The promise is declared
first, then the HTTP client, the peer connection and the data channel. The
callbacks stop when the peer connection is destroyed, whose destructor waits
for the one that runs; so a callback may find the data channel dead, and never
the promise or the HTTP client. Four callbacks and the POST settle the promise;
libdatachannel catches the `future_error` of the second.

### WebrtcRsClient

`main` with its `?` operators and the state handler, which the library awaits
for one change after the other. `done` is the channel of capacity one between
them. The handler ends the process itself for a connection that is lost or
closed, also while `main` is in `close()`.

### KurentoGateway and Gateways

`Rpcs` is the sequence of calls of `OfferAsync`, `pos` and `rpc` the one being
made. Kurento (external, from how the calls depend on one another) executes a
call or refuses it, may lose the connection or stay silent, in the web socket's
handshake or to a call, and releases the session when the web socket is gone;
`media` is what it has built.

Both gateways listen on port 8080, and a test starts one of them: in `Gateways`
the other stays in its initial state, where none of its fair actions is enabled.
So the fairness of both can be assumed, and neither adds to the states of the
other.

### The Echo modules

The client of a library against the server of the same library, which has
another request besides. Where the two meet (the offer is delivered, the reply
returned, the connection comes up, a message crosses) the actions of one module
are guarded by the state of the other; everything else interleaves. In
`SipsorceryEcho` and `LibdatachannelEcho` the client may also face another
server (`peer = "other"`), as in the interoperability tests, and that one may
reply and send anything; so the properties of the client do not depend on the
good manners of its own server. The POST may fail at the client while the
server works on.

### CJson

`heap` holds the items with their `next`, `prev` and `child`; the calls that
relink them are operators from heap to heap. The recursive descent of
`parse_value` is a stack of frames, one step per token. A text is a sequence of
tokens, so escapes, numerals and white space do not appear, and the offset counts
tokens: a turn of the loop over the elements begins at the comma or, stepped back
from the first element, at the opening bracket (`LoopOffset`), and steps over it.
Every allocation may fail. The refinement maps each container to the sequence that its pointers
spell, and hides what a parse has not handed over yet, so that an item that a
failed parse forgets appears in the abstract forest without a place.
`Words` is the grammar of JSON, written down independently of the parser.

The loops along `next` are a recursive function of bounded length (`Walk`), and
the recursion of `cJSON_Delete` is the least set that has with an item its
siblings and children (`Below`). Both give what the code visits when the links
are in order, and are defined, and can be reasoned about, when they are not.

## 3. Runs

| Run | Checks | Bounds |
|---|---|---|
| `libwebrtc` | wake-up, dead frames, order of completion and read, replies, shutdown, refinement of `OfferAnswer`, every request is replied to, SIGINT ends | 2 requests of 9 kinds: the one that times out and the one whose frame its completion may hit |
| `gateways` | Janus: lost answers, session lifetime, response unless Janus leaves a `DestroySession` unanswered, release. Kurento: an answer has its loop behind it, only a Kurento that is silent in the handshake or to a call holds a request | one of the gateways is started; Janus has 3 events, the answer, a second one and one more, Kurento 2 requests |
| `pion` | exact list, refinement of `PeerRegistry`, failed peers are closed | 3 peers: a removal at the front, in the middle, at the end |
| `pion_panic` | violated: see section 6 | 2 peers |
| `pion_client` | a connection that comes up in time is a success, the client exits | 4 state changes: connecting, connected, disconnected and one more |
| `pion_client_failed` | violated: see section 6 | 2 state changes |
| `aiortc` | nothing leaves `pcs` unclosed, registry until the shutdown, failed peers are released | 3 peers: one failing, one closed by the shutdown, one added during it |
| `webrtc_rs` | exit 0 needs an answer that is set, refinement of `PeerRegistry`, failed peers are removed, a panic is a failed test and the client exits | the client's peer and another that holds the mutex or waits for it |
| `sipsorcery` | an answered connection has its timer, success needs an answer and is assigned before `Main` is woken for it, refinement of `OfferAnswer` and `TestVerdict`, both ends end | the client's request and another; both tests; `PcTimeout` only matters as zero or not |
| `libdatachannel` | what callbacks may find dead, success needs an answer and an echo, refinement of `OfferAnswer` and `TestVerdict`, both ends end | the client's request and another; both tests |
| `gstreamer` | the reply fits the offer, refinement of `OfferAnswer`, replies, local descriptions | 3 requests |
| `cjson` | links, strings and memory (`MemorySound`), parser against grammar and printer (`ParsedAsWritten`), refinement of `ItemForest` | 4 items, so that a list has a first, a middle and a last one; texts of up to 9 tokens, enough for an object of two members; nesting limit 2 |

One invariant of each passing run contains the type invariant of its modules;
for libwebrtc it is proved instead (`TypeCorrect`). The runs are without
symmetry reduction, as nearly all of them have liveness properties.

For libwebrtc two requests are enough because the main thread serves one
request at a time: a late completion can meet its own frame, a dead one, or the
one that is live now. The safety properties of all runs but `cjson` are proved
for any number of requests or peers, and `MemorySound` for any number of items
(section 4).

Deadlock is checked for `cjson` only: each of the processes may legitimately end
(SIGINT, a fatal error, the test done). Being stuck before that is what the liveness
properties exclude.

Fairness.

* `LibwebrtcServer`: the two threads run when they can and the 3 s timer
  expires; requests and SIGINT owe nothing.
* `JanusGateway` (in `Gateways`): the timer fires, and tasks that can continue
  do. The client owes no body, and Janus neither events nor responses, that of
  `DestroySession` included: `OfferReplied` excepts an `OfferAsync` that waits for one for ever.
* `PionServer`: a goroutine waiting for `pcsLock` gets it eventually (Go's
  mutexes prevent starvation), hence strong fairness there.
* `WebrtcRsEcho`: the same for tokio's mutex, which is first come, first
  served; the client runs on, and its request, which has no timeout, ends when
  the handler has replied or panicked.
* `AiortcServer`: while it is open, the event loop runs the ICE handler, and the
  `close()` of a failed connection completes or raises. Nothing is assumed of a
  loop that is closed.
* `SipsorceryEcho`: armed timers fire and callbacks are called; `Main` runs on
  (`HttpClient` gives up after 100 s) and its wait times out. The parts of
  `Offer` that wait for the network owe nothing.
* `LibdatachannelEcho`: `main` runs on, with its 10 s timeout, httplib's client
  gives up on a POST in the end, and libdatachannel completes the gathering it
  has begun. Connections and channels owe nothing.
* `KurentoGateway` (in `Gateways`): what Kurento answers to a call reaches the
  gateway, and the write of the answer ends or throws. The client owes no body; Kurento owes no
  reply, and no end of the handshake, for the token of the connect is never
  cancelled.
* `GstreamerServer`: the HTTP thread runs on, and a webrtcbin works off its
  queue.
* `PionClient`: `main` runs on and its two timeouts fire; gathering, for which
  it waits without a timeout, owes nothing, and neither does the connection.
* `CJson`: none; it has safety properties only.

## 4. Proofs

Every invariant, action property and refinement that a passing run checks is
also a theorem, except two of `CJson`. The theorems hold for every value of
the constants.

Assumptions, each in the module that declares the constant: the kinds of offers
are known ones; `NoRequest` and `NoPeer` are none of the requests or peers;
`Requests` is finite in `SipsorceryServer` and `LibdatachannelServer`, which put
no limit of their own on the requests they work on, whereas `OfferAnswer` has
one (`MaxOpen`, here the number of requests); the client's own request is one of
the requests (`Mine`); `MaxEvents` and `MaxChanges` are natural numbers;
`PcTimeout` is one the code turns into milliseconds without overflow; `CJson` has
at least one item and one string, and no string that is punctuation; its other
bounds are natural numbers.

The theorems are about the specification without fairness (`Spec`, or
`AiortcSpec`, `ClientSpec` and `KurentoSpec` where two share a proof module), and
so hold for the fair one of the runs as well. A refinement is proved by a simulation lemma:
under the inductive invariant each action changes the abstract state (`Statuses`
or `PeerStates`, a function of the concrete one) at one request or peer at most,
and that change is an action of the abstract specification or a stutter.

**libwebrtc** (`LibwebrtcServerProofs`)

* `TypeCorrect`: the type invariant, strengthened by "inside
  `CreatePeerConnection` there is a request", which the pushes to
  `_peerConnections` and to the queue need.
* `WakeupNeverLost`: `NoLostWakeup` is inductive by itself.
* `FramesSafeUntilTimeout`: `NoDanglingWithoutTimeout` is not inductive; it
  says nothing about work that is still outstanding when a frame dies.
  `HandOver` does: as long as no wait has expired, either nothing is
  outstanding, or exactly one thing is, it belongs to the live frame, and its
  `isReady` is still false. A frame dies without a timeout only with `isReady`
  true, so nothing is left behind.
* `ReadFollowsCompletion`: `ReadAfterComplete` strengthened to the whole life
  of the frame (`ReadyMeansComplete`).
* `RequestsOneByOne`: the handler runs for one request at a time, and a request
  that has not arrived has left no trace in either thread (`OneHandler`). The
  next three rest on it.
* `GoodOffersAnswered`: `Described` adds that a completed peer connection has
  the description its offer leads to and keeps it until the shutdown.
* `ShutdownComplete`: `Kept` adds that what a request registered stays in
  `_peerConnections` until `~PcFactory` has closed it, `FreedOnce` that the
  libevent objects are freed once.
* `OfferAnswerImplemented`: the refinement, with `MaxOpen` = 1.

**Gateways** (`GatewayProofs`)

* `AnswersNotLost`: Janus can answer only an offer, and `OfferAsync` subscribes
  before it sends one (`OfferAfterSubscribe`). The bound on `destroys` becomes
  inductive when split by who sent them. The part "no long poll before
  `StartSession`" looks redundant and is not: without it the invariant is not
  inductive.
* `AnswerKeepsSession`, an action property, from `EndsForAReason`: the long poll
  ends only by the token or by a failure.
* `AnswersLooped` (`AnswerIsLooped` of `KurentoGateway`): `CallsInOrder` says
  that what Kurento has executed covers all calls before the current one.

**pion** (`PionProofs`)

* `ListExact`: `ListMatches` does not say why the removal loop, which changes
  the slice it ranges over, finds its connection. `RemovalInv` does: until it has
  been closed it is ahead of the index, in a list that is as long as when the loop began.
  Lemmas about `Without` show that a removal keeps the entries distinct and
  removes exactly one.
* `RegistryImplemented`: the refinement of `PeerRegistry`, the panic of the
  loop (section 6) mapped to the end of the process.
* `ResultSeen` (`InTimeResultSeen` of `PionClient`): a handler that is past its
  write of `connectResult` has made it true, and `ctx` is cancelled only after
  that (`WrittenFirst`). It is stated for a connection that came up; that a failed
  one is a success as well is a violated run (section 6), not a property.

**aiortc** (`EchoServerProofs`)

* `DroppedAreClosed`: inductive by itself. It excepts a connection that was added
  while `on_shutdown` was closing the others, for which the claim is false
  (section 6).
* `RegistryImplemented`: until `on_shutdown`, membership in `pcs` is a function
  of where the ICE handler is (`RegistryOf`).

**webrtc-rs** (`WebrtcRsEchoProofs`)

* `RegistryImplemented`, `RegistryWithClient`: for the server by itself and with
  its client; `RegistryOf` ties the list and the closed connections to the
  removal tasks.
* `SuccessAnswered`: how far the client is never outruns what the server has
  done (`ClientFollows`).

**sipsorcery** (`SipsorceryEchoProofs`)

* `TimerGuards`: a timer exists exactly from `ArmTimer` on, and one that has
  fired or was disposed left a closed connection (`Guarded`).
* `OfferAnswerImplemented` for the server, `BothImplement` with the client:
  every step of the composition is one of the server or a stutter of it
  (`ServerSide`), and the same for the client (`ClientSide`), so each refinement
  is proved where it belongs. The client's side needs `ClientInv`: `success` is
  assigned only after the handshake or the echo, as a callback for "connected" is
  called only for a connection that was.
* `SuccessEndToEnd`: what the client has beyond its POST, it owes to an answer
  (`AnswerFirst`); and the event is set, as long as the connection is open, only
  by a callback that has assigned `success` (`ClientInv`).

**libdatachannel** (`LibdatachannelEchoProofs`)

* `BothImplement`, `SuccessEndToEnd`: as for sipsorcery.
* `LifetimesHold`: on the server's side a promise that is settled has a
  gathering that is complete, so a handler that leaves through it leaves no
  callback behind (`PromiseInv`); on the client's side the locals alive are
  always a prefix of their declarations, and the wire holds one message at most
  (`ClientInv`, `WireInv`).

**gstreamer** (`EchoServerProofs`)

* `RepliesMatch`: an answer is this request's own, or what an uninitialised
  `answer` turned out to be, and then its promise held an error (`PromiseInv`).
  What is queued at a webrtcbin says how far its negotiation is
  (`QueueInv`): `set-remote` can only be at the head, and `answer-http` is
  queued at most once, while its promise is pending. The second is needed: were
  it queued twice, the later one would overwrite a promise already replied with.
* `OfferAnswerImplemented`: the refinement, crashes included.

**cJSON** (`CJsonProofs`)

* `MemoryIsSound`: `MemorySound` speaks of walks along `next`, and a step that
  relinks three items says nothing about a walk. The invariant (`Inv`) therefore
  says that coordinates exist: for each item the owner of its list and its place
  in it. An owner is the item whose children they are, or an open array or object
  of the parser, a frame of its stack, whose list no item has as its children
  yet; frames are numbered from `Items + 1` up, so that the two cannot be
  confused. `Lists` says of the coordinates, item by item, what the links are:
  `next` is the item one place on or `NULL`, `prev` the one before, and that of
  the first is the last, except in the list of a frame, where it may still be
  missing.

  Three layers rest on it. Each relinking (append, insert, detach, replace, the
  tie at the closing bracket, a whole list dropped) keeps `Lists` for coordinates
  that are written down explicitly (`Appended`, `Inserted`, `Detached`,
  `Replaced`, `Closed`, `Dropped`). The assignments of each call make one of
  these relinkings (`AddLinks`, `InsertLinks`, `DetachLinks`, `ReplaceLinks`,
  `ElementLinked`, `ListHandedOver`). And each action keeps the rest: strings are
  counted (`StringsOf`), frames nest (`FramesOK`), what is held is a root.

  Deletion needs that the set it frees is made of whole lists: the items outside
  of it stay linked (`WholeLists`, from `Below` being the least closed set). That
  the walk of `ListOf` follows the coordinates (`ListWalk`) is an induction over
  the places of one list; it is made through the least place where the two would
  differ (`Least`), as the library's induction theorems take an operator.

  `Inv` quantifies over functions and so is not itself evaluated by TLC; the
  `cjson` run checks `MemorySound`, which follows from it (`InvSound`).

Model-checked only:

* liveness, which needs fairness and `ENABLED`;
* `ParsedAsWritten` of `CJson`: the printer and the grammar are recursive, and
  what they compute for every input takes an induction over the data;
* `ImplementsItemForest` of `CJson`: the coordinates of `CJsonProofs` determine
  the sequences of the abstract forest, but its trees are made level by level
  (`Tree`) and `SelectSeq` takes an item out of a list; both are recursive, and
  that they agree with `Below` and with a detached place takes an induction over
  the data as well;
* the violations of section 6, counterexamples.

## 5. Not modelled

Listed with reasons in `PROJECT.json`.

* The werift programs and the aiortc client: one coroutine each on an event
  loop, without state shared between requests. What they could get wrong is
  what the other clients and servers can, with less concurrency.
* The browser page: who presses its buttons when is up to a person.
* `FakeAudioCaptureModule`: a test double taken from libwebrtc, "does not
  implement anything useful" by its own comment. Its frame pump has no caller in
  this repository; what remains are flags.
* `libwebrtc/json.hpp`: nlohmann's library, 25447 lines and four fifths of the
  C and C++ in the repository. The server uses it to parse a body and to take
  two fields from it; that either may throw is in `LibwebrtcServer`. The share
  of the lines that the models cover stays small mainly for this reason.
* Of `cJSON`: the calls that the server does not make and that do not relink
  items (references, arrays from C arrays, `Duplicate`, `Compare`, `Minify`),
  and the growth of the print buffer.
* Link tests, CI and its result table, Docker and project files.
* Within the modelled components: SDP and JSON text (a body is of one of a few
  kinds), media and its echo beyond the start and end of the echo loop,
  logging, and the command line where it decides nothing but addresses.
* The Int32 overflow of `pcTimeout * 1000` (`sipsorcery/server/Program.cs:158`)
  is excluded by `PcTimeoutAssumption`.

## 6. Where code and documentation disagree

Shown by a run that is violated:

* `pion_panic`: with another connection listed behind it, a connection whose
  ICE fails brings down the server, which should be listening
  (`doc/PeerConnectionTestSpecification.md:32`): `for i := range pcs` fixes the
  number of rounds, and the removal inside shortens the slice.
* `pion_client_failed`: a connection that fails makes the client exit with 0
  (`pion/client/main.go:132`); the specification says 1
  (`doc/PeerConnectionTestSpecification.md:49`).

Visible in the models as what a property has to make an exception for:

* libwebrtc: a wait that expires is answered with 200 and an empty body
  (`GoodOfferAnswered` excepts `timedOut`). When `SetRemoteDescription` fails,
  which is only logged, the implicit `SetLocalDescription` makes an offer in
  the stable state, and it is returned with type "answer" (`DescriptionFor`).
* aiortc: an offer whose body arrives while `on_shutdown` awaits its gather adds
  a connection that `pcs.clear()` drops unclosed, though `on_shutdown` is to
  "close peer connections" (`aiortc/server.py:93`). `DroppedIsClosed` excepts it.
* sipsorcery server: the option `--timeout` is to "close the peer connection"
  (`sipsorcery/server/Program.cs:50`); the timer is made after the answer has
  been written, so that an offer that is refused, or a write that throws, leaves
  a connection without one. `OpenIsGuarded` and `BothEnd` speak of connections
  whose answer was written.
* sipsorcery client: `success` is read a second after the close, so a handshake
  completed after the timeout still counts (`TestVerdict` does not say when the
  condition was met). With `--timeout 0`, "no timeout" in the help text, the
  wait returns at once.
* Janus: a client whose echo did not start, or whose answer did not come in time,
  is not answered as long as Janus leaves the `DestroySession` unanswered
  (`OfferReplied` excepts it).
* gstreamer: the HTTP handler's create-answer (`gstreamer-webrtc-echo.c:208`)
  may come after `on_answer_created` has set an answer; it then fails, and an
  offer that was accepted is not answered
  (`doc/PeerConnectionTestSpecification.md:36`). `ReplyMatchesOffer` allows an
  error, or leftover memory, for an accepted offer in this case alone.
* gstreamer: the uninitialised `answer` (`gstreamer-webrtc-echo.c:157,216`) may be
  that of an earlier request, and is then returned to a client whose offer was
  rejected. `ReplyMatchesOffer` and `RequestServed` make their claims for answers
  that were generated for the request.
* webrtc-rs client: a connection that fails makes it exit with 0 as well, and so
  does a wait that times out, whose `close()` reports Closed to the same handler
  (`webrtc-rs/client/src/main.rs:191`). `SuccessMeansAnswered` claims an answer
  and not a connection.
* libdatachannel client: it returns -1, not 1, on a failure.
* Kurento: a request whose call failed is answered with an empty body, and one
  whose handshake or call Kurento leaves without a reply is not answered at all
  (`HeldOnlyByKurento` excepts it).
* cJSON: `replace_item_in_object` does not look at whether the copy of the name
  succeeded; a member without a name ends every later case sensitive search
  (`ReplaceItemInObject`, `get_object_item`).

## 7. Plan

Done: the abstract specifications, the servers, clients and gateways of section
2, three compositions of a client with its server, and the proofs of section 4.
Open:

1. `ImplementsItemForest` as a theorem, from the coordinates of `CJsonProofs`:
   `ListWalk` gives the sequence of an owner, and each of the relinking lemmas
   says where its items go. It takes an abstract forest without recursion, and a
   third coordinate, the depth, for the trees.
2. What the abstract specifications guarantee by themselves (a reply is final, a
   released peer stays released) as theorems, so that every server inherits them
   from its refinement.
