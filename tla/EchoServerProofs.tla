---------------------------- MODULE EchoServerProofs ----------------------------
(***************************************************************************)
(* Proofs about the two echo servers that are modelled without a client,    *)
(* for any set of requests or peers: the gstreamer server, the HTTP thread  *)
(* against the threads of the webrtcbins; and the aiortc server, the        *)
(* coroutines of its event loop against on_shutdown.                        *)
(***************************************************************************)
EXTENDS GstreamerServer, AiortcServer, FiniteSetTheorems, TLAPS

--------------------------------------------------------------------------------
(* The queue of a webrtcbin.                                                *)

Queued(s, t) == \E i \in 1 .. Len(s) : s[i] = t

\* set-remote is asked for first and so can only be at the head.
RemoteFirst(s) == \A i \in 2 .. Len(s) : s[i] # "set-remote"

\* The handler asks for its answer once.
HttpOnce(s) ==
    \A i, j \in 1 .. Len(s) : s[i] = "answer-http" /\ s[j] = "answer-http" => i = j

\* A task that is appended is queued, and so is what was queued before.
LEMMA QueuedAppend ==
    ASSUME NEW s \in Seq(Tasks), NEW x \in Tasks
    PROVE  /\ Append(s, x) \in Seq(Tasks)
           /\ \A t : Queued(Append(s, x), t) => Queued(s, t) \/ t = x
           /\ RemoteFirst(s) /\ x # "set-remote" => RemoteFirst(Append(s, x))
           /\ HttpOnce(s) /\ (x = "answer-http" => ~Queued(s, x)) => HttpOnce(Append(s, x))
<1>1. /\ Append(s, x) \in Seq(Tasks)
      /\ \A t : Queued(Append(s, x), t) => Queued(s, t) \/ t = x
      /\ RemoteFirst(s) /\ x # "set-remote" => RemoteFirst(Append(s, x))
  BY DEF Queued, RemoteFirst
<1>2. ASSUME HttpOnce(s), x = "answer-http" => ~Queued(s, x) PROVE HttpOnce(Append(s, x))
  <2>1. /\ Len(Append(s, x)) = Len(s) + 1 /\ Len(s) \in Nat
        /\ Append(s, x)[Len(s) + 1] = x
        /\ \A i \in 1 .. Len(s) : Append(s, x)[i] = s[i]
    OBVIOUS
  <2> QED
    BY <1>2, <2>1 DEF HttpOnce, Queued
<1> QED
  BY <1>1, <1>2

\* A task that is taken off leaves only what was queued, and no set-remote.
LEMMA QueuedTail ==
    ASSUME NEW s \in Seq(Tasks), s # <<>>, RemoteFirst(s), HttpOnce(s)
    PROVE  /\ Tail(s) \in Seq(Tasks)
           /\ \A t : Queued(Tail(s), t) => Queued(s, t)
           /\ RemoteFirst(Tail(s)) /\ HttpOnce(Tail(s))
           /\ ~Queued(Tail(s), "set-remote")
           /\ Queued(s, Head(s)) /\ (Head(s) # "set-remote" => ~Queued(s, "set-remote"))
           /\ Head(s) = "answer-http" => ~Queued(Tail(s), "answer-http")
<1>1. /\ Len(Tail(s)) = Len(s) - 1 /\ Len(s) \in Nat /\ Len(s) > 0 /\ Head(s) = s[1]
      /\ \A i \in 1 .. Len(s) - 1 : Tail(s)[i] = s[i + 1]
      /\ Tail(s) \in Seq(Tasks)
  OBVIOUS
<1>2. /\ \A t : Queued(Tail(s), t) => Queued(s, t)
      /\ RemoteFirst(Tail(s)) /\ ~Queued(Tail(s), "set-remote")
      /\ Queued(s, Head(s)) /\ (Head(s) # "set-remote" => ~Queued(s, "set-remote"))
  BY <1>1 DEF Queued, RemoteFirst
<1>3. HttpOnce(Tail(s)) /\ (Head(s) = "answer-http" => ~Queued(Tail(s), "answer-http"))
  BY <1>1 DEF Queued, HttpOnce
<1> QED
  BY <1>1, <1>2, <1>3

--------------------------------------------------------------------------------
(* The inductive invariant.                                                 *)

\* Where on_http_request_cb is with the request it handles.
HandlerInv(r) ==
    /\ req # r /\ reply[r] = "none" => bin[r] = "none"
    /\ req = r => reply[r] = "none" /\ at # "dispatch"
    /\ req = r /\ at = "create" => bin[r] = "none"
    /\ req = r /\ at \in {"offer", "emit", "wait"} => bin[r] # "none"
    /\ req = r /\ at = "offer" => tasks[r] = <<>> /\ signaling[r] = "initial"
    /\ req = r /\ at \in {"offer", "emit"} => promise[r] = "none"

\* What is queued says how far the negotiation is.
QueueInv(r) ==
    /\ RemoteFirst(tasks[r]) /\ HttpOnce(tasks[r])
    /\ Queued(tasks[r], "set-remote") =>
        signaling[r] = "initial" /\ promise[r] \in {"none", "pending"}
    /\ Queued(tasks[r], "answer-http") => promise[r] = "pending"
    /\ Queued(tasks[r], "set-local") => signaling[r] # "initial"
    /\ bin[r] = "none" => tasks[r] = <<>> /\ signaling[r] = "initial" /\ promise[r] = "none"
    /\ bin[r] = "released" => signaling[r] = "stable" /\ tasks[r] = <<>>

\* What the promise of the handler, and the reply, say about the offer.
PromiseInv(r) ==
    /\ promise[r] = "answer" => signaling[r] # "initial"
    /\ promise[r] = "error" => signaling[r] \in {"initial", "stable"}
    /\ promise[r] = "expired" => signaling[r] = "stable"
    /\ reply[r] = "answer" => promise[r] = "answer"
    /\ reply[r] = "stale" => promise[r] = "error"
    /\ reply[r] = "error" => bin[r] = "none" \/ promise[r] \in {"error", "expired"}

Good(r) == HandlerInv(r) /\ QueueInv(r) /\ PromiseInv(r)

Inv == TypeOK /\ \A r \in Requests : Good(r)

\* It holds at the start.
LEMMA InvInit == Init => Inv
<1> SUFFICES ASSUME Init PROVE Inv
  OBVIOUS
<1>1. TypeOK
  BY DEF Init, TypeOK
<1>2. \A t : ~Queued(<<>>, t)
  BY DEF Queued
<1>3. RemoteFirst(<<>>) /\ HttpOnce(<<>>)
  BY DEF RemoteFirst, HttpOnce
<1>4. ASSUME NEW r \in Requests PROVE Good(r)
  BY <1>2, <1>3, NoRequestAssumption DEF Init, Good, HandlerInv, QueueInv, PromiseInv
<1> QED
  BY <1>1, <1>4 DEF Inv

\* One step keeps Inv: the steps of the HTTP thread.
LEMMA HttpStep ==
    ASSUME Inv, NEW r \in Requests,
           \/ OnHttpRequest(r) \/ CreateWebrtc(r) \/ SetOffer(r) \/ EmitCreateAnswer(r)
           \/ PromiseOver(r) \/ UninitializedAnswer(r)
    PROVE  Inv'
<1>0. TypeOK /\ \A q \in Requests : Good(q)
  BY DEF Inv
<1>e. (\A t : ~Queued(<<>>, t)) /\ RemoteFirst(<<>>) /\ HttpOnce(<<>>) /\ <<>> \in Seq(Tasks)
  BY DEF Queued, RemoteFirst, HttpOnce
<1> USE DEF Handling, Send, Up
<1>1. CASE OnHttpRequest(r)
  <2>1. TypeOK'
    BY <1>0, <1>1 DEF OnHttpRequest, TypeOK
  <2>2. ASSUME NEW q \in Requests PROVE Good(q)'
    <3>1. Good(q) /\ Good(r)
      BY <1>0
    <3>2. QueueInv(q)'
      BY <1>1, <3>1 DEF OnHttpRequest, Good, QueueInv
    <3>3. HandlerInv(q)'
      BY <1>0, <1>1, <3>1, NoRequestAssumption DEF OnHttpRequest, Good, HandlerInv, PromiseInv, TypeOK
    <3>4. PromiseInv(q)'
      BY <1>0, <1>1, <3>1, NoRequestAssumption DEF OnHttpRequest, Good, HandlerInv, PromiseInv, TypeOK
    <3> QED
      BY <3>2, <3>3, <3>4 DEF Good
  <2> QED
    BY <2>1, <2>2 DEF Inv
<1>2. CASE CreateWebrtc(r)
  <2>1. TypeOK'
    BY <1>0, <1>2 DEF CreateWebrtc, TypeOK
  <2>2. ASSUME NEW q \in Requests PROVE Good(q)'
    <3>1. Good(q) /\ Good(r)
      BY <1>0
    <3>2. QueueInv(q)'
      BY <1>0, <1>2, <3>1 DEF CreateWebrtc, Good, HandlerInv, QueueInv, TypeOK
    <3>3. HandlerInv(q)'
      BY <1>0, <1>2, <3>1, NoRequestAssumption DEF CreateWebrtc, Good, HandlerInv, QueueInv, TypeOK
    <3>4. PromiseInv(q)'
      BY <1>0, <1>2, <3>1 DEF CreateWebrtc, Good, HandlerInv, QueueInv, PromiseInv, TypeOK
    <3> QED
      BY <3>2, <3>3, <3>4 DEF Good
  <2> QED
    BY <2>1, <2>2 DEF Inv
<1>3. CASE SetOffer(r)
  <2>a. tasks[r] \in Seq(Tasks) /\ "set-remote" \in Tasks
    BY <1>0 DEF TypeOK, Tasks
  <2>b. tasks[r] = <<>> /\ signaling[r] = "initial" /\ promise[r] = "none"
    BY <1>0, <1>3 DEF SetOffer, Good, HandlerInv
  <2>c. /\ Append(tasks[r], "set-remote") \in Seq(Tasks)
        /\ \A t : Queued(Append(tasks[r], "set-remote"), t) => t = "set-remote"
    BY <1>e, <2>a, <2>b, QueuedAppend
  <2>d. RemoteFirst(Append(tasks[r], "set-remote")) /\ HttpOnce(Append(tasks[r], "set-remote"))
    BY <2>b DEF RemoteFirst, HttpOnce
  <2>1. TypeOK'
    BY <1>0, <1>3, <2>c DEF SetOffer, TypeOK
  <2>2. ASSUME NEW q \in Requests PROVE Good(q)'
    <3>1. Good(q) /\ Good(r)
      BY <1>0
    <3>2. QueueInv(q)'
      <4>1. bin[r] # "none" /\ UNCHANGED <<bin, signaling, promise>>
        BY <1>3, <3>1 DEF SetOffer, Handling, Good, HandlerInv
      <4>a. bin[r] # "released"
        BY <2>b, <3>1 DEF Good, QueueInv
      <4>2. CASE tasks'[q] = tasks[q]
        BY <3>1, <4>1, <4>2 DEF Good, QueueInv
      <4>3. CASE q = r /\ tasks'[q] = Append(tasks[r], "set-remote")
        BY <2>b, <2>c, <2>d, <4>1, <4>a, <4>3 DEF QueueInv
      <4>4. tasks'[q] = tasks[q] \/ (q = r /\ tasks'[q] = Append(tasks[r], "set-remote"))
        BY <1>0, <1>3 DEF SetOffer, TypeOK
      <4> QED
        BY <4>2, <4>3, <4>4
    <3>3. HandlerInv(q)'
      BY <1>0, <1>3, <3>1, NoRequestAssumption DEF SetOffer, Good, HandlerInv, QueueInv, TypeOK
    <3>4. PromiseInv(q)'
      BY <1>0, <1>3, <3>1 DEF SetOffer, Good, HandlerInv, QueueInv, PromiseInv, TypeOK
    <3> QED
      BY <3>2, <3>3, <3>4 DEF Good
  <2> QED
    BY <2>1, <2>2 DEF Inv
<1>4. CASE EmitCreateAnswer(r)
  <2>a. tasks[r] \in Seq(Tasks) /\ "answer-http" \in Tasks
    BY <1>0 DEF TypeOK, Tasks
  <2>b. promise[r] = "none" /\ bin[r] # "none"
    BY <1>0, <1>4 DEF EmitCreateAnswer, Good, HandlerInv
  <2>c. /\ Append(tasks[r], "answer-http") \in Seq(Tasks)
        /\ \A t : Queued(Append(tasks[r], "answer-http"), t) => Queued(tasks[r], t) \/ t = "answer-http"
        /\ RemoteFirst(Append(tasks[r], "answer-http")) /\ HttpOnce(Append(tasks[r], "answer-http"))
    <3>1. RemoteFirst(tasks[r]) /\ HttpOnce(tasks[r]) /\ ~Queued(tasks[r], "answer-http")
      BY <1>0, <2>b DEF Good, QueueInv
    <3> QED
      BY <2>a, <3>1, QueuedAppend
  <2>1. TypeOK'
    BY <1>0, <1>4, <2>c DEF EmitCreateAnswer, TypeOK
  <2>2. ASSUME NEW q \in Requests PROVE Good(q)'
    <3>1. Good(q) /\ Good(r)
      BY <1>0
    <3>2. QueueInv(q)'
      <4>1. CASE q # r
        <5>1. UNCHANGED <<tasks[q], signaling[q], promise[q], bin[q]>>
          BY <1>0, <1>4, <4>1 DEF EmitCreateAnswer, TypeOK
        <5> QED
          BY <3>1, <5>1 DEF Good, QueueInv
      <4>2. CASE q = r
        <5>1. /\ UNCHANGED <<signaling[r], bin[r]>>
              /\ \/ /\ bin[r] = "playing" /\ promise'[r] = "pending"
                    /\ tasks'[r] = Append(tasks[r], "answer-http")
                 \/ bin[r] = "released" /\ promise'[r] = "expired" /\ tasks'[r] = tasks[r]
          BY <1>0, <1>4, <1>e, <2>b, <2>c DEF EmitCreateAnswer, TypeOK
        <5> QED
          BY <3>1, <1>e, <2>b, <2>c, <4>2, <5>1 DEF Good, QueueInv
      <4> QED
        BY <4>1, <4>2
    <3>3. HandlerInv(q)'
      BY <1>0, <1>4, <3>1, NoRequestAssumption, <2>b DEF EmitCreateAnswer, Good, HandlerInv, QueueInv, TypeOK
    <3>4. PromiseInv(q)'
      BY <1>0, <1>4, <3>1, <2>b DEF EmitCreateAnswer, Good, HandlerInv, QueueInv, PromiseInv, TypeOK
    <3> QED
      BY <3>2, <3>3, <3>4 DEF Good
  <2> QED
    BY <2>1, <2>2 DEF Inv
<1>5. CASE PromiseOver(r)
  <2>1. TypeOK'
    BY <1>0, <1>5 DEF PromiseOver, TypeOK
  <2>2. ASSUME NEW q \in Requests PROVE Good(q)'
    <3>1. Good(q) /\ Good(r)
      BY <1>0
    <3>2. QueueInv(q)'
      BY <1>0, <1>5, <3>1 DEF PromiseOver, Good, HandlerInv, QueueInv, TypeOK
    <3>3. HandlerInv(q)'
      BY <1>0, <1>5, <3>1, NoRequestAssumption DEF PromiseOver, Good, HandlerInv, QueueInv, TypeOK
    <3>4. PromiseInv(q)'
      BY <1>0, <1>5, <3>1 DEF PromiseOver, Good, HandlerInv, QueueInv, PromiseInv, TypeOK
    <3> QED
      BY <3>2, <3>3, <3>4 DEF Good
  <2> QED
    BY <2>1, <2>2 DEF Inv
<1>6. CASE UninitializedAnswer(r)
  <2>1. TypeOK'
    BY <1>0, <1>6 DEF UninitializedAnswer, TypeOK
  <2>2. ASSUME NEW q \in Requests PROVE Good(q)'
    <3>1. Good(q) /\ Good(r)
      BY <1>0
    <3>2. QueueInv(q)'
      BY <1>0, <1>6, <3>1 DEF UninitializedAnswer, Good, HandlerInv, QueueInv, TypeOK
    <3>3. HandlerInv(q)'
      BY <1>0, <1>6, <3>1, NoRequestAssumption DEF UninitializedAnswer, Good, HandlerInv, QueueInv, TypeOK
    <3>4. PromiseInv(q)'
      BY <1>0, <1>6, <3>1 DEF UninitializedAnswer, Good, HandlerInv, QueueInv, PromiseInv, TypeOK
    <3> QED
      BY <3>2, <3>3, <3>4 DEF Good
  <2> QED
    BY <2>1, <2>2 DEF Inv
<1> QED
  BY <1>1, <1>2, <1>3, <1>4, <1>5, <1>6

\* One step keeps Inv: the steps of the threads of the webrtcbins.
LEMMA BinStep ==
    ASSUME Inv, NEW r \in Requests,
           \/ SetRemote(r) \/ AnswerForHttp(r) \/ AnswerForLocal(r) \/ SetLocal(r)
           \/ Connects(r) \/ ConnectionFails(r)
    PROVE  Inv'
<1>0. TypeOK /\ \A q \in Requests : Good(q)
  BY DEF Inv
<1>e. (\A t : ~Queued(<<>>, t)) /\ RemoteFirst(<<>>) /\ HttpOnce(<<>>) /\ <<>> \in Seq(Tasks)
  BY DEF Queued, RemoteFirst, HttpOnce
<1>d. DEFINE rest == Tail(tasks[r])
<1>t. ASSUME tasks[r] # <<>>
      PROVE  /\ rest \in Seq(Tasks)
             /\ \A t : Queued(rest, t) => Queued(tasks[r], t)
             /\ RemoteFirst(rest) /\ HttpOnce(rest)
             /\ ~Queued(rest, "set-remote")
             /\ Queued(tasks[r], Head(tasks[r]))
             /\ Head(tasks[r]) # "set-remote" => ~Queued(tasks[r], "set-remote")
             /\ Head(tasks[r]) = "answer-http" => ~Queued(rest, "answer-http")
  <2>1. tasks[r] \in Seq(Tasks) /\ RemoteFirst(tasks[r]) /\ HttpOnce(tasks[r])
    BY <1>0 DEF TypeOK, Good, QueueInv
  <2> QED
    BY <1>t, <2>1, QueuedTail
<1>p. ASSUME tasks[r] # <<>>, NEW x \in {"answer-local", "set-local"}
      PROVE  /\ Append(rest, x) \in Seq(Tasks)
             /\ \A t : Queued(Append(rest, x), t) => Queued(tasks[r], t) \/ t = x
             /\ RemoteFirst(Append(rest, x)) /\ HttpOnce(Append(rest, x))
             /\ ~Queued(Append(rest, x), "set-remote")
  <2>1. /\ rest \in Seq(Tasks) /\ ~Queued(rest, "set-remote")
        /\ RemoteFirst(rest) /\ HttpOnce(rest)
        /\ \A t : Queued(rest, t) => Queued(tasks[r], t)
    BY <1>p, <1>t
  <2>2. x \in Tasks /\ x # "set-remote" /\ x # "answer-http"
    BY <1>p DEF Tasks
  <2> QED
    BY <2>1, <2>2, QueuedAppend
<1> HIDE DEF rest
<1> USE DEF Runs, Up
<1>1. CASE SetRemote(r)
  <2>a. tasks[r] # <<>> /\ Head(tasks[r]) = "set-remote" /\ bin[r] = "playing"
    BY <1>1 DEF SetRemote
  <2>c. /\ Append(rest, "answer-local") \in Seq(Tasks)
        /\ \A t : Queued(Append(rest, "answer-local"), t) => Queued(tasks[r], t) \/ t = "answer-local"
        /\ RemoteFirst(Append(rest, "answer-local")) /\ HttpOnce(Append(rest, "answer-local"))
        /\ ~Queued(Append(rest, "answer-local"), "set-remote")
        /\ Queued(tasks[r], "set-remote")
    BY <1>t, <1>p, <2>a
  <2>d. tasks' = [tasks EXCEPT ![r] = Append(rest, "answer-local")]
    BY <1>1 DEF SetRemote, rest
  <2>1. TypeOK'
    BY <1>0, <1>1, <2>a, <2>c, <2>d DEF SetRemote, TypeOK
  <2>2. ASSUME NEW q \in Requests PROVE Good(q)'
    <3>1. Good(q) /\ Good(r)
      BY <1>0
    <3>2. QueueInv(q)'
      <4>1. CASE q # r
        <5>1. UNCHANGED <<tasks[q], signaling[q], promise[q], bin[q]>>
          BY <1>0, <1>1, <4>1 DEF SetRemote, TypeOK
        <5> QED
          BY <3>1, <5>1 DEF Good, QueueInv
      <4>2. CASE q = r
        <5>1. /\ UNCHANGED <<promise[r], bin[r]>>
              /\ signaling'[r] \in {"initial", "have-remote-offer"}
              /\ tasks'[r] = Append(rest, "answer-local")
          BY <1>0, <1>1, <2>a, <2>c, <2>d DEF SetRemote, TypeOK
        <5> QED
          BY <3>1, <2>a, <2>c, <2>d, <4>2, <5>1 DEF Good, QueueInv
      <4> QED
        BY <4>1, <4>2
    <3>3. HandlerInv(q)'
      BY <1>0, <1>1, <3>1, <2>a, <2>c, <2>d DEF SetRemote, Good, HandlerInv, QueueInv, TypeOK
    <3>4. PromiseInv(q)'
      BY <1>0, <1>1, <3>1, <2>a, <2>c, <2>d DEF SetRemote, Good, QueueInv, PromiseInv, TypeOK
    <3> QED
      BY <3>2, <3>3, <3>4 DEF Good
  <2> QED
    BY <2>1, <2>2 DEF Inv
<1>2. CASE AnswerForHttp(r)
  <2>a. tasks[r] # <<>> /\ Head(tasks[r]) = "answer-http" /\ bin[r] = "playing"
    BY <1>2 DEF AnswerForHttp
  <2>c. /\ rest \in Seq(Tasks) /\ ~Queued(rest, "set-remote")
        /\ RemoteFirst(rest) /\ HttpOnce(rest)
        /\ \A t : Queued(rest, t) => Queued(tasks[r], t)
        /\ Queued(tasks[r], "answer-http") /\ ~Queued(rest, "answer-http")
        /\ ~Queued(tasks[r], "set-remote")
    BY <1>t, <2>a
  <2>d. tasks' = [tasks EXCEPT ![r] = rest]
    BY <1>2 DEF AnswerForHttp, rest
  <2>1. TypeOK'
    BY <1>0, <1>2, <2>a, <2>c, <2>d DEF AnswerForHttp, TypeOK, CanAnswer
  <2>2. ASSUME NEW q \in Requests PROVE Good(q)'
    <3>1. Good(q) /\ Good(r)
      BY <1>0
    <3>2. QueueInv(q)'
      <4>1. CASE q # r
        <5>1. UNCHANGED <<tasks[q], signaling[q], promise[q], bin[q]>>
          BY <1>0, <1>2, <4>1 DEF AnswerForHttp, TypeOK
        <5> QED
          BY <3>1, <5>1 DEF Good, QueueInv
      <4>2. CASE q = r
        <5>1. /\ UNCHANGED <<signaling[r], bin[r]>>
              /\ promise'[r] \in {"answer", "error"}
              /\ tasks'[r] = rest
          BY <1>0, <1>2, <2>a, <2>c, <2>d DEF AnswerForHttp, TypeOK
        <5> QED
          BY <3>1, <2>a, <2>c, <2>d, <4>2, <5>1 DEF Good, QueueInv
      <4> QED
        BY <4>1, <4>2
    <3>3. HandlerInv(q)'
      BY <1>0, <1>2, <3>1, <2>a, <2>c, <2>d DEF AnswerForHttp, Good, HandlerInv, QueueInv, TypeOK, CanAnswer
    <3>4. PromiseInv(q)'
      BY <1>0, <1>2, <3>1, <2>a, <2>c, <2>d DEF AnswerForHttp, Good, QueueInv, PromiseInv, TypeOK, CanAnswer
    <3> QED
      BY <3>2, <3>3, <3>4 DEF Good
  <2> QED
    BY <2>1, <2>2 DEF Inv
<1>3. CASE AnswerForLocal(r)
  <2>a. tasks[r] # <<>> /\ Head(tasks[r]) = "answer-local" /\ bin[r] = "playing"
    BY <1>3 DEF AnswerForLocal
  <2>c. /\ rest \in Seq(Tasks) /\ ~Queued(rest, "set-remote")
        /\ RemoteFirst(rest) /\ HttpOnce(rest)
        /\ \A t : Queued(rest, t) => Queued(tasks[r], t)
    BY <1>t, <2>a
  <2>d. /\ Append(rest, "set-local") \in Seq(Tasks)
        /\ \A t : Queued(Append(rest, "set-local"), t) => Queued(tasks[r], t) \/ t = "set-local"
        /\ RemoteFirst(Append(rest, "set-local")) /\ HttpOnce(Append(rest, "set-local"))
        /\ ~Queued(Append(rest, "set-local"), "set-remote")
    BY <1>p, <2>a
  <2>e. \/ CanAnswer(r) /\ tasks' = [tasks EXCEPT ![r] = Append(rest, "set-local")]
        \/ ~CanAnswer(r) /\ tasks' = [tasks EXCEPT ![r] = rest]
    BY <1>3 DEF AnswerForLocal, rest
  <2>1. TypeOK'
    BY <1>0, <1>3, <2>a, <2>c, <2>d, <2>e DEF AnswerForLocal, TypeOK, CanAnswer
  <2>2. ASSUME NEW q \in Requests PROVE Good(q)'
    <3>1. Good(q) /\ Good(r)
      BY <1>0
    <3>2. QueueInv(q)'
      <4>1. CASE q # r
        <5>1. UNCHANGED <<tasks[q], signaling[q], promise[q], bin[q]>>
          BY <1>0, <1>3, <4>1 DEF AnswerForLocal, TypeOK
        <5> QED
          BY <3>1, <5>1 DEF Good, QueueInv
      <4>2. CASE q = r
        <5>1. /\ UNCHANGED <<signaling[r], promise[r], bin[r]>>
              /\ \/ CanAnswer(r) /\ tasks'[r] = Append(rest, "set-local")
                 \/ tasks'[r] = rest
          BY <1>0, <1>3, <2>a, <2>c, <2>d, <2>e DEF AnswerForLocal, TypeOK
        <5> QED
          BY <3>1, <2>a, <2>c, <2>d, <2>e, <4>2, <5>1 DEF Good, QueueInv, CanAnswer
      <4> QED
        BY <4>1, <4>2
    <3>3. HandlerInv(q)'
      BY <1>0, <1>3, <3>1, <2>a, <2>c, <2>d, <2>e DEF AnswerForLocal, Good, HandlerInv, QueueInv, TypeOK, CanAnswer
    <3>4. PromiseInv(q)'
      BY <1>0, <1>3, <3>1, <2>a, <2>c, <2>d, <2>e DEF AnswerForLocal, Good, QueueInv, PromiseInv, TypeOK, CanAnswer
    <3> QED
      BY <3>2, <3>3, <3>4 DEF Good
  <2> QED
    BY <2>1, <2>2 DEF Inv
<1>4. CASE SetLocal(r)
  <2>a. tasks[r] # <<>> /\ Head(tasks[r]) = "set-local" /\ bin[r] = "playing"
    BY <1>4 DEF SetLocal
  <2>c. /\ rest \in Seq(Tasks) /\ ~Queued(rest, "set-remote")
        /\ RemoteFirst(rest) /\ HttpOnce(rest)
        /\ \A t : Queued(rest, t) => Queued(tasks[r], t)
        /\ Queued(tasks[r], "set-local") /\ ~Queued(tasks[r], "set-remote")
    BY <1>t, <2>a
  <2>d. tasks' = [tasks EXCEPT ![r] = rest]
    BY <1>4 DEF SetLocal, rest
  <2>1. TypeOK'
    BY <1>0, <1>4, <2>a, <2>c, <2>d DEF SetLocal, TypeOK
  <2>2. ASSUME NEW q \in Requests PROVE Good(q)'
    <3>1. Good(q) /\ Good(r)
      BY <1>0
    <3>2. QueueInv(q)'
      <4>1. CASE q # r
        <5>1. UNCHANGED <<tasks[q], signaling[q], promise[q], bin[q]>>
          BY <1>0, <1>4, <4>1 DEF SetLocal, TypeOK
        <5> QED
          BY <3>1, <5>1 DEF Good, QueueInv
      <4>2. CASE q = r
        <5>1. /\ UNCHANGED <<promise[r], bin[r]>> /\ signaling'[r] = "stable"
              /\ tasks'[r] = rest
          BY <1>0, <1>4, <2>a, <2>c, <2>d DEF SetLocal, TypeOK
        <5> QED
          BY <3>1, <2>a, <2>c, <2>d, <4>2, <5>1 DEF Good, QueueInv
      <4> QED
        BY <4>1, <4>2
    <3>3. HandlerInv(q)'
      BY <1>0, <1>4, <3>1, <2>a, <2>c, <2>d DEF SetLocal, Good, HandlerInv, QueueInv, TypeOK
    <3>4. PromiseInv(q)'
      BY <1>0, <1>4, <3>1, <2>a, <2>c, <2>d DEF SetLocal, Good, QueueInv, PromiseInv, TypeOK
    <3> QED
      BY <3>2, <3>3, <3>4 DEF Good
  <2> QED
    BY <2>1, <2>2 DEF Inv
<1>5. CASE Connects(r)
  <2>1. TypeOK'
    BY <1>0, <1>5 DEF Connects, TypeOK
  <2>2. ASSUME NEW q \in Requests PROVE Good(q)'
    <3>1. Good(q) /\ Good(r)
      BY <1>0
    <3>2. QueueInv(q)'
      BY <1>0, <1>5, <3>1 DEF Connects, Good, QueueInv, TypeOK
    <3>3. HandlerInv(q)'
      BY <1>0, <1>5, <3>1 DEF Connects, Good, HandlerInv, QueueInv, TypeOK
    <3>4. PromiseInv(q)'
      BY <1>0, <1>5, <3>1 DEF Connects, Good, QueueInv, PromiseInv, TypeOK
    <3> QED
      BY <3>2, <3>3, <3>4 DEF Good
  <2> QED
    BY <2>1, <2>2 DEF Inv
<1>6. CASE ConnectionFails(r)
  <2>1. TypeOK'
    BY <1>0, <1>6, <1>e DEF ConnectionFails, TypeOK
  <2>2. ASSUME NEW q \in Requests PROVE Good(q)'
    <3>1. Good(q) /\ Good(r)
      BY <1>0
    <3>2. QueueInv(q)'
      BY <1>0, <1>6, <3>1, <1>e DEF ConnectionFails, Good, QueueInv, TypeOK
    <3>3. HandlerInv(q)'
      BY <1>0, <1>6, <3>1, <1>e DEF ConnectionFails, Good, HandlerInv, QueueInv, TypeOK
    <3>4. PromiseInv(q)'
      BY <1>0, <1>6, <3>1, <1>e DEF ConnectionFails, Good, QueueInv, PromiseInv, TypeOK
    <3> QED
      BY <3>2, <3>3, <3>4 DEF Good
  <2> QED
    BY <2>1, <2>2 DEF Inv
<1> QED
  BY <1>1, <1>2, <1>3, <1>4, <1>5, <1>6

\* Every step keeps Inv.
LEMMA InvStep == Inv /\ [Next]_vars => Inv'
<1> SUFFICES ASSUME Inv, [Next]_vars PROVE Inv'
  OBVIOUS
<1>1. CASE UNCHANGED vars
  BY <1>1 DEF vars, Inv, TypeOK, Good, HandlerInv, QueueInv, PromiseInv
<1>2. CASE Next
  BY <1>2, HttpStep, BinStep DEF Next
<1> QED
  BY <1>1, <1>2

--------------------------------------------------------------------------------
(* The theorems.                                                            *)

\* The reply the handler sends is about the offer the webrtcbin has: an answer of
\* its own only if it was accepted, and an error or leftover memory in spite of
\* that only if the second create-answer has overtaken the handler's own.
THEOREM RepliesMatch == Spec => []ReplyMatchesOffer
<1>1. Inv => ReplyMatchesOffer
  BY DEF Inv, TypeOK, Good, QueueInv, PromiseInv, ReplyMatchesOffer
<1> QED
  BY <1>1, InvInit, InvStep, PTL DEF Spec

\* The abstract state.
Statuses == [r \in Requests |-> Status(r)]

\* Every step of the server is a step of the abstract service, or none of it.
LEMMA OfferAnswerSimulation == Inv /\ [Next]_vars => [OA!Next]_(OA!vars)
<1> SUFFICES ASSUME Inv, [Next]_vars PROVE [OA!Next]_(OA!vars)
  OBVIOUS
<1>0. TypeOK /\ \A r \in Requests : HandlerInv(r)
  BY DEF Inv, Good
<1>a. ASSUME UNCHANGED <<req, reply>> PROVE UNCHANGED Statuses
  BY <1>a DEF Statuses, Status
<1>b. ASSUME UNCHANGED <<req, reply>>, Up, ~Up' PROVE OA!Down
  <2>1. Up' = FALSE
    BY <1>b DEF Up
  <2> QED
    BY <1>a, <1>b, <2>1 DEF OA!Down, Statuses
<1>c. ASSUME NEW r \in Requests, NEW what \in {"answer", "stale", "error"}, Send(r, what), req \in {r, NoRequest}
      PROVE  Statuses' = [Statuses EXCEPT ![r] = IF what = "error" THEN "refused" ELSE "answered"]
  <2>1. ASSUME NEW q \in Requests, q # r PROVE Status(q)' = Status(q)
    <3>1. reply'[q] = reply[q] /\ req # q /\ req' # q
      BY <1>0, <1>c, <2>1, NoRequestAssumption DEF Send, TypeOK
    <3> QED
      BY <3>1 DEF Status
  <2>2. reply'[r] = what /\ req' # r
    BY <1>0, <1>c, NoRequestAssumption DEF Send, TypeOK
  <2>3. Status(r)' = IF what = "error" THEN "refused" ELSE "answered"
    <3>1. CASE what \in {"answer", "stale"}
      BY <2>2, <3>1 DEF Status
    <3>2. CASE what = "error"
      BY <2>2, <3>2 DEF Status
    <3> QED
      BY <1>c, <3>1, <3>2
  <2> QED
    BY <2>1, <2>3 DEF Statuses
<1>d. ASSUME NEW r \in Requests, reply[r] = "none"
      PROVE  Statuses[r] = IF req = r THEN "open" ELSE "idle"
  BY <1>d DEF Statuses, Status
<1>e. ASSUME UNCHANGED status PROVE Up' = Up
  BY <1>e DEF Up
<1>f. ASSUME Up, UNCHANGED status PROVE Up = TRUE /\ Up' = TRUE
  BY <1>f DEF Up
<1>1. ASSUME NEW r \in Requests, OnHttpRequest(r) PROVE OA!Next
  <2>1. Up /\ req = NoRequest /\ reply[r] = "none" /\ UNCHANGED status
    BY <1>1 DEF OnHttpRequest, Handling
  <2>2. Statuses[r] = "idle"
    BY <1>d, <2>1, NoRequestAssumption
  <2>3. CASE Send(r, "error")
    <3>1. Statuses' = [Statuses EXCEPT ![r] = "refused"]
      BY <1>c, <2>1, <2>3
    <3>2. OA!Refuse(r)
      BY <1>f, <2>1, <2>2, <3>1 DEF OA!Refuse, Statuses
    <3> QED
      BY <3>2 DEF OA!Next
  <2>4. CASE req' = r /\ UNCHANGED reply
    <3>1. ASSUME NEW q \in Requests, q # r PROVE Status(q)' = Status(q)
      BY <2>1, <2>4, <3>1, NoRequestAssumption DEF Status
    <3>2. Status(r)' = "open"
      BY <2>1, <2>4 DEF Status
    <3>3. Statuses' = [Statuses EXCEPT ![r] = "open"]
      BY <3>1, <3>2 DEF Statuses
    <3>4. \A q \in Requests : Statuses[q] # "open"
      BY <2>1, NoRequestAssumption DEF Statuses, Status
    <3>5. OA!Open = {}
      BY <3>4 DEF OA!Open, Statuses
    <3>6. OA!Cardinality({}) = Cardinality({})
      BY DEF OA!Cardinality, Cardinality, OA!IsFiniteSet, IsFiniteSet
    <3>7. OA!Cardinality(OA!Open) < 1
      BY <3>5, <3>6, FS_EmptySet
    <3>8. OA!Accept(r)
      BY <1>f, <2>1, <2>2, <3>3, <3>7 DEF OA!Accept, Statuses
    <3> QED
      BY <3>8 DEF OA!Next
  <2> QED
    BY <1>1, <2>3, <2>4 DEF OnHttpRequest
<1>2. ASSUME NEW r \in Requests, NEW what \in {"answer", "stale", "error"}, Send(r, what),
             Up, req = r, UNCHANGED status
      PROVE  OA!Next
  <2>1. Statuses[r] = "open"
    BY <1>0, <1>2, <1>d DEF HandlerInv
  <2>2. Statuses' = [Statuses EXCEPT ![r] = IF what = "error" THEN "refused" ELSE "answered"]
    BY <1>2, <1>c
  <2>3. CASE what \in {"answer", "stale"}
    <3>1. OA!Answer(r)
      BY <1>2, <1>f, <2>1, <2>2, <2>3 DEF OA!Answer, Statuses
    <3> QED
      BY <3>1 DEF OA!Next
  <2>4. CASE what = "error"
    <3>1. OA!Refuse(r)
      BY <1>2, <1>f, <2>1, <2>2, <2>4 DEF OA!Refuse, Statuses
    <3> QED
      BY <3>1 DEF OA!Next
  <2> QED
    BY <2>3, <2>4
<1>3. ASSUME UNCHANGED <<req, reply, status>> PROVE UNCHANGED OA!vars
  BY <1>a, <1>e, <1>3 DEF OA!vars, Statuses
<1>4. ASSUME NEW r \in Requests, CreateWebrtc(r) PROVE [OA!Next]_(OA!vars)
  <2>1. Up /\ req = r /\ UNCHANGED status
    BY <1>4 DEF CreateWebrtc, Handling
  <2>2. Send(r, "error") \/ UNCHANGED <<req, reply>>
    BY <1>4 DEF CreateWebrtc
  <2> QED
    BY <1>2, <1>3, <2>1, <2>2
<1>5. ASSUME NEW r \in Requests, PromiseOver(r) PROVE OA!Next
  BY <1>2, <1>5 DEF PromiseOver, Handling
<1>6. ASSUME NEW r \in Requests, UninitializedAnswer(r) PROVE OA!Next
  <2>1. Up /\ req = r
    BY <1>6 DEF UninitializedAnswer, Handling
  <2>2. CASE (Send(r, "error") \/ Send(r, "stale")) /\ UNCHANGED status
    BY <1>2, <2>1, <2>2
  <2>3. CASE status' = "crash" /\ UNCHANGED <<req, reply>>
    BY <1>b, <2>1, <2>3 DEF Up, OA!Next
  <2> QED
    BY <1>6, <2>2, <2>3 DEF UninitializedAnswer
<1>7. ASSUME NEW r \in Requests, SetOffer(r) \/ AnswerForLocal(r) PROVE [OA!Next]_(OA!vars)
  <2>1. Up /\ UNCHANGED <<req, reply>>
    BY <1>7 DEF SetOffer, AnswerForLocal, Handling, Runs
  <2>2. UNCHANGED status \/ ~Up'
    BY <1>7 DEF SetOffer, AnswerForLocal, Handling, Runs, Up
  <2>3. CASE UNCHANGED status
    BY <1>3, <2>1, <2>3
  <2>4. CASE ~Up'
    BY <1>b, <2>1, <2>4 DEF OA!Next
  <2> QED
    BY <2>2, <2>3, <2>4
<1>8. ASSUME NEW r \in Requests,
             \/ EmitCreateAnswer(r) \/ SetRemote(r) \/ AnswerForHttp(r) \/ SetLocal(r)
             \/ Connects(r) \/ ConnectionFails(r)
      PROVE  UNCHANGED OA!vars
  BY <1>3, <1>8 DEF EmitCreateAnswer, SetRemote, AnswerForHttp, SetLocal, Connects, ConnectionFails
<1>9. CASE UNCHANGED vars
  BY <1>3, <1>9 DEF vars
<1> QED
  BY <1>1, <1>4, <1>5, <1>6, <1>7, <1>8, <1>9 DEF Next

\* One request at a time, each replied to at most once, by a running server.
THEOREM OfferAnswerImplemented == Spec => ImplementsOfferAnswer
<1>1. Init => OA!Init
  <2> SUFFICES ASSUME Init PROVE OA!Init
    OBVIOUS
  <2>1. Up = TRUE
    BY DEF Init, Up
  <2>2. \A r \in Requests : Status(r) = "idle"
    BY NoRequestAssumption DEF Init, Status
  <2> QED
    BY <2>1, <2>2 DEF OA!Init
<1> QED
  BY <1>1, InvInit, InvStep, OfferAnswerSimulation, PTL DEF Spec, ImplementsOfferAnswer, OA!Spec

--------------------------------------------------------------------------------
(* aiortc: every connection that leaves pcs is closed.                      *)

\* Discard and on_shutdown between them leave no connection unclosed, except
\* one that was added while on_shutdown was closing the others.  The invariant is
\* inductive as it stands.
THEOREM DroppedAreClosed == AiortcSpec => []DroppedIsClosed
<1>1. AiortcInit => DroppedIsClosed
  BY DEF AiortcInit, DroppedIsClosed, AiortcTypeOK, Added
<1>2. DroppedIsClosed /\ [AiortcNext]_aiortcVars => DroppedIsClosed'
  <2> SUFFICES ASSUME DroppedIsClosed, [AiortcNext]_aiortcVars PROVE DroppedIsClosed'
    OBVIOUS
  <2> USE DEF DroppedIsClosed, AiortcTypeOK, Added, OnLoop
  <2>1. ASSUME NEW p \in Peers, Accept(p) \/ BadBody(p) \/ RemoteSet(p) \/ Reply(p) \/ Raises(p)
        PROVE  DroppedIsClosed'
    BY <2>1 DEF Accept, BadBody, RemoteSet, Reply, Raises, Step
  <2>2. ASSUME NEW p \in Peers, AddPeer(p) PROVE DroppedIsClosed'
    BY <2>2 DEF AddPeer, Step
  <2>3. ASSUME NEW p \in Peers, PeerConnects(p) \/ Fails(p) \/ CloseFailed(p) \/ CloseRaises(p)
        PROVE  DroppedIsClosed'
    BY <2>3 DEF PeerConnects, Fails, CloseFailed, CloseRaises
  <2>4. ASSUME NEW p \in Peers, Discard(p) PROVE DroppedIsClosed'
    BY <2>4 DEF Discard
  <2>5. ASSUME NEW p \in Peers, CloseGathered(p) PROVE DroppedIsClosed'
    BY <2>5 DEF CloseGathered
  <2>6. CASE Shutdown
    BY <2>6 DEF Shutdown
  <2>7. CASE GatherRaises
    BY <2>7 DEF GatherRaises
  <2>8. CASE Clear \/ LoopCloses
    BY <2>8 DEF Clear, LoopCloses
  <2>9. CASE UNCHANGED aiortcVars
    BY <2>9 DEF aiortcVars
  <2> QED
    BY <2>1, <2>2, <2>3, <2>4, <2>5, <2>6, <2>7, <2>8, <2>9 DEF AiortcNext
<1> QED
  BY <1>1, <1>2, PTL DEF AiortcSpec

--------------------------------------------------------------------------------
(* pcs as a peer registry.                                                  *)

\* Until the shutdown pcs is emptied and closed grows by the ICE handler alone.
RegistryOf(p) ==
    /\ p \in closed <=> ice[p] = "done"
    /\ p \in Added => (p \in pcs <=> ice[p] # "done")
    /\ p \notin Added => p \notin pcs /\ ice[p] = "new"

RegistryInv == AiortcTypeOK /\ (shutdown = "no" => \A p \in Peers : RegistryOf(p))

\* One step keeps RegistryInv.
LEMMA RegistryStep == RegistryInv /\ [AiortcNext]_aiortcVars => RegistryInv'
<1> SUFFICES ASSUME RegistryInv, [AiortcNext]_aiortcVars PROVE RegistryInv'
  OBVIOUS
<1> USE DEF RegistryInv, AiortcTypeOK, RegistryOf, Added, OnLoop
<1>1. ASSUME NEW p \in Peers, Accept(p) \/ BadBody(p) \/ RemoteSet(p) \/ Reply(p)
      PROVE  RegistryInv'
  BY <1>1 DEF Accept, BadBody, RemoteSet, Reply, Step
<1>2. ASSUME NEW p \in Peers, Raises(p) PROVE RegistryInv'
  BY <1>2 DEF Raises, Step
<1>3. ASSUME NEW p \in Peers, AddPeer(p) PROVE RegistryInv'
  BY <1>3 DEF AddPeer, Step
<1>4. ASSUME NEW p \in Peers, PeerConnects(p) \/ Fails(p) \/ CloseFailed(p) \/ CloseRaises(p)
      PROVE  RegistryInv'
  BY <1>4 DEF PeerConnects, Fails, CloseFailed, CloseRaises
<1>5. ASSUME NEW p \in Peers, Discard(p) PROVE RegistryInv'
  BY <1>5 DEF Discard
<1>6. ASSUME NEW p \in Peers, CloseGathered(p) PROVE RegistryInv'
  BY <1>6 DEF CloseGathered
<1>7. CASE Shutdown \/ GatherRaises \/ Clear \/ LoopCloses
  BY <1>7 DEF Shutdown, GatherRaises, Clear, LoopCloses
<1>8. CASE UNCHANGED aiortcVars
  BY <1>8 DEF aiortcVars
<1> QED
  BY <1>1, <1>2, <1>3, <1>4, <1>5, <1>6, <1>7, <1>8 DEF AiortcNext

\* The abstract state of every peer.
PeerStates == [p \in Peers |-> PeerState(p)]

\* Before the shutdown a step is one of the abstract registry, or none of it.
LEMMA RegistrySimulation ==
    RegistryInv /\ shutdown = "no" /\ [AiortcNext]_aiortcVars => PR!Next \/ UNCHANGED PR!vars
<1> SUFFICES ASSUME RegistryInv, shutdown = "no", [AiortcNext]_aiortcVars PROVE PR!Next \/ UNCHANGED PR!vars
  OBVIOUS
<1> USE DEF RegistryInv, AiortcTypeOK, RegistryOf, Added, OnLoop
<1>a. ASSUME \A p \in Peers : PeerState(p)' = PeerState(p), UNCHANGED shutdown
      PROVE  UNCHANGED PR!vars
  BY <1>a DEF PR!vars
<1>b. ASSUME NEW p \in Peers, NEW from, NEW to,
             PeerState(p) = from, PeerState(p)' = to,
             \A q \in Peers \ {p} : PeerState(q)' = PeerState(q), UNCHANGED shutdown
      PROVE  PR!Move(p, from, to)
  <2>1. PeerStates' = [PeerStates EXCEPT ![p] = to]
    BY <1>b DEF PeerStates
  <2> QED
    BY <1>b, <2>1 DEF PR!Move, PeerStates
<1>1. ASSUME NEW p \in Peers, Accept(p) \/ BadBody(p) \/ RemoteSet(p) \/ Reply(p) \/ Raises(p)
      PROVE  UNCHANGED PR!vars
  <2>1. UNCHANGED shutdown /\ \A q \in Peers : PeerState(q)' = PeerState(q)
    BY <1>1 DEF Accept, BadBody, RemoteSet, Reply, Raises, Step, PeerState
  <2> QED
    BY <2>1, <1>a
<1>2. ASSUME NEW p \in Peers, AddPeer(p) PROVE PR!Next
  <2>1. PeerState(p) = "absent" /\ PeerState(p)' = "listed" /\ UNCHANGED shutdown
    BY <1>2 DEF AddPeer, Step, PeerState
  <2>2. \A q \in Peers \ {p} : PeerState(q)' = PeerState(q)
    BY <1>2 DEF AddPeer, Step, PeerState
  <2>3. PR!List(p)
    BY <1>b, <2>1, <2>2 DEF PR!List
  <2> QED
    BY <2>3 DEF PR!Next
<1>3. ASSUME NEW p \in Peers, Fails(p) PROVE PR!Next
  <2>1. PeerState(p) = "listed" /\ PeerState(p)' = "failed" /\ UNCHANGED shutdown
    BY <1>3 DEF Fails, PeerState
  <2>2. \A q \in Peers \ {p} : PeerState(q)' = PeerState(q)
    BY <1>3 DEF Fails, PeerState
  <2>3. PR!Fail(p)
    BY <1>b, <2>1, <2>2 DEF PR!Fail
  <2> QED
    BY <2>3 DEF PR!Next
<1>4. ASSUME NEW p \in Peers, PeerConnects(p) \/ CloseFailed(p) \/ CloseRaises(p)
      PROVE  UNCHANGED PR!vars
  <2>1. UNCHANGED shutdown /\ \A q \in Peers : PeerState(q)' = PeerState(q)
    BY <1>4 DEF PeerConnects, CloseFailed, CloseRaises, PeerState
  <2> QED
    BY <2>1, <1>a
<1>5. ASSUME NEW p \in Peers, Discard(p) PROVE PR!Next
  <2>1. PeerState(p) = "failed" /\ PeerState(p)' = "released" /\ UNCHANGED shutdown
    BY <1>5 DEF Discard, PeerState
  <2>2. \A q \in Peers \ {p} : PeerState(q)' = PeerState(q)
    BY <1>5 DEF Discard, PeerState
  <2>3. PR!Release(p)
    BY <1>b, <2>1, <2>2 DEF PR!Release
  <2> QED
    BY <2>3 DEF PR!Next
<1>6. CASE Shutdown
  <2>1. shutdown' # "no" /\ \A q \in Peers : PeerState(q)' = PeerState(q)
    BY <1>6 DEF Shutdown, PeerState
  <2>2. PR!Down
    BY <2>1 DEF PR!Down
  <2> QED
    BY <2>2 DEF PR!Next
<1>7. ~GatherRaises /\ ~Clear /\ ~LoopCloses /\ \A p \in Peers : ~CloseGathered(p)
  BY DEF GatherRaises, Clear, LoopCloses, CloseGathered
<1>8. CASE UNCHANGED aiortcVars
  <2>1. UNCHANGED shutdown /\ \A q \in Peers : PeerState(q)' = PeerState(q)
    BY <1>8 DEF aiortcVars, PeerState
  <2> QED
    BY <2>1, <1>a
<1> QED
  BY <1>1, <1>2, <1>3, <1>4, <1>5, <1>6, <1>7, <1>8 DEF AiortcNext

\* Until the shutdown a connection leaves pcs only after it failed and its close()
\* has completed.
THEOREM RegistryImplemented == AiortcSpec => RegistryUntilShutdown
<1>1. AiortcInit => RegistryInv
  BY DEF AiortcInit, RegistryInv, AiortcTypeOK, RegistryOf, Added
<1>2. RegistryInv /\ [AiortcNext]_aiortcVars => [shutdown = "no" => PR!Next \/ UNCHANGED PR!vars]_aiortcVars
  BY RegistrySimulation
<1> QED
  BY <1>1, <1>2, RegistryStep, PTL DEF AiortcSpec, RegistryUntilShutdown

================================================================================
