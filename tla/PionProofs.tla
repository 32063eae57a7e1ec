------------------------------- MODULE PionProofs -------------------------------
(***************************************************************************)
(* Proofs about the pion server, for any set of peers: the list stays exact *)
(* under removal while ranging over it, and it is a peer registry.  And     *)
(* about the pion client, for any number of state changes: the result of a  *)
(* handler is written before main reads it.                                 *)
(***************************************************************************)
EXTENDS Integers, PionServer, PionClient, FiniteSetTheorems, SequenceTheorems, TLAPS

--------------------------------------------------------------------------------
(* Sequences without duplicates.                                            *)

\* No element occurs twice.
Distinct(s) == \A j, k \in DOMAIN s : s[j] = s[k] => j = k

Elements(s) == {s[k] : k \in DOMAIN s}

\* append adds one element at the end.
LEMMA AppendDistinct ==
    ASSUME NEW S, NEW s \in Seq(S), NEW p \in S, Distinct(s), p \notin Elements(s)
    PROVE  /\ Append(s, p) \in Seq(S)
           /\ Distinct(Append(s, p))
           /\ Elements(Append(s, p)) = Elements(s) \cup {p}
<1>1. Append(s, p) \in Seq(S) /\ DOMAIN Append(s, p) = 1 .. (Len(s) + 1)
  OBVIOUS
<1>2. DOMAIN s = 1 .. Len(s) /\ Len(s) \in Nat
  OBVIOUS
<1>3. \A k \in DOMAIN s : Append(s, p)[k] = s[k] /\ k \in DOMAIN Append(s, p)
  OBVIOUS
<1>4. Append(s, p)[Len(s) + 1] = p /\ Len(s) + 1 \in DOMAIN Append(s, p)
  OBVIOUS
<1>5. \A k \in DOMAIN Append(s, p) : k \in DOMAIN s \/ k = Len(s) + 1
  BY <1>1, <1>2
<1>6. Elements(Append(s, p)) = Elements(s) \cup {p}
  BY <1>3, <1>4, <1>5 DEF Elements
<1>7. Distinct(Append(s, p))
  BY <1>3, <1>4, <1>5 DEF Elements, Distinct
<1> QED
  BY <1>1, <1>6, <1>7

\* What append(pcs[:k], pcs[k+1:]...) holds at each index.
LEMMA WithoutAt ==
    ASSUME NEW S, NEW s \in Seq(S), NEW k \in 1 .. Len(s)
    PROVE  /\ Without(s, k) \in Seq(S)
           /\ Len(Without(s, k)) = Len(s) - 1
           /\ \A j \in 1 .. (Len(s) - 1) : Without(s, k)[j] = IF j < k THEN s[j] ELSE s[j + 1]
<1> DEFINE a == SubSeq(s, 1, k - 1)
           b == SubSeq(s, k + 1, Len(s))
<1>1. a \in Seq(S) /\ Len(a) = k - 1 /\ \A j \in 1 .. (k - 1) : a[j] = s[j]
  OBVIOUS
<1>2. b \in Seq(S) /\ Len(b) = Len(s) - k /\ \A j \in 1 .. (Len(s) - k) : b[j] = s[k + j]
  OBVIOUS
<1> HIDE DEF a, b
<1>3. a \o b \in Seq(S) /\ Len(a \o b) = Len(a) + Len(b)
  BY <1>1, <1>2, ConcatProperties, Zenon
<1>4. \A j \in 1 .. (Len(a) + Len(b)) : (a \o b)[j] = IF j <= Len(a) THEN a[j] ELSE b[j - Len(a)]
  BY <1>1, <1>2
<1>5. \A j \in 1 .. (Len(s) - 1) : (a \o b)[j] = IF j < k THEN s[j] ELSE s[j + 1]
  <2> TAKE j \in 1 .. (Len(s) - 1)
  <2>0. j < k \/ j >= k
    <3>1. Len(s) \in Nat /\ j \in Nat /\ k \in Nat
      OBVIOUS
    <3> QED
      BY <3>1
  <2>1. CASE j < k
    BY <1>1, <1>2, <1>4, <2>1
  <2>2. CASE j >= k
    <3>1. j - (k - 1) \in 1 .. (Len(s) - k) /\ k + (j - (k - 1)) = j + 1
      BY <2>2
    <3>2. (a \o b)[j] = b[j - (k - 1)]
      BY <1>1, <1>2, <1>4, <2>2
    <3> QED
      BY <1>2, <2>2, <3>1, <3>2
  <2> QED
    BY <2>0, <2>1, <2>2, Zenon
<1>6. Len(a \o b) = Len(s) - 1
  BY <1>1, <1>2, <1>3
<1>7. Without(s, k) = a \o b
  BY DEF Without, a, b
<1> QED
  BY <1>3, <1>5, <1>6, <1>7, Zenon

\* It takes out that element and no other.
LEMMA WithoutDistinct ==
    ASSUME NEW S, NEW s \in Seq(S), NEW k \in 1 .. Len(s), Distinct(s)
    PROVE  /\ Without(s, k) \in Seq(S)
           /\ Distinct(Without(s, k))
           /\ Elements(Without(s, k)) = Elements(s) \ {s[k]}
<1> DEFINE w == Without(s, k)
<1>1. w \in Seq(S) /\ DOMAIN w = 1 .. (Len(s) - 1)
  BY WithoutAt
<1>2. \A j \in DOMAIN w : w[j] = IF j < k THEN s[j] ELSE s[j + 1]
  BY <1>1, WithoutAt
<1>3. DOMAIN s = 1 .. Len(s) /\ Len(s) \in Nat
  OBVIOUS
<1> HIDE DEF w
<1>4. Distinct(w)
  BY <1>1, <1>2, <1>3 DEF Distinct
<1>5. ASSUME NEW x \in Elements(w) PROVE x \in Elements(s) \ {s[k]}
  BY <1>1, <1>2, <1>3 DEF Distinct, Elements
<1>6. ASSUME NEW x \in Elements(s) \ {s[k]} PROVE x \in Elements(w)
  <2>1. PICK j \in DOMAIN s : x = s[j]
    BY DEF Elements
  <2>2. CASE j < k
    BY <1>1, <1>2, <1>3, <2>1, <2>2 DEF Elements
  <2>3. CASE j > k
    <3>1. j - 1 \in DOMAIN w /\ w[j - 1] = s[j]
      BY <1>1, <1>2, <1>3, <2>3
    <3> QED
      BY <2>1, <3>1 DEF Elements
  <2> QED
    BY <1>3, <2>1, <2>2, <2>3
<1> QED
  BY <1>1, <1>4, <1>5, <1>6 DEF w

\* The length of such a sequence is the number of its elements.
LEMMA DistinctLength ==
    ASSUME NEW S, NEW s \in Seq(S), Distinct(s)
    PROVE  Len(s) = Cardinality(Elements(s))
<1>1. s \in Bijection(1 .. Len(s), Elements(s))
  BY DEF Bijection, Injection, Surjection, IsInjective, Distinct, Elements
<1> QED
  BY <1>1, FS_CountingElements DEF ExistsBijection

--------------------------------------------------------------------------------
(* The inductive invariant.                                                 *)

Made == {p \in Peers : offer[p] \in {"listed", "negotiated", "replied"}}

\* The list.
ListInv ==
    /\ TypeOK
    /\ Distinct(pcs)
    /\ Elements(pcs) = Made \ closed

\* The removal: the callback that holds pcsLock has its connection closed, or
\* still ahead of its index in an unchanged list; so the loop cannot end without
\* having found it.
RemovalInv ==
    /\ lock # NoPeer =>
        \/ lock \in closed
        \/ n = Len(pcs) /\ \E k \in i .. n : pcs[k] = lock
    /\ \A p \in Peers :
        /\ ice[p] # "new" => Negotiated(p)
        /\ ice[p] = "removing" <=> lock = p
        /\ ice[p] = "removed" => p \in closed
        /\ p \in closed => ice[p] \in {"removing", "removed"}

Inv == ListInv /\ RemovalInv

\* One step keeps Inv.
LEMMA InvStep == Inv /\ [Next]_vars => Inv'
<1> SUFFICES ASSUME Inv, [Next]_vars PROVE Inv'
  OBVIOUS
<1> USE NoPeerAssumption DEF Inv, ListInv, RemovalInv, TypeOK, Made, loop
<1>1. ASSUME NEW p \in Peers, Decode(p) \/ Negotiate(p) \/ WriteResponse(p) PROVE Inv'
  BY <1>1 DEF Decode, Negotiate, WriteResponse, Proceed, Negotiated
<1>2. ASSUME NEW p \in Peers, Append_(p) PROVE Inv'
  <2>1. p \notin closed /\ p \notin Elements(pcs) /\ lock = NoPeer /\ pcs' = Append(pcs, p)
    BY <1>2 DEF Append_, Negotiated
  <2>2. pcs' \in Seq(Peers) /\ Distinct(pcs') /\ Elements(pcs') = Elements(pcs) \cup {p}
    BY <2>1, AppendDistinct
  <2>3. Made' = Made \cup {p}
    BY <1>2 DEF Append_
  <2>4. ListInv'
    BY <1>2, <2>1, <2>2, <2>3 DEF Append_
  <2>5. RemovalInv'
    BY <1>2, <2>1 DEF Append_, Negotiated
  <2> QED
    BY <2>4, <2>5
<1>3. ASSUME NEW p \in Peers, Connect(p) \/ IceFails(p) PROVE Inv'
  BY <1>3 DEF Connect, IceFails, Negotiated
<1>4. ASSUME NEW p \in Peers, OnTrack(p) \/ EchoEnds(p) PROVE Inv'
  BY <1>4 DEF OnTrack, EchoEnds, Negotiated
<1>5. ASSUME NEW p \in Peers, StartRemoval(p) PROVE Inv'
  <2>1. p \in Elements(pcs)
    BY <1>5 DEF StartRemoval, Negotiated
  <2>2. \E k \in 1 .. Len(pcs) : pcs[k] = p
    BY <2>1 DEF Elements
  <2>3. ListInv'
    BY <1>5 DEF StartRemoval
  <2>4. RemovalInv'
    BY <1>5, <2>2 DEF StartRemoval, Negotiated
  <2> QED
    BY <2>3, <2>4
<1>6. CASE RemovalRound
  <2> USE <1>6 DEF RemovalRound
  <2>1. lock \in Peers /\ UNCHANGED <<offer, ice, lock, n, echo>> /\ Negotiated(lock)
    OBVIOUS
  <2>2. CASE UNCHANGED <<pcs, closed, i>> /\ status' \in {"panic", "fatal"}
    BY <2>1, <2>2 DEF Negotiated
  <2>3. CASE /\ i <= Len(pcs) /\ pcs[i] = lock
             /\ closed' = closed \cup {lock}
             /\ pcs' = Without(pcs, i)
             /\ i' = i + 1
             /\ UNCHANGED status
    <3>1. i \in 1 .. Len(pcs)
      BY <2>3
    <3>2. pcs' \in Seq(Peers) /\ Distinct(pcs') /\ Elements(pcs') = Elements(pcs) \ {lock}
      BY <2>3, <3>1, WithoutDistinct
    <3>3. ListInv'
      BY <2>1, <2>3, <3>2
    <3>4. RemovalInv'
      BY <2>1, <2>3 DEF Negotiated
    <3> QED
      BY <3>3, <3>4
  <2>4. CASE /\ i <= Len(pcs) /\ pcs[i] # lock
             /\ i' = i + 1
             /\ UNCHANGED <<status, pcs, closed>>
    <3>1. ListInv'
      BY <2>1, <2>4
    <3>2. lock \in closed \/ (n = Len(pcs) /\ \E k \in i' .. n : pcs[k] = lock)
      BY <2>1, <2>4
    <3>3. RemovalInv'
      BY <2>1, <2>4, <3>2 DEF Negotiated
    <3> QED
      BY <3>1, <3>3
  <2> QED
    BY <2>2, <2>3, <2>4
<1>7. CASE RemovalDone
  <2>1. lock \in Peers /\ lock \in closed
    BY <1>7 DEF RemovalDone
  <2> QED
    BY <1>7, <2>1 DEF RemovalDone, Negotiated
<1>8. CASE UNCHANGED vars
  BY <1>8 DEF vars, Negotiated
<1> QED
  BY <1>1, <1>2, <1>3, <1>4, <1>5, <1>6, <1>7, <1>8 DEF Next

\* It holds at the start.
LEMMA InvInit == Init => Inv
  BY NoPeerAssumption DEF Init, Inv, ListInv, RemovalInv, TypeOK, Made, Distinct, Elements, Negotiated

\* pcs is exact in every state: append while ranging over the slice drops
\* nothing else and leaves no duplicate, also on the way to the panic.
THEOREM ListExact == Spec => []ListMatches
<1>1. Inv => ListMatches
  <2> SUFFICES ASSUME Inv PROVE ListMatches
    OBVIOUS
  <2>1. Listed = Elements(pcs)
    BY DEF Listed, Elements
  <2>2. Len(pcs) = Cardinality(Elements(pcs))
    BY DistinctLength DEF Inv, ListInv, TypeOK
  <2> QED
    BY <2>1, <2>2 DEF Inv, ListInv, ListMatches, Made
<1> QED
  BY <1>1, InvInit, InvStep, PTL DEF Spec

--------------------------------------------------------------------------------
(* The peer registry.                                                       *)

\* The abstract state of every peer.
PeerStates == [p \in Peers |-> PeerState(p)]

\* Under Inv the abstract state depends on offer, ice and closed only.
StateOf(p) ==
    IF p \in closed THEN "released"
    ELSE IF offer[p] \in {"none", "decoded"} THEN "absent"
    ELSE IF ice[p] \in {"failed", "removing"} THEN "failed"
    ELSE "listed"

\* The list and the other variables agree on the abstract state.
LEMMA PeerStateIs == Inv => \A p \in Peers : PeerState(p) = StateOf(p)
<1> SUFFICES ASSUME Inv, NEW p \in Peers PROVE PeerState(p) = StateOf(p)
  OBVIOUS
<1>1. Listed = Made \ closed
  BY DEF Listed, Elements, Inv, ListInv
<1> QED
  BY <1>1 DEF PeerState, StateOf, Made, Inv, ListInv, RemovalInv, TypeOK, Negotiated

\* A step of the server is a step of the abstract registry, or none of it.
LEMMA RegistrySimulation == Inv /\ Inv' /\ [Next]_vars => [PR!Next]_(PR!vars)
<1> SUFFICES ASSUME Inv, Inv', [Next]_vars PROVE [PR!Next]_(PR!vars)
  OBVIOUS
<1> DEFINE Same(q) == StateOf(q)' = StateOf(q)
<1>0. PeerStates = [p \in Peers |-> StateOf(p)] /\ PeerStates' = [p \in Peers |-> StateOf(p)']
  <2>1. \A p \in Peers : PeerState(p) = StateOf(p)
    BY PeerStateIs
  <2>2. (\A p \in Peers : PeerState(p) = StateOf(p))'
    BY PeerStateIs, PTL
  <2> QED
    BY <2>1, <2>2 DEF PeerStates
\* Steps that move no peer and do not end the process.
<1>a. ASSUME \A q \in Peers : Same(q), UNCHANGED status PROVE UNCHANGED PR!vars
  <2>1. PeerStates' = PeerStates
    BY <1>0, <1>a
  <2> QED
    BY <1>a, <2>1 DEF PR!vars, PeerStates, Up
\* log.Fatal, or a panic.
<1>b. ASSUME \A q \in Peers : Same(q), status = "up", status' # "up" PROVE PR!Next
  <2>1. PeerStates' = PeerStates
    BY <1>0, <1>b
  <2> QED
    BY <1>b, <2>1 DEF PR!Next, PR!Down, PeerStates, Up
\* Steps that move one peer.
<1>c. ASSUME NEW p \in Peers, NEW from, NEW to, StateOf(p) = from, StateOf(p)' = to,
             \A q \in Peers \ {p} : Same(q), status = "up", UNCHANGED status
      PROVE  PR!Move(p, from, to)
  <2>1. PeerStates' = [PeerStates EXCEPT ![p] = to] /\ PeerStates[p] = from
    BY <1>0, <1>c
  <2> QED
    BY <1>c, <2>1 DEF PR!Move, PeerStates, Up
<1> USE NoPeerAssumption DEF Inv, ListInv, RemovalInv, TypeOK, Made, loop, Up
<1>1. ASSUME NEW p \in Peers, Decode(p) \/ Negotiate(p) \/ WriteResponse(p)
      PROVE  [PR!Next]_(PR!vars)
  <2>1. \A q \in Peers : Same(q)
    BY <1>1 DEF Decode, Negotiate, WriteResponse, Proceed, StateOf
  <2>2. status = "up" /\ status' \in {"up", "fatal"}
    BY <1>1 DEF Decode, Negotiate, WriteResponse, Proceed
  <2> QED
    BY <1>a, <1>b, <2>1, <2>2
<1>2. ASSUME NEW p \in Peers, Append_(p) PROVE PR!Next
  <2>1. StateOf(p) = "absent" /\ StateOf(p)' = "listed" /\ \A q \in Peers \ {p} : Same(q)
    BY <1>2 DEF Append_, StateOf, Negotiated
  <2>2. PR!List(p)
    BY <1>2, <1>c, <2>1 DEF Append_, PR!List
  <2> QED
    BY <2>2 DEF PR!Next
<1>3. ASSUME NEW p \in Peers, IceFails(p) PROVE PR!Next
  <2>1. StateOf(p) = "listed" /\ StateOf(p)' = "failed" /\ \A q \in Peers \ {p} : Same(q)
    BY <1>3 DEF IceFails, StateOf, Negotiated
  <2>2. PR!Fail(p)
    BY <1>3, <1>c, <2>1 DEF IceFails, PR!Fail
  <2> QED
    BY <2>2 DEF PR!Next
<1>4. ASSUME NEW p \in Peers, Connect(p) \/ OnTrack(p) \/ StartRemoval(p) PROVE UNCHANGED PR!vars
  <2>1. UNCHANGED status /\ \A q \in Peers : Same(q)
    BY <1>4 DEF Connect, OnTrack, StartRemoval, StateOf
  <2> QED
    BY <1>a, <2>1
<1>5. ASSUME NEW p \in Peers, EchoEnds(p) PROVE [PR!Next]_(PR!vars)
  <2>1. status = "up" /\ status' \in {"up", "fatal"} /\ \A q \in Peers : Same(q)
    BY <1>5 DEF EchoEnds, StateOf
  <2> QED
    BY <1>a, <1>b, <2>1
<1>6. CASE RemovalRound
  <2>0. lock \in Peers /\ status = "up" /\ UNCHANGED <<offer, ice>>
    BY <1>6 DEF RemovalRound
  <2>1. CASE UNCHANGED closed
    <3>1. \A q \in Peers : Same(q)
      BY <2>0, <2>1 DEF StateOf
    <3>2. status' \in {"up", "panic", "fatal"}
      OBVIOUS
    <3> QED
      BY <1>a, <1>b, <2>0, <3>1, <3>2
  <2>2. CASE /\ pcs[i] = lock /\ i <= Len(pcs)
             /\ closed' = closed \cup {lock}
             /\ UNCHANGED status
    <3>1. i \in DOMAIN pcs
      BY <2>2
    <3>2. lock \in Elements(pcs)
      BY <2>2, <3>1, Zenon DEF Elements
    <3>3. StateOf(lock) = "failed" /\ StateOf(lock)' = "released"
          /\ \A q \in Peers \ {lock} : Same(q)
      BY <2>0, <2>2, <3>2 DEF StateOf
    <3>4. PR!Release(lock)
      BY <1>c, <2>0, <2>2, <3>3 DEF PR!Release
    <3> QED
      BY <2>0, <3>4 DEF PR!Next
  <2> QED
    BY <1>6, <2>1, <2>2 DEF RemovalRound
<1>7. CASE RemovalDone
  <2>1. lock \in closed /\ UNCHANGED status /\ \A q \in Peers : Same(q)
    BY <1>7 DEF RemovalDone, StateOf
  <2> QED
    BY <1>a, <2>1
<1>8. CASE UNCHANGED vars
  <2>1. UNCHANGED status /\ \A q \in Peers : Same(q)
    BY <1>8 DEF vars, StateOf
  <2> QED
    BY <1>a, <2>1
<1> QED
  BY <1>1, <1>2, <1>3, <1>4, <1>5, <1>6, <1>7, <1>8 DEF Next

\* Only a failed connection is closed and taken off, in one step, and ending the
\* process by log.Fatal or the panic takes off nothing.
THEOREM RegistryImplemented == Spec => ImplementsPeerRegistry
<1>1. Init => PR!Init
  BY DEF Init, PR!Init, PeerState, Up
<1> QED
  BY <1>1, InvInit, InvStep, RegistrySimulation, PTL DEF Spec, ImplementsPeerRegistry, PR!Spec

--------------------------------------------------------------------------------
(* The test client: its handler goroutines, the context and main.           *)

\* The handler calls in flight.
HandlerCalls == [state : ConnStates, at : {"result", "close", "cancel", "done"}]

\* Handlers are called only when main is past the POST; a handler that is past its
\* write of connectResult has made it TRUE, and so it is when one ended ctx.
WrittenFirst ==
    /\ handlers # <<>> => main \in {"select", "decide", "exited"}
    /\ \A k \in 1 .. Len(handlers) : handlers[k].at # "result" => connectResult
    /\ ctx \notin {"live", "expired"} => connectResult /\ main \in {"select", "decide", "exited"}

\* The exit status is given when main exits.
ExitInv ==
    /\ main # "exited" => exit = Running
    /\ main = "exited" /\ ctx \notin {"live", "expired"} => exit = SUCCESS_RETURN_VALUE

ClientInv == ClientTypeOK /\ WrittenFirst /\ ExitInv

\* It holds at the start.
LEMMA ClientInvInit == ClientInit => ClientInv
<1> SUFFICES ASSUME ClientInit PROVE ClientInv
  OBVIOUS
<1>1. connectResult \in BOOLEAN
  BY Zenon DEF ClientInit
<1>2. WrittenFirst
  BY DEF ClientInit, WrittenFirst
<1>3. ClientTypeOK /\ ExitInv
  BY <1>1 DEF ClientInit, ClientTypeOK, ConnStates, ExitInv
<1> QED
  BY <1>2, <1>3 DEF ClientInv

\* What moving one handler call does to all of them.
LEMMA MoveCall ==
    ASSUME handlers \in Seq(HandlerCalls), NEW k \in DOMAIN handlers,
           NEW a \in {"result", "close", "cancel", "done"}
    PROVE  /\ To(k, a) \in Seq(HandlerCalls)
           /\ Len(To(k, a)) = Len(handlers) /\ Len(handlers) \in Nat
           /\ \A j \in 1 .. Len(handlers) : To(k, a)[j].at = IF j = k THEN a ELSE handlers[j].at
<1>1. k \in 1 .. Len(handlers) /\ handlers[k] \in HandlerCalls /\ Len(handlers) \in Nat
  OBVIOUS
<1> DEFINE e == [handlers[k] EXCEPT !.at = a]
<1>2. e \in HandlerCalls /\ e.at = a
  BY <1>1 DEF HandlerCalls
<1>3. To(k, a) = [handlers EXCEPT ![k] = e]
  BY DEF To
<1> HIDE DEF e
<1>4. /\ [handlers EXCEPT ![k] = e] \in Seq(HandlerCalls)
      /\ Len([handlers EXCEPT ![k] = e]) = Len(handlers)
      /\ \A j \in 1 .. Len(handlers) : [handlers EXCEPT ![k] = e][j] = IF j = k THEN e ELSE handlers[j]
  BY <1>1, <1>2, ExceptSeq
<1> QED
  BY <1>1, <1>2, <1>3, <1>4

\* What reporting a state to a new handler call does to all of them.
LEMMA AddCall ==
    ASSUME NEW h \in Seq(HandlerCalls), NEW state \in ConnStates
    PROVE  /\ Append(h, Call(state)) \in Seq(HandlerCalls)
           /\ Len(Append(h, Call(state))) = Len(h) + 1 /\ Len(h) \in Nat
           /\ \A j \in 1 .. Len(h) : Append(h, Call(state))[j] = h[j]
           /\ Append(h, Call(state))[Len(h) + 1].at = "result"
<1>1. Call(state) \in HandlerCalls /\ Call(state).at = "result"
  BY DEF Call, HandlerCalls
<1> QED
  BY <1>1

\* One step of the client keeps ClientInv.
LEMMA ClientInvStep == ClientInv /\ [ClientNext]_clientVars => ClientInv'
<1> SUFFICES ASSUME ClientInv, [ClientNext]_clientVars PROVE ClientInv'
  OBVIOUS
<1>a. handlers \in Seq(HandlerCalls)
  BY DEF ClientInv, ClientTypeOK, HandlerCalls
<1>b. ASSUME handlers' \in Seq(HandlerCalls), connectResult' \in BOOLEAN, conn' \in ConnStates,
             ctx' \in {"live", "expired"} \cup ConnStates, UNCHANGED <<main, exit>>
      PROVE  ClientTypeOK'
  BY <1>b DEF ClientInv, ClientTypeOK, HandlerCalls
<1>1. CASE Setup \/ Post \/ Apply
  <2>1. /\ UNCHANGED <<ctx, connectResult, conn, handlers>>
        /\ main \in {"setup", "post", "apply"}
        /\ \/ main' \in {"gather", "apply", "select"} /\ exit' = exit
           \/ main' = "exited" /\ exit' = ERROR_RETURN_VALUE
    BY <1>1 DEF Setup, Post, Apply, MainProceeds, Exit
  <2>2. handlers = <<>> /\ ctx \in {"live", "expired"}
    BY <2>1 DEF ClientInv, WrittenFirst
  <2>3. ClientTypeOK'
    BY <2>1 DEF ClientInv, ClientTypeOK
  <2>4. WrittenFirst'
    BY <2>1, <2>2 DEF WrittenFirst
  <2>5. ExitInv'
    BY <2>1, <2>2 DEF ClientInv, ExitInv
  <2> QED
    BY <2>3, <2>4, <2>5 DEF ClientInv
<1>2. CASE Gather \/ ContextDone
  <2>1. /\ UNCHANGED <<ctx, connectResult, conn, handlers, exit>>
        /\ \/ main = "gather" /\ main' = "post"
           \/ main = "select" /\ main' = "decide"
    BY <1>2 DEF Gather, ContextDone
  <2>2. ClientTypeOK'
    BY <2>1 DEF ClientInv, ClientTypeOK
  <2> QED
    BY <2>1, <2>2 DEF ClientInv, WrittenFirst, ExitInv
<1>3. CASE Decide
  <2>1. /\ UNCHANGED <<ctx, connectResult, conn, handlers>> /\ main = "decide" /\ main' = "exited"
        /\ exit' = IF connectResult THEN SUCCESS_RETURN_VALUE ELSE ERROR_RETURN_VALUE
    BY <1>3 DEF Decide, Exit
  <2>2. ClientTypeOK'
    BY <2>1 DEF ClientInv, ClientTypeOK
  <2>3. WrittenFirst'
    BY <2>1 DEF ClientInv, WrittenFirst
  <2>4. ExitInv'
    BY <2>1 DEF ClientInv, WrittenFirst, ExitInv
  <2> QED
    BY <2>2, <2>3, <2>4 DEF ClientInv
<1>4. CASE Expire
  <2>1. UNCHANGED <<main, connectResult, conn, handlers, exit>> /\ ctx' = "expired"
    BY <1>4 DEF Expire
  <2>2. ClientTypeOK'
    BY <2>1 DEF ClientInv, ClientTypeOK
  <2> QED
    BY <2>1, <2>2 DEF ClientInv, WrittenFirst, ExitInv
<1>5. CASE ConnChange
  <2>1. UNCHANGED <<main, ctx, connectResult, exit>> /\ main \in {"select", "decide"}
    BY <1>5 DEF ConnChange
  <2>2. PICK state \in Successors(conn) :
          /\ conn' = state
          /\ handlers' = IF state = "connecting" THEN handlers ELSE Append(handlers, Call(state))
    BY <1>5 DEF ConnChange
  <2>3. state \in ConnStates
    BY <2>2 DEF Successors, ConnStates, ClientInv, ClientTypeOK
  <2>4. /\ handlers' \in Seq(HandlerCalls)
        /\ \A k \in 1 .. Len(handlers') : handlers'[k].at # "result" => connectResult
    <3>1. CASE handlers' = handlers
      BY <1>a, <3>1 DEF ClientInv, WrittenFirst
    <3>2. CASE handlers' = Append(handlers, Call(state))
      BY <1>a, <2>3, <3>2, AddCall DEF ClientInv, WrittenFirst
    <3> QED
      BY <2>2, <3>1, <3>2
  <2>5. ClientTypeOK'
    BY <1>b, <2>1, <2>2, <2>3, <2>4 DEF ClientInv, ClientTypeOK
  <2>6. WrittenFirst'
    BY <2>1, <2>4 DEF ClientInv, WrittenFirst
  <2> QED
    BY <2>1, <2>5, <2>6 DEF ClientInv, ExitInv
<1>6. ASSUME NEW k \in DOMAIN handlers, SetResult(k) PROVE ClientInv'
  <2>1. /\ UNCHANGED <<main, ctx, conn, exit>> /\ main # "exited" /\ connectResult' = TRUE
        /\ \E a \in {"close", "cancel"} : handlers' = To(k, a)
    BY <1>6 DEF SetResult, At, Alive
  <2>2. handlers' \in Seq(HandlerCalls) /\ handlers # <<>>
    BY <1>a, <2>1, MoveCall
  <2>3. ClientTypeOK'
    BY <1>b, <2>1, <2>2 DEF ClientInv, ClientTypeOK
  <2>4. WrittenFirst'
    BY <2>1, <2>2 DEF ClientInv, WrittenFirst
  <2> QED
    BY <2>1, <2>3, <2>4 DEF ClientInv, ExitInv
<1>7. ASSUME NEW k \in DOMAIN handlers, Close(k) PROVE ClientInv'
  <2>1. /\ UNCHANGED <<main, ctx, connectResult, exit>> /\ conn' = "closed" /\ handlers[k].at = "close"
        /\ \/ handlers' = To(k, "cancel")
           \/ handlers' = Append(To(k, "cancel"), Call("closed"))
    BY <1>7 DEF Close, At
  <2>2. connectResult /\ handlers # <<>> /\ "closed" \in ConnStates
    BY <1>a, <2>1 DEF ClientInv, WrittenFirst, ConnStates
  <2>3. To(k, "cancel") \in Seq(HandlerCalls)
    BY <1>a, MoveCall
  <2>4. handlers' \in Seq(HandlerCalls)
    BY <2>1, <2>2, <2>3, AddCall
  <2>5. ClientTypeOK'
    BY <1>b, <2>1, <2>2, <2>4 DEF ClientInv, ClientTypeOK
  <2>6. WrittenFirst'
    BY <2>1, <2>2 DEF ClientInv, WrittenFirst
  <2> QED
    BY <2>1, <2>5, <2>6 DEF ClientInv, ExitInv
<1>8. ASSUME NEW k \in DOMAIN handlers, Cancel(k) PROVE ClientInv'
  <2>1. /\ UNCHANGED <<main, connectResult, conn, exit>> /\ main # "exited"
        /\ ctx' \in {ctx, handlers[k].state} /\ handlers[k].at = "cancel"
        /\ handlers' = To(k, "done")
    BY <1>8 DEF Cancel, At, Alive
  <2>2. connectResult /\ handlers # <<>> /\ main \in {"select", "decide"}
    BY <1>a, <2>1 DEF ClientInv, WrittenFirst
  <2>3. handlers' \in Seq(HandlerCalls)
    BY <1>a, <2>1, MoveCall
  <2>4. handlers[k] \in HandlerCalls
    BY <1>a
  <2>5. handlers[k].state \in ConnStates
    BY <2>4 DEF HandlerCalls
  <2>6. ClientTypeOK'
    BY <1>b, <2>1, <2>3, <2>5 DEF ClientInv, ClientTypeOK
  <2>7. WrittenFirst'
    BY <2>1, <2>2 DEF ClientInv, WrittenFirst
  <2> QED
    BY <2>1, <2>6, <2>7 DEF ClientInv, ExitInv
<1>9. CASE UNCHANGED clientVars
  BY <1>9 DEF clientVars, ClientInv, ClientTypeOK, WrittenFirst, ExitInv
<1> QED
  BY <1>1, <1>2, <1>3, <1>4, <1>5, <1>6, <1>7, <1>8, <1>9 DEF ClientNext

\* A connection that comes up in time has its success seen by main: cancel() never
\* overtakes the write of connectResult, for any number of handler goroutines.
THEOREM ResultSeen == ClientSpec => []InTimeResultSeen
<1>1. ClientInv => InTimeResultSeen
  BY DEF ClientInv, ExitInv, InTimeResultSeen, Decided
<1> QED
  BY <1>1, ClientInvInit, ClientInvStep, PTL DEF ClientSpec

================================================================================
