--------------------------- MODULE WebrtcRsEchoProofs ---------------------------
(***************************************************************************)
(* Proofs about the webrtc-rs server, for any set of peers, and about the   *)
(* client against it.                                                       *)
(***************************************************************************)
EXTENDS WebrtcRsEcho, TLAPS

--------------------------------------------------------------------------------
(* The server's list of peer connections.                                   *)

\* How the list, the closed connections and the removal tasks go together.
RegistryOf(p) ==
    /\ ice[p] # "new" => Negotiated(p)
    /\ offer[p] \in {"none", "decoded"} => p \notin pcs
    /\ offer[p] = "listed" \/ Negotiated(p) => (p \in pcs <=> ice[p] # "removed")
    /\ p \in closed <=> ice[p] \in {"retain", "removed"}

RegistryInv == TypeOK /\ \A p \in Peers : RegistryOf(p)

\* One step of the server keeps RegistryInv.
LEMMA RegistryStep == RegistryInv /\ [Next]_vars => RegistryInv'
<1> SUFFICES ASSUME RegistryInv, [Next]_vars PROVE RegistryInv'
  OBVIOUS
<1> USE DEF RegistryInv, TypeOK, RegistryOf, Negotiated
<1>1. ASSUME NEW p \in Peers, Decode(p) PROVE RegistryInv'
  BY <1>1 DEF Decode, Proceed
<1>2. ASSUME NEW p \in Peers, Push(p) PROVE RegistryInv'
  BY <1>2 DEF Push
<1>3. ASSUME NEW p \in Peers, Negotiate(p) PROVE RegistryInv'
  BY <1>3 DEF Negotiate, Proceed
<1>4. ASSUME NEW p \in Peers, Respond(p) PROVE RegistryInv'
  BY <1>4 DEF Respond, Proceed
<1>5. ASSUME NEW p \in Peers, Connect(p) PROVE RegistryInv'
  BY <1>5 DEF Connect
<1>6. ASSUME NEW p \in Peers, IceFails(p) PROVE RegistryInv'
  BY <1>6 DEF IceFails
<1>7. ASSUME NEW p \in Peers, LockForRemoval(p) PROVE RegistryInv'
  BY <1>7 DEF LockForRemoval
<1>8. ASSUME NEW p \in Peers, CloseMatching(p) PROVE RegistryInv'
  BY <1>8 DEF CloseMatching
<1>9. ASSUME NEW p \in Peers, Retain(p) PROVE RegistryInv'
  BY <1>9 DEF Retain
<1>10. ASSUME NEW p \in Peers, Bind(p) \/ OnTrack(p) \/ EchoEnds(p) PROVE RegistryInv'
  BY <1>10 DEF Bind, OnTrack, EchoEnds
<1>11. CASE UNCHANGED vars
  BY <1>11 DEF vars
<1> QED
  BY <1>1, <1>2, <1>3, <1>4, <1>5, <1>6, <1>7, <1>8, <1>9, <1>10, <1>11 DEF Next, Step

\* The abstract state of every peer.
PeerStates == [p \in Peers |-> PeerState(p)]

\* A step of the server is a step of the abstract registry, or none of it.
LEMMA RegistrySimulation == RegistryInv /\ [Next]_vars => [PR!Next]_(PR!vars)
<1> SUFFICES ASSUME RegistryInv, [Next]_vars PROVE [PR!Next]_(PR!vars)
  OBVIOUS
<1> USE DEF RegistryInv, TypeOK, RegistryOf, Negotiated
\* Steps that move no peer.
<1>a. ASSUME \A p \in Peers : PeerState(p)' = PeerState(p) PROVE UNCHANGED PR!vars
  BY <1>a DEF PR!vars
<1>b. ASSUME NEW p \in Peers, NEW from, NEW to,
             PeerState(p) = from, PeerState(p)' = to,
             \A q \in Peers \ {p} : PeerState(q)' = PeerState(q)
      PROVE  PR!Move(p, from, to)
  <2>1. PeerStates' = [PeerStates EXCEPT ![p] = to]
    BY <1>b DEF PeerStates
  <2> QED
    BY <1>b, <2>1 DEF PR!Move, PeerStates
<1>1. ASSUME NEW p \in Peers, Decode(p) \/ Negotiate(p) \/ Respond(p) PROVE UNCHANGED PR!vars
  <2>1. \A q \in Peers : PeerState(q)' = PeerState(q)
    BY <1>1 DEF Decode, Negotiate, Respond, Proceed, PeerState
  <2> QED
    BY <2>1, <1>a
<1>2. ASSUME NEW p \in Peers, Push(p) PROVE PR!Next
  <2>1. PeerState(p) = "absent" /\ PeerState(p)' = "listed"
    BY <1>2 DEF Push, PeerState
  <2>2. \A q \in Peers \ {p} : PeerState(q)' = PeerState(q)
    BY <1>2 DEF Push, PeerState
  <2>3. PR!List(p)
    BY <1>b, <2>1, <2>2 DEF PR!List
  <2> QED
    BY <2>3 DEF PR!Next
<1>3. ASSUME NEW p \in Peers, IceFails(p) PROVE PR!Next
  <2>1. PeerState(p) = "listed" /\ PeerState(p)' = "failed"
    BY <1>3 DEF IceFails, PeerState
  <2>2. \A q \in Peers \ {p} : PeerState(q)' = PeerState(q)
    BY <1>3 DEF IceFails, PeerState
  <2>3. PR!Fail(p)
    BY <1>b, <2>1, <2>2 DEF PR!Fail
  <2> QED
    BY <2>3 DEF PR!Next
<1>4. ASSUME NEW p \in Peers, Connect(p) \/ LockForRemoval(p) \/ CloseMatching(p)
      PROVE  UNCHANGED PR!vars
  <2>1. \A q \in Peers : PeerState(q)' = PeerState(q)
    BY <1>4 DEF Connect, LockForRemoval, CloseMatching, PeerState
  <2> QED
    BY <2>1, <1>a
<1>5. ASSUME NEW p \in Peers, Retain(p) PROVE PR!Next
  <2>1. PeerState(p) = "failed" /\ PeerState(p)' = "released"
    BY <1>5 DEF Retain, PeerState
  <2>2. \A q \in Peers \ {p} : PeerState(q)' = PeerState(q)
    BY <1>5 DEF Retain, PeerState
  <2>3. PR!Release(p)
    BY <1>b, <2>1, <2>2 DEF PR!Release
  <2> QED
    BY <2>3 DEF PR!Next
<1>6. ASSUME NEW p \in Peers, Bind(p) \/ OnTrack(p) \/ EchoEnds(p) PROVE UNCHANGED PR!vars
  <2>1. \A q \in Peers : PeerState(q)' = PeerState(q)
    BY <1>6 DEF Bind, OnTrack, EchoEnds, PeerState
  <2> QED
    BY <2>1, <1>a
<1>7. CASE UNCHANGED vars
  <2>1. \A q \in Peers : PeerState(q)' = PeerState(q)
    BY <1>7 DEF vars, PeerState
  <2> QED
    BY <2>1, <1>a
<1> QED
  BY <1>1, <1>2, <1>3, <1>4, <1>5, <1>6, <1>7 DEF Next, Step

\* The list of the server is a peer registry: a connection is taken off it only
\* after it failed and was closed, whatever handlers panic.
THEOREM RegistryImplemented == Spec => ImplementsPeerRegistry
<1>1. Init => RegistryInv
  BY DEF Init, RegistryInv, TypeOK, RegistryOf, Negotiated
<1>2. Init => PR!Init
  BY DEF Init, PR!Init, PeerState
<1> QED
  BY <1>1, <1>2, RegistryStep, RegistrySimulation, PTL DEF Spec, ImplementsPeerRegistry, PR!Spec

--------------------------------------------------------------------------------
(* The client against the server.                                           *)

\* Every step of the two together is one of the server, or none of it.
LEMMA ServerSide == [EchoNext]_echoVars => [Next]_vars
<1>1. ASSUME Deliver PROVE Next
  BY <1>1, MineAssumption DEF Deliver, Serve, Next
<1>2. ASSUME NEW p \in Peers, Serve(Decode(p)) \/ ServerConnects(p) \/ Serve(Step(p)) PROVE Next
  BY <1>2 DEF Serve, ServerConnects, Next
<1>3. ASSUME Reply \/ NetworkFails \/ ClientChanges \/ Run(C!ClientStep) PROVE UNCHANGED vars
  BY <1>3 DEF Reply, NetworkFails, ClientChanges, Run
<1> QED
  BY <1>1, <1>2, <1>3 DEF EchoNext, echoVars

\* The client changes nothing about it.
THEOREM RegistryWithClient == EchoSpec => ImplementsPeerRegistry
<1>1. EchoInit => Init
  BY DEF EchoInit
<1> QED
  BY <1>1, ServerSide, RegistryImplemented, PTL DEF EchoSpec, Spec

\* The client is past its POST only with the reply of the server, and past the
\* setting of the answer only with a connection that has left "new".
ClientFollows ==
    /\ main \in {"apply", "select", "close", "return"} => offer[Mine] = "replied"
    /\ main \in {"select", "close", "return"} => conn # "new"
    /\ conn # "new" => offer[Mine] = "replied"
    /\ notice # "none" => conn # "new"
    /\ exit = "success" => conn # "new"

\* The client exits with 0 only with an answer of the server that is set.
THEOREM SuccessAnswered == EchoSpec => []SuccessMeansAnswered
<1> DEFINE Inv == TypeOK /\ C!TypeOK /\ ClientFollows
<1>1. EchoInit => Inv /\ RegistryInv
  BY DEF EchoInit, Init, C!Init, TypeOK, C!TypeOK, ClientFollows, RegistryInv, RegistryOf, Negotiated
<1>2. Inv /\ RegistryInv' /\ [EchoNext]_echoVars => Inv'
  <2> SUFFICES ASSUME Inv, RegistryInv', [EchoNext]_echoVars PROVE C!TypeOK' /\ ClientFollows'
    BY DEF RegistryInv
  <2> USE MineAssumption DEF TypeOK, C!TypeOK, ClientFollows, clientVars
  <2>1. ASSUME [Next]_vars, UNCHANGED clientVars PROVE C!TypeOK' /\ ClientFollows'
    <3>1. offer[Mine] = "replied" => offer'[Mine] = "replied"
      BY <2>1 DEF Next, Step, vars, Decode, Push, Negotiate, Respond, Proceed, Connect, IceFails,
         LockForRemoval, CloseMatching, Retain, Bind, OnTrack, EchoEnds
    <3> QED
      BY <2>1, <3>1
  <2>2. ASSUME Deliver \/ \E p \in Peers : Serve(Decode(p)) \/ ServerConnects(p) \/ Serve(Step(p))
        PROVE  UNCHANGED clientVars
    BY <2>2 DEF Deliver, Serve, ServerConnects
  <2>3. CASE Reply \/ NetworkFails
    BY <2>3 DEF Reply, NetworkFails, Run, C!Post, C!Proceed, vars
  <2>4. CASE ClientChanges
    BY <2>4 DEF ClientChanges, Run, C!Changes, vars
  <2>5. CASE Run(C!ClientStep)
    <3>1. CASE C!Setup \/ C!Gather \/ C!Apply
      BY <2>5, <3>1 DEF Run, C!Setup, C!Gather, C!Apply, C!Proceed, vars
    <3>2. CASE C!Select \/ C!Close \/ C!Return
      BY <2>5, <3>2 DEF Run, C!Select, C!Close, C!Return, vars
    <3>3. CASE C!OnConnected \/ C!OnLostOrClosed
      BY <2>5, <3>3 DEF Run, C!OnConnected, C!OnLostOrClosed, vars
    <3> QED
      BY <2>5, <3>1, <3>2, <3>3 DEF Run, C!ClientStep
  <2>6. CASE UNCHANGED echoVars
    BY <2>6, <2>1 DEF echoVars
  <2> QED
    BY <2>1, <2>2, <2>3, <2>4, <2>5, <2>6, ServerSide DEF EchoNext
<1>3. Inv => SuccessMeansAnswered
  BY DEF ClientFollows, SuccessMeansAnswered
<1> QED
  BY <1>1, <1>2, <1>3, RegistryStep, ServerSide, PTL DEF EchoSpec

================================================================================
