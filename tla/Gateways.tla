-------------------------------- MODULE Gateways --------------------------------
(***************************************************************************)
(* The two gateways to a media server.  Both listen for POST /offer on the  *)
(* same port, so that a test runs one of them; the other is never started.  *)
(* A gateway that is not started is in its initial state, in which none of  *)
(* its fair actions is enabled.                                             *)
(***************************************************************************)
EXTENDS JanusGateway, KurentoGateway

VARIABLE gateway    \* the one that is started

gatewayVars == <<vars, kurentoVars, gateway>>

GatewayInit == Init /\ KurentoInit /\ gateway \in {"Janus", "Kurento"}

Janus == gateway = "Janus" /\ Next /\ UNCHANGED <<kurentoVars, gateway>>

Kurento == gateway = "Kurento" /\ KurentoNext /\ UNCHANGED <<vars, gateway>>

GatewaySpec ==
    GatewayInit /\ [][Janus \/ Kurento]_gatewayVars /\ Fairness /\ KurentoFairness

================================================================================
