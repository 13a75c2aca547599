------------------------------ MODULE MCCluster ------------------------------
(***************************************************************************)
(* Instances of Cluster for TLC.  n1 and n2 are two machines.              *)
(***************************************************************************)
EXTENDS Cluster, TLC

CONSTANTS n1, n2, g1, g2

MCHost == n1 :> "alpha" @@ n2 :> "beta"
MCIp == n1 :> "ip1" @@ n2 :> "ip2"

\* One node and two requests, or two nodes and one.
MCOne == [nodes |-> {n1}, starts |-> 2, inFlight |-> 3]
MCTwo == [nodes |-> {n1, n2}, starts |-> 1, inFlight |-> 2]
MCScenarios == {MCOne, MCTwo}
MCInstalled == n1 :> {g1, g2} @@ n2 :> {g2}
=============================================================================
