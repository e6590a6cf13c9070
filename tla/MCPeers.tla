------------------------------ MODULE MCPeers ------------------------------
(* Two ips of one group, one of them with two ports, and one restart. *)
EXTENDS Peers, TLC

CONSTANTS a1, a2, b, ip1, ip2, grp

MCIpOf == a1 :> ip1 @@ a2 :> ip1 @@ b :> ip2
MCGroupOf == ip1 :> grp @@ ip2 :> grp
=============================================================================
