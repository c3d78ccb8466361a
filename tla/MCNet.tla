------------------------------- MODULE MCNet --------------------------------
(* A gateway, which is the name server too, and a web server on the same   *)
(* network; two names, one of which the name server does not know; a ping  *)
(* that nobody asked for; and, once the ring has turned, two halves of     *)
(* frames that together read as an answer with a wrong MAC.                *)
EXTENDS Net, TLC
CONSTANTS gateway, web, other, dhcpIp, fallbackIp, n1, n2

MCOffers == {[ip |-> dhcpIp, dns |-> gateway]}
MCFallback == [ip |-> fallbackIp, dns |-> gateway]
MCAddress == n1 :> web @@ n2 :> None
MCBackground == {Ping(other, fallbackIp, 0)}
MCGarbage == {Arp(gateway, other)}
=============================================================================
