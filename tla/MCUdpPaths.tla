----------------------------- MODULE MCUdpPaths -----------------------------
(* A DNS pair and another one, under every kind of proxy.                   *)
EXTENDS UdpPaths

MCKeys == {"dns", "app"}
MCDns == {"dns"}
MCJobTimeout == [kind \in {"tcp", "tls"} |-> IF kind = "tcp" THEN 0 ELSE 1]

\* The resolvers are alike: it is enough to start with the first.
MCInit == Init /\ dns.resolver = "r1"
MCSpec == MCInit /\ [][Next]_vars /\ Fairness
=============================================================================
