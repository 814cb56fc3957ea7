----------------------------- MODULE MCTcpFlows -----------------------------
(* Two flows, to the same (uid, server) pair or to two.                     *)
EXTENDS TcpFlows

OnePair == [f \in Flows |-> "pair"]
=============================================================================
