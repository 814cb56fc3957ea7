----------------------------- MODULE MCNetStack -----------------------------
(* Connections to servers of their own, to one server, and a mix of both.   *)
EXTENDS NetStack

TwoServers == {[app |-> "p1", server |-> "s1"], [app |-> "p2", server |-> "s2"]}
OneServer == {[app |-> "p1", server |-> "s1"], [app |-> "p2", server |-> "s1"]}
Mixed == OneServer \cup {[app |-> "p3", server |-> "s2"]}
=============================================================================
