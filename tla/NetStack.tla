------------------------------ MODULE NetStack ------------------------------
(***************************************************************************)
(* The userspace TCP stack of rust/netstack/src/stack.rs: flow ids, the    *)
(* 4-tuple index, the smoltcp sockets behind them, and the poll that       *)
(* delivers queued packets and reports the flows that ended.               *)
(*                                                                         *)
(* smoltcp is external.  Modelled of it: SocketSet::add takes the first    *)
(* free slot, a packet goes to the first socket that accepts it, a socket  *)
(* listening on a server's endpoint accepts a SYN from any app port, and   *)
(* the TCP states.  FIN-WAIT-1/2 and CLOSING are one state, FinWait.       *)
(***************************************************************************)
EXTENDS Naturals, Sequences, FiniteSets

CONSTANTS
    Tuples,     \* the 4-tuples apps use: records [app, server]
    MaxFlows,   \* max_flows
    MaxId,      \* bound on flow ids handed out (u64 in the code)
    QCap,       \* bound on the packets queued between two polls
    NoSocket, NoFlow, NoPeer

Ids == 1..MaxId
Slots == 1..(MaxFlows + 1)   \* one more than the cap lets be used
Apps == {t.app : t \in Tuples}
Servers == {t.server : t \in Tuples}

ASSUME ConstantsAssumption ==
    /\ IsFiniteSet(Tuples)
    /\ MaxFlows \in Nat \ {0} /\ MaxId \in Nat /\ QCap \in Nat
    /\ Tuples \subseteq [app : Apps, server : Servers]
    /\ NoPeer \notin Apps

States == {"Listen", "SynReceived", "Established", "CloseWait", "FinWait",
           "LastAck", "TimeWait", "Closed"}
Segments == {"SYN", "ACK", "FIN", "RST", "RSTACK"}

Socket == [state : States, listen : Servers, remote : Apps \cup {NoPeer}]
Flow == [handle : Slots, tuple : Tuples]
Packet == [tuple : Tuples, seg : Segments]

ASSUME SentinelAssumption == NoSocket \notin Socket /\ NoFlow \notin Flow

VARIABLES
    flows,      \* id -> the flow's socket handle and tuple
    by_tuple,   \* tuple -> id, 0 when there is no flow
    next_id,
    sockets,    \* smoltcp's SocketSet
    inbound,    \* TunDevice: packets queued for the next poll
    polling,    \* inside NetStack::poll
    conn,       \* the app's own end of each tuple
    synack,     \* tuples with a SYN|ACK on its way to the app
    dropped     \* tuples whose latest SYN got neither a flow nor an answer

vars == <<flows, by_tuple, next_id, sockets, inbound, polling, conn, synack, dropped>>

Live == {i \in Ids : flows[i] # NoFlow}
SocketOf(i) == sockets[flows[i].handle]

Init ==
    /\ flows = [i \in Ids |-> NoFlow]
    /\ by_tuple = [t \in Tuples |-> 0]
    /\ next_id = 1
    /\ sockets = [h \in Slots |-> NoSocket]
    /\ inbound = <<>>
    /\ polling = FALSE
    /\ conn = [t \in Tuples |-> "idle"]
    /\ synack = {}
    /\ dropped = {}

-----------------------------------------------------------------------------
(* on_tcp_packet *)

FirstFree(h) == sockets[h] = NoSocket /\ \A g \in 1..(h - 1) : sockets[g] # NoSocket

\* Mutant: ids start again at the first free one.
CreateFlowReusingId(t, h) ==
    LET id == CHOOSE i \in Ids : flows[i] = NoFlow /\ \A j \in 1..(i - 1) : flows[j] # NoFlow
    IN  /\ flows' = [flows EXCEPT ![id] = [handle |-> h, tuple |-> t]]
        /\ by_tuple' = [by_tuple EXCEPT ![t] = id]
        /\ sockets' = [sockets EXCEPT
             ![h] = [state |-> "Listen", listen |-> t.server, remote |-> NoPeer]]
        /\ next_id' = next_id + 1

\* create_flow: a fresh id, a socket listening on the server's endpoint in the
\* first free slot, and the tuple indexed.
CreateFlow(t, h) ==
    /\ flows' = [flows EXCEPT ![next_id] = [handle |-> h, tuple |-> t]]
    /\ by_tuple' = [by_tuple EXCEPT ![t] = next_id]
    /\ sockets' = [sockets EXCEPT
         ![h] = [state |-> "Listen", listen |-> t.server, remote |-> NoPeer]]
    /\ next_id' = next_id + 1

Push(t, seg) ==
    /\ Len(inbound) < QCap
    /\ inbound' = Append(inbound, [tuple |-> t, seg |-> seg])

AtCapacity == Cardinality(Live) >= MaxFlows

\* A fresh SYN makes a flow, or is dropped at capacity; everything else is
\* queued for the sockets there are.
OnTcpPacket(t, seg) ==
    \/ /\ seg = "SYN" /\ by_tuple[t] = 0
       /\ AtCapacity
       /\ dropped' = dropped \cup {t}
       /\ UNCHANGED <<flows, by_tuple, next_id, sockets, inbound>>
    \/ /\ seg = "SYN" /\ by_tuple[t] = 0
       /\ ~AtCapacity
       /\ next_id \in Ids
       /\ Push(t, seg)
       /\ \E h \in Slots : FirstFree(h) /\ CreateFlow(t, h)
       /\ dropped' = dropped \ {t}
    \/ /\ ~(seg = "SYN" /\ by_tuple[t] = 0)
       /\ Push(t, seg)
       /\ dropped' = IF seg = "SYN" THEN dropped \ {t} ELSE dropped
       /\ UNCHANGED <<flows, by_tuple, next_id, sockets>>

-----------------------------------------------------------------------------
(* The app's kernel, which sends what on_tcp_packet receives. *)

AppSend(t, seg) == ~polling /\ OnTcpPacket(t, seg) /\ UNCHANGED polling

\* connect(), and the retransmissions of its SYN.
AppConnect(t) ==
    /\ conn[t] \in {"idle", "opening"}
    /\ conn' = [conn EXCEPT ![t] = "opening"]
    /\ AppSend(t, "SYN")
    /\ UNCHANGED synack

\* close() before the connection was established sends nothing.
AppGiveUp(t) ==
    /\ ~polling
    /\ conn[t] = "opening"
    /\ conn' = [conn EXCEPT ![t] = "idle"]
    /\ UNCHANGED <<flows, by_tuple, next_id, sockets, inbound, polling, synack, dropped>>

\* A SYN|ACK is acknowledged, or refused when its socket is gone.
AppSynAck(t) ==
    /\ t \in synack
    /\ synack' = synack \ {t}
    /\ IF conn[t] = "idle" THEN AppSend(t, "RST") /\ UNCHANGED conn
       ELSE AppSend(t, "ACK") /\ conn' = [conn EXCEPT ![t] = "open"]

AppClose(t) ==
    /\ conn[t] = "open"
    /\ conn' = [conn EXCEPT ![t] = "idle"]
    /\ \E seg \in {"FIN", "RSTACK"} : AppSend(t, seg)
    /\ UNCHANGED synack

\* The app's kernel acknowledges our FIN, or answers it with its own.
AppAckFin(t) ==
    /\ \E h \in Slots : /\ sockets[h] # NoSocket
                        /\ sockets[h].state \in {"LastAck", "FinWait"}
                        /\ sockets[h].remote = t.app /\ sockets[h].listen = t.server
    /\ \E seg \in {"ACK", "FIN"} : AppSend(t, seg)
    /\ conn' = [conn EXCEPT ![t] = "idle"]
    /\ UNCHANGED synack

-----------------------------------------------------------------------------
(* What the forwarder does to a flow's socket. *)

SetState(i, s) == sockets' = [sockets EXCEPT ![flows[i].handle].state = s]

\* tcp_abort
Abort(i) ==
    /\ ~polling
    /\ SetState(i, "Closed")
    /\ UNCHANGED <<flows, by_tuple, next_id, inbound, polling, conn, synack, dropped>>

\* tcp_close_app: smoltcp's close()
CloseApp(i) ==
    /\ ~polling
    /\ \/ SocketOf(i).state = "Listen" /\ SetState(i, "Closed")
       \/ SocketOf(i).state \in {"SynReceived", "Established"} /\ SetState(i, "FinWait")
       \/ SocketOf(i).state = "CloseWait" /\ SetState(i, "LastAck")
    /\ UNCHANGED <<flows, by_tuple, next_id, inbound, polling, conn, synack, dropped>>

-----------------------------------------------------------------------------
(* poll *)

PollStart ==
    /\ ~polling
    /\ polling' = TRUE
    /\ UNCHANGED <<flows, by_tuple, next_id, sockets, inbound, conn, synack, dropped>>

\* smoltcp's tcp::Socket::accepts
Accepts(s, p) ==
    /\ s # NoSocket
    /\ s.state # "Closed"
    /\ s.listen = p.tuple.server
    /\ IF s.remote = NoPeer THEN p.seg \in {"SYN", "RST"} ELSE s.remote = p.tuple.app

Becomes(s, state, remote) == [s EXCEPT !.state = state, !.remote = remote]

\* smoltcp's tcp::Socket::process
Processed(s, p) ==
    IF s.state = "Listen"
    THEN IF p.seg = "SYN" THEN Becomes(s, "SynReceived", p.tuple.app) ELSE s
    ELSE IF p.seg \in {"RST", "RSTACK"}
    THEN IF s.state = "SynReceived" THEN Becomes(s, "Listen", NoPeer)
                                    ELSE Becomes(s, "Closed", s.remote)
    ELSE LET to == IF s.state = "SynReceived" /\ p.seg = "ACK" THEN "Established"
                   ELSE IF s.state \in {"SynReceived", "Established"} /\ p.seg = "FIN"
                        THEN "CloseWait"
                   ELSE IF s.state = "FinWait" /\ p.seg = "FIN" THEN "TimeWait"
                   ELSE IF s.state = "LastAck" /\ p.seg = "ACK" THEN "Closed"
                   ELSE s.state
         IN  Becomes(s, to, s.remote)

\* One queued packet goes to the first socket that accepts it.  A packet no
\* socket accepts is answered with a RST, unless it is one.
Ingress ==
    /\ polling
    /\ inbound # <<>>
    /\ inbound' = Tail(inbound)
    /\ LET p == Head(inbound) IN
       \/ \E h \in Slots :
            /\ Accepts(sockets[h], p)
            /\ \A g \in 1..(h - 1) : ~Accepts(sockets[g], p)
            /\ sockets' = [sockets EXCEPT ![h] = Processed(sockets[h], p)]
            /\ synack' = IF p.seg = "SYN" THEN synack \cup {p.tuple} ELSE synack
            /\ UNCHANGED conn
       \/ /\ \A h \in Slots : ~Accepts(sockets[h], p)
          /\ conn' = IF p.seg \in {"RST", "RSTACK"} THEN conn
                     ELSE [conn EXCEPT ![p.tuple] = "idle"]
          /\ UNCHANGED <<sockets, synack>>
    /\ UNCHANGED <<flows, by_tuple, next_id, polling, dropped>>

\* Mutant: remove_flow forgets the index.
RemoveFlowsUnindexed(gone) ==
    /\ flows' = [i \in Ids |-> IF i \in gone THEN NoFlow ELSE flows[i]]
    /\ sockets' = [h \in Slots |->
         IF \E i \in gone : flows[i].handle = h THEN NoSocket ELSE sockets[h]]
    /\ UNCHANGED by_tuple

\* remove_flow for every flow of gone.
RemoveFlows(gone) ==
    /\ flows' = [i \in Ids |-> IF i \in gone THEN NoFlow ELSE flows[i]]
    /\ sockets' = [h \in Slots |->
         IF \E i \in gone : flows[i].handle = h THEN NoSocket ELSE sockets[h]]
    /\ by_tuple' = [t \in Tuples |->
         IF \E i \in gone : flows[i].tuple = t THEN 0 ELSE by_tuple[t]]

\* The flows whose sockets are Closed are reported and service() removes them.
\* TIME-WAIT may expire in the same poll; an aborted connection is reset.
PollEnd(expired) ==
    /\ polling
    /\ inbound = <<>>
    /\ expired \subseteq {i \in Live : SocketOf(i).state = "TimeWait"}
    /\ LET gone == {i \in Live : SocketOf(i).state = "Closed"} \cup expired
       IN  /\ RemoveFlows(gone)
           /\ conn' = [t \in Tuples |->
                IF \E i \in gone : SocketOf(i).remote = t.app /\ flows[i].tuple.server = t.server
                THEN "idle" ELSE conn[t]]
    /\ polling' = FALSE
    /\ UNCHANGED <<next_id, inbound, synack, dropped>>

-----------------------------------------------------------------------------
AppStep(t) ==
    AppConnect(t) \/ AppGiveUp(t) \/ AppSynAck(t) \/ AppClose(t) \/ AppAckFin(t)

Next ==
    \/ \E t \in Tuples : AppStep(t)
    \/ \E i \in Live : Abort(i) \/ CloseApp(i)
    \/ PollStart
    \/ Ingress
    \/ \E expired \in SUBSET Ids : PollEnd(expired)

\* The datapath loop polls after every round of events.
Fairness == WF_vars(PollStart) /\ WF_vars(Ingress)
            /\ WF_vars(\E expired \in SUBSET Ids : PollEnd(expired))

Spec == Init /\ [][Next]_vars /\ Fairness

-----------------------------------------------------------------------------
\* Every variable keeps its shape.
TypeOK ==
    /\ flows \in [Ids -> Flow \cup {NoFlow}]
    /\ by_tuple \in [Tuples -> Ids \cup {0}]
    /\ next_id \in 1..(MaxId + 1)
    /\ sockets \in [Slots -> Socket \cup {NoSocket}]
    /\ inbound \in Seq(Packet)
    /\ polling \in BOOLEAN
    /\ conn \in [Tuples -> {"idle", "opening", "open"}]
    /\ synack \subseteq Tuples
    /\ dropped \subseteq Tuples

\* The tuple index and the flow map are inverse: remove_flow never unindexes a
\* newer flow, and a retransmitted SYN never gets a second flow.
TuplesIndexed ==
    /\ \A i \in Live : by_tuple[flows[i].tuple] = i
    /\ \A t \in Tuples : by_tuple[t] # 0 =>
         by_tuple[t] \in Live /\ flows[by_tuple[t]].tuple = t

\* Every flow has a socket of its own, listening where its tuple says, and no
\* socket is left without a flow.
SocketsOwned ==
    /\ \A i \in Live : SocketOf(i) # NoSocket /\ SocketOf(i).listen = flows[i].tuple.server
    /\ \A i, j \in Live : flows[i].handle = flows[j].handle => i = j
    /\ \A h \in Slots : sockets[h] # NoSocket => \E i \in Live : flows[i].handle = h

\* An id handed out once never names another connection: events and tokens that
\* still carry it find nothing rather than a stranger.
IdsFresh == \A i \in Ids : i >= next_id => flows[i] = NoFlow
IdsNeverReused == [][\A i \in Ids : i < next_id /\ flows[i] = NoFlow => flows'[i] = NoFlow]_vars

\* The flow map never outgrows max_flows.
FlowsCapped == Cardinality(Live) <= MaxFlows

\* The stack's three tables and its cap agree, whichever way sockets end: a flow has
\* one tuple and one socket, none is left behind, and a full table takes no more.
TablesAgree == TuplesIndexed /\ SocketsOwned /\ FlowsCapped

\* stack.rs: "for each new outbound connection we create a TCP socket": the
\* connection a flow's socket carries is the one the flow was created for.
FlowCarriesItsTuple ==
    \A i \in Live : SocketOf(i).remote \in {NoPeer, flows[i].tuple.app}

\* forward.rs: "the flow cap (1024) makes smoltcp RST new connections": a SYN
\* refused at the cap is answered.
CapAnswersRst == dropped = {}
=============================================================================
