--------------------------- MODULE NetStackProofs ---------------------------
(***************************************************************************)
(* Theorems about the two tables of rust/netstack: NetStack, for any set   *)
(* of 4-tuples, any cap and any number of flow ids; and VerdictCache, for  *)
(* any number of flow keys, apps and rules and any capacity.               *)
(***************************************************************************)
EXTENDS NetStack, VerdictCache, FiniteSetTheorems, TLAPS

\* The consistency of the three tables.  It is inductive together with the
\* types; freshness of ids is what keeps a new flow from overwriting another.
Tables ==
    /\ TuplesIndexed
    /\ SocketsOwned
    /\ IdsFresh

\* The flow ids, the index and the sockets are all a step can disturb of Tables.
tables == <<flows, by_tuple, next_id, sockets>>

-----------------------------------------------------------------------------
(* How a step can change the tables *)

\* A flow is created for a tuple that had none, in a slot that was free.
Created(t, h) == by_tuple[t] = 0 /\ next_id \in Ids /\ sockets[h] = NoSocket /\ CreateFlow(t, h)

\* One socket changes state or peer; its endpoint and its owner stay.
SocketMoved(h) ==
    /\ sockets[h] # NoSocket
    /\ \E s \in Socket : s.listen = sockets[h].listen /\ sockets' = [sockets EXCEPT ![h] = s]
    /\ UNCHANGED <<flows, by_tuple, next_id>>

\* A packet from an app leaves the tables alone or creates one flow.
LEMMA PacketStep ==
    ASSUME TypeOK, NEW t \in Tuples, NEW seg \in Segments, OnTcpPacket(t, seg)
    PROVE  UNCHANGED tables \/ \E h \in Slots : Created(t, h)
BY DEF OnTcpPacket, Created, FirstFree, tables

\* So does every step of an app's kernel.
LEMMA AppPacketStep ==
    ASSUME TypeOK, NEW t \in Tuples, AppStep(t)
    PROVE  UNCHANGED tables \/ \E h \in Slots : Created(t, h)
<1>1. \/ UNCHANGED tables
      \/ \E seg \in Segments : OnTcpPacket(t, seg)
    BY DEF AppStep, AppConnect, AppGiveUp, AppSynAck, AppClose, AppAckFin, AppSend,
           Segments, tables
<1> QED
    BY <1>1, PacketStep

\* The forwarder's abort and close and the delivery of a packet move one socket.
LEMMA SocketStep ==
    ASSUME TypeOK, SocketsOwned
    PROVE  /\ \A i \in Live : Abort(i) \/ CloseApp(i) => \E h \in Slots : SocketMoved(h)
           /\ Ingress => UNCHANGED tables \/ \E h \in Slots : SocketMoved(h)
<1>1. ASSUME NEW i \in Live, Abort(i) \/ CloseApp(i) PROVE SocketMoved(flows[i].handle)
                                                            /\ flows[i].handle \in Slots
  <2> DEFINE h == flows[i].handle
  <2>1. h \in Slots
    BY SentinelAssumption DEF TypeOK, Live, Flow
  <2>2. sockets[h] \in Socket
    BY <2>1 DEF TypeOK, SocketsOwned, SocketOf
  <2>3. \E s \in States : sockets' = [sockets EXCEPT ![h].state = s]
    BY <1>1 DEF Abort, CloseApp, SetState, States
  <2>4. PICK s \in States : sockets' = [sockets EXCEPT ![h].state = s]
    BY <2>3
  <2>5. [sockets[h] EXCEPT !.state = s] \in Socket
        /\ [sockets[h] EXCEPT !.state = s].listen = sockets[h].listen
    BY <2>2 DEF Socket
  <2>6. sockets' = [sockets EXCEPT ![h] = [sockets[h] EXCEPT !.state = s]]
    BY <2>4
  <2>7. UNCHANGED <<flows, by_tuple, next_id>>
    BY <1>1 DEF Abort, CloseApp
  <2>8. sockets[h] # NoSocket
    BY <2>2, SentinelAssumption
  <2> QED
    BY <2>1, <2>5, <2>6, <2>7, <2>8 DEF SocketMoved
<1>2. ASSUME Ingress PROVE UNCHANGED tables \/ \E h \in Slots : SocketMoved(h)
  <2> DEFINE p == Head(inbound)
  <2>1. p \in Packet /\ UNCHANGED <<flows, by_tuple, next_id>>
    BY <1>2 DEF Ingress, TypeOK
  <2>2. CASE UNCHANGED sockets
    BY <2>1, <2>2 DEF tables
  <2>3. ASSUME NEW h \in Slots, Accepts(sockets[h], p),
               sockets' = [sockets EXCEPT ![h] = Processed(sockets[h], p)]
        PROVE  SocketMoved(h)
    <3>1. sockets[h] \in Socket /\ sockets[h] # NoSocket
      BY <2>3 DEF Accepts, TypeOK
    <3>2. p.tuple.app \in Apps
      BY <2>1, ConstantsAssumption DEF Packet
    <3>3. \A st \in States, r \in Apps \cup {NoPeer} :
             /\ Becomes(sockets[h], st, r) \in Socket
             /\ Becomes(sockets[h], st, r).listen = sockets[h].listen
      BY <3>1 DEF Becomes, Socket
    <3>4. \/ Processed(sockets[h], p) = sockets[h]
          \/ \E st \in States, r \in Apps \cup {NoPeer} :
               Processed(sockets[h], p) = Becomes(sockets[h], st, r)
      <4>1. sockets[h].state \in States /\ sockets[h].remote \in Apps \cup {NoPeer}
        BY <3>1 DEF Socket
      <4> QED
        BY <3>2, <4>1 DEF Processed, States
    <3>5. Processed(sockets[h], p) \in Socket
          /\ Processed(sockets[h], p).listen = sockets[h].listen
      BY <3>1, <3>3, <3>4
    <3> QED
      BY <2>1, <2>3, <3>1, <3>5 DEF SocketMoved
  <2> QED
    BY <1>2, <2>2, <2>3 DEF Ingress
<1> QED
    BY <1>1, <1>2

-----------------------------------------------------------------------------
(* The tables stay consistent *)

\* create_flow keeps the tables consistent and adds one fresh id.
LEMMA CreatedKeepsTables ==
    ASSUME TypeOK, Tables, NEW t \in Tuples, NEW h \in Slots, Created(t, h)
    PROVE  Tables' /\ flows' \in [Ids -> Flow \cup {NoFlow}]
           /\ by_tuple' \in [Tuples -> Ids \cup {0}] /\ next_id' \in 1..(MaxId + 1)
           /\ sockets' \in [Slots -> Socket \cup {NoSocket}]
           /\ Live' = Live \cup {next_id} /\ next_id \notin Live
<1> DEFINE f == [handle |-> h, tuple |-> t]
           s == [state |-> "Listen", listen |-> t.server, remote |-> NoPeer]
<1> USE ConstantsAssumption, SentinelAssumption
<1>1. f \in Flow /\ s \in Socket /\ t.server \in Servers
    BY DEF Flow, Socket, States
<1>2. flows' = [flows EXCEPT ![next_id] = f] /\ by_tuple' = [by_tuple EXCEPT ![t] = next_id]
      /\ sockets' = [sockets EXCEPT ![h] = s] /\ next_id' = next_id + 1
      /\ next_id \in Ids /\ by_tuple[t] = 0 /\ sockets[h] = NoSocket
    BY DEF Created, CreateFlow
<1>3. f.handle = h /\ f.tuple = t /\ s.listen = t.server /\ s # NoSocket /\ f # NoFlow
    BY <1>1
<1>4. next_id \in Nat /\ next_id \notin Live /\ MaxId \in Nat
    BY <1>2 DEF Tables, IdsFresh, Live, Ids, TypeOK
<1> HIDE DEF f, s
<1>5. Live' = Live \cup {next_id}
    BY <1>2, <1>3 DEF Live, TypeOK
<1>6. \A i \in Live : flows'[i] = flows[i] /\ flows[i] \in Flow /\ flows[i].handle # h
                       /\ flows[i].tuple # t /\ flows[i].handle \in Slots
                       /\ flows[i].tuple \in Tuples
  <2> SUFFICES ASSUME NEW i \in Live
               PROVE  flows'[i] = flows[i] /\ flows[i] \in Flow /\ flows[i].handle # h
                      /\ flows[i].tuple # t /\ flows[i].handle \in Slots
                      /\ flows[i].tuple \in Tuples
      OBVIOUS
  <2>1. flows[i] \in Flow /\ i \in Ids /\ i # next_id
    BY <1>4 DEF Live, TypeOK
  <2>2. flows[i].handle \in Slots /\ flows[i].tuple \in Tuples
    BY <2>1 DEF Flow
  <2>3. flows[i].tuple # t
    BY <1>2, <2>1 DEF Tables, TuplesIndexed, Ids
  <2> QED
    BY <1>2, <2>1, <2>2, <2>3 DEF Tables, SocketsOwned, SocketOf, TypeOK
<1>7. TuplesIndexed'
    BY <1>2, <1>3, <1>4, <1>5, <1>6 DEF Tables, TuplesIndexed, TypeOK
<1>8. SocketsOwned'
    BY <1>2, <1>3, <1>4, <1>5, <1>6 DEF Tables, SocketsOwned, SocketOf, TypeOK
<1>9. IdsFresh'
    BY <1>2, <1>4 DEF Tables, IdsFresh, TypeOK, Ids
<1> QED
    BY <1>1, <1>2, <1>4, <1>5, <1>7, <1>8, <1>9 DEF Tables, TypeOK, Ids

\* A socket that moves keeps its endpoint and its owner.
LEMMA MovedKeepsTables ==
    ASSUME TypeOK, Tables, NEW h \in Slots, SocketMoved(h)
    PROVE  Tables' /\ sockets' \in [Slots -> Socket \cup {NoSocket}] /\ Live' = Live
<1>1. PICK s \in Socket : s.listen = sockets[h].listen /\ sockets' = [sockets EXCEPT ![h] = s]
    BY DEF SocketMoved
<1>2. UNCHANGED <<flows, by_tuple, next_id>> /\ sockets[h] # NoSocket
    BY DEF SocketMoved
<1>3. Live' = Live
    BY <1>2 DEF Live
<1>4. SocketsOwned'
    BY <1>1, <1>2, <1>3, SentinelAssumption DEF Tables, SocketsOwned, SocketOf, TypeOK
<1> QED
    BY <1>1, <1>2, <1>3, <1>4 DEF Tables, TuplesIndexed, IdsFresh, TypeOK

\* remove_flow takes a flow out of all three tables.
LEMMA RemovedKeepsTables ==
    ASSUME TypeOK, Tables, NEW gone \in SUBSET Live, RemoveFlows(gone), UNCHANGED next_id
    PROVE  Tables' /\ flows' \in [Ids -> Flow \cup {NoFlow}]
           /\ by_tuple' \in [Tuples -> Ids \cup {0}]
           /\ sockets' \in [Slots -> Socket \cup {NoSocket}] /\ Live' = Live \ gone
<1>1. Live' = Live \ gone
    BY DEF RemoveFlows, Live
<1>2. \A i \in Live \ gone : flows'[i] = flows[i]
    BY DEF RemoveFlows, Live
<1>3. \A i \in Live : flows[i] \in Flow /\ flows[i].handle \in Slots /\ flows[i].tuple \in Tuples
    BY DEF Live, TypeOK, Flow
<1>4. TuplesIndexed'
    BY <1>1, <1>2, <1>3 DEF RemoveFlows, Tables, TuplesIndexed, Ids, Live
<1>5. SocketsOwned'
    BY <1>1, <1>2, <1>3 DEF RemoveFlows, Tables, SocketsOwned, SocketOf, Live
<1>6. IdsFresh'
    BY DEF RemoveFlows, Tables, IdsFresh
<1> QED
    BY <1>1, <1>4, <1>5, <1>6 DEF RemoveFlows, Tables, TypeOK

-----------------------------------------------------------------------------
(* Types and the cap *)

\* TypeOK, Tables and the cap together are inductive.
IInv == TypeOK /\ Tables /\ FlowsCapped

\* What a step does to the variables outside the tables.
LEMMA RestTyped ==
    ASSUME TypeOK, [Next]_vars
    PROVE  /\ inbound' \in Seq(Packet)
           /\ polling' \in BOOLEAN
           /\ conn' \in [Tuples -> {"idle", "opening", "open"}]
           /\ synack' \subseteq Tuples
           /\ dropped' \subseteq Tuples
<1> USE DEF TypeOK
<1>1. CASE UNCHANGED vars
    BY <1>1 DEF vars
<1>2. ASSUME NEW t \in Tuples, NEW seg \in Segments, OnTcpPacket(t, seg)
      PROVE  inbound' \in Seq(Packet) /\ dropped' \subseteq Tuples
  <2> DEFINE p == [tuple |-> t, seg |-> seg]
  <2>1. p \in Packet
    BY DEF Packet
  <2>2. inbound' = inbound \/ inbound' = Append(inbound, p)
    BY <1>2 DEF OnTcpPacket, Push
  <2> HIDE DEF p
  <2>3. inbound' \in Seq(Packet)
    BY <2>1, <2>2
  <2>4. dropped' \subseteq Tuples
    BY <1>2 DEF OnTcpPacket
  <2> QED
    BY <2>3, <2>4
<1>3. ASSUME NEW t \in Tuples, AppStep(t)
      PROVE  /\ inbound' \in Seq(Packet) /\ dropped' \subseteq Tuples
             /\ polling' \in BOOLEAN
             /\ conn' \in [Tuples -> {"idle", "opening", "open"}]
             /\ synack' \subseteq Tuples
  <2>1. \/ UNCHANGED <<inbound, dropped>>
        \/ \E seg \in Segments : OnTcpPacket(t, seg)
    BY <1>3 DEF AppStep, AppConnect, AppGiveUp, AppSynAck, AppClose, AppAckFin, AppSend,
                Segments
  <2>2. inbound' \in Seq(Packet) /\ dropped' \subseteq Tuples
    BY <2>1, <1>2
  <2>3. polling' \in BOOLEAN /\ synack' \subseteq Tuples
        /\ conn' \in [Tuples -> {"idle", "opening", "open"}]
    BY <1>3 DEF AppStep, AppConnect, AppGiveUp, AppSynAck, AppClose, AppAckFin, AppSend
  <2> QED
    BY <2>2, <2>3
<1>4. ASSUME NEW i \in Live, Abort(i) \/ CloseApp(i)
      PROVE  UNCHANGED <<inbound, polling, conn, synack, dropped>>
    BY <1>4 DEF Abort, CloseApp
<1>5. CASE PollStart
    BY <1>5 DEF PollStart
<1>6. CASE Ingress
  <2>1. Head(inbound) \in Packet /\ Tail(inbound) \in Seq(Packet)
    BY <1>6 DEF Ingress
  <2>2. Head(inbound).tuple \in Tuples
    BY <2>1 DEF Packet
  <2> QED
    BY <1>6, <2>1, <2>2 DEF Ingress
<1>7. ASSUME NEW expired \in SUBSET Ids, PollEnd(expired)
      PROVE  /\ UNCHANGED <<inbound, synack, dropped>> /\ polling' \in BOOLEAN
             /\ conn' \in [Tuples -> {"idle", "opening", "open"}]
    BY <1>7 DEF PollEnd
<1> QED
    BY <1>1, <1>3, <1>4, <1>5, <1>6, <1>7 DEF Next

\* The flow map stays finite and within the cap.
LEMMA LiveFinite == IsFiniteSet(Live) /\ Cardinality(Live) \in Nat
<1>1. IsFiniteSet(Ids)
    BY ConstantsAssumption, FS_Interval DEF Ids
<1> QED
    BY <1>1, FS_Subset, FS_CardinalityType DEF Live

\* The cap survives a removal, and an addition made below it.
LEMMA CapStep ==
    ASSUME FlowsCapped
    PROVE  /\ Live' \subseteq Live => FlowsCapped'
           /\ ~AtCapacity /\ Live' = Live \cup {next_id} /\ next_id \notin Live => FlowsCapped'
<1>1. ASSUME Live' \subseteq Live PROVE FlowsCapped'
  <2>1. Cardinality(Live') <= Cardinality(Live) /\ Cardinality(Live') \in Nat
    BY <1>1, LiveFinite, FS_Subset, FS_CardinalityType
  <2> QED
    BY <2>1, LiveFinite, ConstantsAssumption DEF FlowsCapped
<1>2. ASSUME ~AtCapacity, Live' = Live \cup {next_id}, next_id \notin Live PROVE FlowsCapped'
  <2>1. Cardinality(Live') = Cardinality(Live) + 1
    BY <1>2, LiveFinite, FS_AddElement
  <2> QED
    BY <1>2, <2>1, LiveFinite, ConstantsAssumption DEF FlowsCapped, AtCapacity
<1> QED
    BY <1>1, <1>2

\* A flow is created only below the cap.
LEMMA CreatedBelowCap ==
    ASSUME TypeOK, NEW t \in Tuples, AppStep(t)
    PROVE  UNCHANGED tables \/ ~AtCapacity
BY DEF AppStep, AppConnect, AppGiveUp, AppSynAck, AppClose, AppAckFin, AppSend, OnTcpPacket,
       tables

\* The inductive step, by what the step does to the tables.
LEMMA IInvStep == IInv /\ [Next]_vars => IInv'
<1> SUFFICES ASSUME IInv, [Next]_vars PROVE IInv'
    OBVIOUS
<1> USE DEF IInv
<1>1. \/ UNCHANGED tables
      \/ ~AtCapacity /\ \E t \in Tuples, h \in Slots : Created(t, h)
      \/ \E h \in Slots : SocketMoved(h)
      \/ UNCHANGED next_id /\ \E gone \in SUBSET Live : RemoveFlows(gone)
  <2>1. CASE UNCHANGED vars
    BY <2>1 DEF vars, tables
  <2>2. ASSUME NEW t \in Tuples, AppStep(t)
        PROVE  UNCHANGED tables \/ (~AtCapacity /\ \E h \in Slots : Created(t, h))
    BY <2>2, AppPacketStep, CreatedBelowCap
  <2>3. ASSUME NEW i \in Live, Abort(i) \/ CloseApp(i)
        PROVE  \E h \in Slots : SocketMoved(h)
    BY <2>3, SocketStep DEF Tables
  <2>4. CASE PollStart
    BY <2>4 DEF PollStart, tables
  <2>5. CASE Ingress
    BY <2>5, SocketStep DEF Tables
  <2>6. ASSUME NEW expired \in SUBSET Ids, PollEnd(expired)
        PROVE  UNCHANGED next_id /\ \E gone \in SUBSET Live : RemoveFlows(gone)
    BY <2>6 DEF PollEnd
  <2> QED
    BY <2>1, <2>2, <2>3, <2>4, <2>5, <2>6 DEF Next
<1>2. CASE UNCHANGED tables
    BY <1>2, RestTyped DEF tables, TypeOK, Tables, TuplesIndexed, SocketsOwned, SocketOf,
       IdsFresh, FlowsCapped, Live
<1>3. ASSUME ~AtCapacity, NEW t \in Tuples, NEW h \in Slots, Created(t, h) PROVE IInv'
    BY <1>3, RestTyped, CreatedKeepsTables, CapStep DEF TypeOK
<1>4. ASSUME NEW h \in Slots, SocketMoved(h) PROVE IInv'
  <2>1. UNCHANGED <<flows, by_tuple, next_id>>
    BY <1>4 DEF SocketMoved
  <2> QED
    BY <1>4, <2>1, RestTyped, MovedKeepsTables, CapStep DEF TypeOK
<1>5. ASSUME UNCHANGED next_id, NEW gone \in SUBSET Live, RemoveFlows(gone) PROVE IInv'
    BY <1>5, RestTyped, RemovedKeepsTables, CapStep DEF TypeOK
<1> QED
    BY <1>1, <1>2, <1>3, <1>4, <1>5

\* The tables start empty.
LEMMA IInvInit == Init => IInv
<1> SUFFICES ASSUME Init PROVE IInv
    OBVIOUS
<1>1. Live = {}
    BY DEF Init, Live
<1>2. TypeOK
  <2>1. next_id \in 1..(MaxId + 1)
    BY ConstantsAssumption DEF Init
  <2>2. inbound \in Seq(Packet)
    BY DEF Init
  <2> QED
    BY <2>1, <2>2 DEF Init, TypeOK
<1>3. FlowsCapped
    BY <1>1, FS_EmptySet, ConstantsAssumption DEF FlowsCapped
<1> QED
    BY <1>1, <1>2, <1>3 DEF Init, IInv, Tables, TuplesIndexed, SocketsOwned, IdsFresh

\* Spec keeps its types.
THEOREM TypeCorrect == Spec => []TypeOK
<1>1. IInv => TypeOK
    BY DEF IInv
<1> QED
    BY <1>1, IInvInit, IInvStep, PTL DEF Spec

\* Through every interleaving of connects, retransmissions, resets, aborts and
\* polls the flow map, the tuple index and the socket set agree, ids stay fresh
\* and the cap holds.
THEOREM TablesConsistent == Spec => [](TablesAgree /\ IdsFresh)
<1>1. IInv => TablesAgree /\ IdsFresh
    BY DEF IInv, Tables, TablesAgree
<1> QED
    BY <1>1, IInvInit, IInvStep, PTL DEF Spec

\* A flow id that was handed out and removed never comes back.
THEOREM IdsNotReused == Spec => IdsNeverReused
<1>1. IInv /\ [Next]_vars =>
        [\A i \in Ids : i < next_id /\ flows[i] = NoFlow => flows'[i] = NoFlow]_vars
  <2> SUFFICES ASSUME IInv, [Next]_vars, NEW i \in Ids, i < next_id, flows[i] = NoFlow
               PROVE  flows'[i] = NoFlow
      OBVIOUS
  <2> USE DEF IInv
  <2>1. CASE UNCHANGED flows
    BY <2>1
  <2>2. ASSUME NEW t \in Tuples, AppStep(t) PROVE flows'[i] = NoFlow
    <3>1. UNCHANGED flows \/ \E h \in Slots : Created(t, h)
      BY <2>2, AppPacketStep DEF tables
    <3>2. next_id \in Nat /\ i \in Nat /\ i # next_id
      BY ConstantsAssumption DEF TypeOK, Ids
    <3> QED
      BY <3>1, <3>2 DEF Created, CreateFlow, TypeOK
  <2>3. ASSUME NEW j \in Live, Abort(j) \/ CloseApp(j) PROVE UNCHANGED flows
    BY <2>3 DEF Abort, CloseApp
  <2>4. PollStart \/ Ingress => UNCHANGED flows
    BY DEF PollStart, Ingress
  <2>5. ASSUME NEW expired \in SUBSET Ids, PollEnd(expired) PROVE flows'[i] = NoFlow
    BY <2>5 DEF PollEnd, RemoveFlows
  <2> QED
    BY <2>1, <2>2, <2>3, <2>4, <2>5 DEF Next, vars
<1> QED
    BY <1>1, IInvInit, IInvStep, PTL DEF Spec, IdsNeverReused

-----------------------------------------------------------------------------
(* The firewall: types *)

\* Every step of the firewall keeps the variables' shapes.
LEMMA CacheTypeStep == CacheTypeOK /\ [CacheNext]_cache_vars => CacheTypeOK'
<1> SUFFICES ASSUME CacheTypeOK, [CacheNext]_cache_vars PROVE CacheTypeOK'
    OBVIOUS
<1> USE CacheAssumption DEF CacheTypeOK, Entry, Verdict
<1>1. CASE UNCHANGED cache_vars
    BY <1>1 DEF cache_vars
<1>2. ASSUME NEW k \in Keys, VerdictBypass(k) PROVE CacheTypeOK'
    BY <1>2 DEF VerdictBypass, Decide
<1>3. ASSUME NEW k \in Keys, VerdictHit(k) PROVE CacheTypeOK'
  <2>1. map[k] \in [value : Verdict, last_used : Nat]
    BY <1>3 DEF VerdictHit
  <2>2. map' \in [Keys -> Entry \cup {Absent}]
    BY <1>3, <2>1 DEF VerdictHit
  <2> QED
    BY <1>3, <2>1, <2>2 DEF VerdictHit, Decide
<1>4. ASSUME NEW k \in Keys, NEW uid \in Uids \cup {NoUid}, VerdictMiss(k, uid)
      PROVE  CacheTypeOK'
  <2> DEFINE v == [blocked |-> policy_blocks(uid), uid |-> uid]
             e == [value |-> v, last_used |-> tick + 2]
  <2>1. v \in Verdict
    BY DEF policy_blocks
  <2>2. e \in Entry
    BY <2>1
  <2>3. last' = [key |-> k, value |-> v] /\ tick' = tick + 2
    BY <1>4 DEF VerdictMiss, Decide
  <2>4. \/ map' = [map EXCEPT ![k] = e]
        \/ \E lru \in Keys : map' = [[map EXCEPT ![lru] = Absent] EXCEPT ![k] = e]
    BY <1>4 DEF VerdictMiss, Evicted
  <2> HIDE DEF e
  <2>5. map' \in [Keys -> Entry \cup {Absent}]
    BY <2>2, <2>4
  <2> QED
    BY <1>4, <2>1, <2>3, <2>5 DEF VerdictMiss
<1>5. ASSUME NEW rules \in [Uids -> Policies \cup {NoRule}], SetFirewall(rules)
      PROVE  CacheTypeOK'
    BY <1>5 DEF SetFirewall, EmptyTable
<1>6. ASSUME NEW t \in Transports, SetTransport(t) PROVE CacheTypeOK'
    BY <1>6 DEF SetTransport, EmptyTable
<1>7. ASSUME NEW open \in BOOLEAN, SetLogOpen(open) PROVE CacheTypeOK'
    BY <1>7 DEF SetLogOpen
<1>8. ASSUME NEW k \in Keys, NEW u \in Uids, Rebind(k, u) PROVE CacheTypeOK'
    BY <1>8 DEF Rebind
<1> QED
    BY <1>1, <1>2, <1>3, <1>4, <1>5, <1>6, <1>7, <1>8 DEF CacheNext

\* CacheSpec keeps its types.
THEOREM CacheTypeCorrect == CacheSpec => []CacheTypeOK
<1>1. CacheInit => CacheTypeOK
    BY CacheAssumption DEF CacheInit, CacheTypeOK, EmptyTable, Transports
<1> QED
    BY <1>1, CacheTypeStep, PTL DEF CacheSpec

-----------------------------------------------------------------------------
(* The firewall: what a step of the table does, in one place *)

\* The three ways the table changes: an entry is stamped, an entry is written
\* (over an evicted one at capacity), or the table is replaced by a new one.
Stamped(k) ==
    /\ k \in Held
    /\ tick' = tick + 1
    /\ map' = [map EXCEPT ![k] = [value |-> map[k].value, last_used |-> tick + 1]]

Written(k, v, S) ==
    /\ k \notin Held
    /\ tick' = tick + 2
    /\ map' = [j \in Keys |-> IF j = k THEN [value |-> v, last_used |-> tick + 2]
                              ELSE IF j \in S THEN map[j] ELSE Absent]

Emptied == map' = EmptyTable /\ tick' = 0

\* The keys held after each kind of change.
LEMMA HeldAfter ==
    ASSUME CacheTypeOK, CacheTypeOK', NEW k \in Keys, NEW v \in Verdict, NEW S \in SUBSET Held
    PROVE  /\ Stamped(k) => Held' = Held
           /\ Written(k, v, S) => Held' = S \cup {k}
           /\ Emptied => Held' = {}
<1> USE CacheAssumption DEF CacheTypeOK, Held
<1>1. ASSUME Stamped(k) PROVE Held' = Held
  <2>1. map[k] \in Entry
    BY <1>1 DEF Stamped
  <2>2. [value |-> map[k].value, last_used |-> tick + 1] \in Entry
    BY <2>1 DEF Entry
  <2> QED
    BY <1>1, <2>2 DEF Stamped
<1>2. ASSUME Written(k, v, S) PROVE Held' = S \cup {k}
  <2>1. [value |-> v, last_used |-> tick + 2] \in Entry
    BY DEF Entry
  <2> QED
    BY <1>2, <2>1 DEF Written
<1>3. ASSUME Emptied PROVE Held' = {}
    BY <1>3 DEF Emptied, EmptyTable
<1> QED
    BY <1>1, <1>2, <1>3

\* verdict() on a miss writes the new entry over what is left of the table:
\* all of it below capacity, all but the least recently used key at capacity.
LEMMA MissWrites ==
    ASSUME CacheTypeOK, NEW k \in Keys, NEW uid \in Uids \cup {NoUid}, VerdictMiss(k, uid)
    PROVE  LET v == [blocked |-> policy_blocks(uid), uid |-> uid]
           IN  /\ v \in Verdict
               /\ \/ Cardinality(Held) < Cap /\ Written(k, v, Held)
                  \/ /\ Cardinality(Held) >= Cap
                     /\ \E lru \in Held : IsLru(lru) /\ Written(k, v, Held \ {lru})
<1> DEFINE v == [blocked |-> policy_blocks(uid), uid |-> uid]
           e == [value |-> v, last_used |-> tick + 2]
<1>1. v \in Verdict
    BY DEF policy_blocks, Verdict
<1>2. k \notin Held /\ tick' = tick + 2
    BY DEF VerdictMiss, Held
<1>3. CASE Cardinality(Held) < Cap /\ map' = [map EXCEPT ![k] = e]
  <2>1. map' = [j \in Keys |-> IF j = k THEN e ELSE IF j \in Held THEN map[j] ELSE Absent]
    <3> HIDE DEF e
    <3> QED BY <1>3 DEF CacheTypeOK, Held
  <2> QED
    BY <1>1, <1>2, <1>3, <2>1 DEF Written
<1>4. ASSUME NEW lru \in Keys, Cardinality(Held) >= Cap, IsLru(lru),
             map' = [Evicted(lru) EXCEPT ![k] = e]
      PROVE  Written(k, v, Held \ {lru}) /\ lru \in Held
  <2>1. map' = [j \in Keys |-> IF j = k THEN e
                               ELSE IF j \in Held \ {lru} THEN map[j] ELSE Absent]
    <3> HIDE DEF e
    <3> QED BY <1>4 DEF CacheTypeOK, Held, Evicted
  <2> QED
    BY <1>2, <1>4, <2>1 DEF Written, IsLru
<1>5. \/ Cardinality(Held) < Cap /\ map' = [map EXCEPT ![k] = e]
      \/ /\ Cardinality(Held) >= Cap
         /\ \E lru \in Keys : IsLru(lru) /\ map' = [Evicted(lru) EXCEPT ![k] = e]
    BY DEF VerdictMiss
<1> QED
    BY <1>1, <1>3, <1>4, <1>5

-----------------------------------------------------------------------------
(* The firewall: the order kept by the stamps *)

\* Distinct stamps, none ahead of the clock, survive every change of the table.
LEMMA StampsStep ==
    ASSUME CacheTypeOK, CacheTypeOK', StampsDistinct, NEW k \in Keys, NEW v \in Verdict,
           NEW S \in SUBSET Held
    PROVE  /\ Stamped(k) => StampsDistinct'
           /\ Written(k, v, S) => StampsDistinct'
           /\ Emptied => StampsDistinct'
<1>1. \A j \in Held : map[j].last_used \in Nat
    BY DEF CacheTypeOK, Entry, Held
<1> USE HeldAfter, <1>1 DEF StampsDistinct
<1>2. ASSUME Stamped(k) PROVE StampsDistinct'
    BY <1>2 DEF Stamped, Held, CacheTypeOK
<1>3. ASSUME Written(k, v, S) PROVE StampsDistinct'
    BY <1>3 DEF Written, Held, CacheTypeOK
<1>4. ASSUME Emptied PROVE StampsDistinct'
    BY <1>4 DEF Emptied
<1> QED
    BY <1>2, <1>3, <1>4

\* The capacity survives every change of the table that verdict() makes.
LEMMA TableCapStep ==
    ASSUME CacheTypeOK, CacheTypeOK', CapRespected, NEW k \in Keys, NEW uid \in Uids \cup {NoUid}
    PROVE  /\ Stamped(k) => CapRespected'
           /\ VerdictMiss(k, uid) => CapRespected'
           /\ Emptied => CapRespected'
<1>1. IsFiniteSet(Held) /\ Cardinality(Held) \in Nat
    BY CacheAssumption, FS_Subset, FS_CardinalityType DEF Held
<1>a. [blocked |-> FALSE, uid |-> NoUid] \in Verdict /\ {} \in SUBSET Held
    BY DEF Verdict
<1>2. Stamped(k) => CapRespected'
    BY <1>a, HeldAfter DEF CapRespected
<1>3. Emptied => CapRespected'
  <2> SUFFICES ASSUME Emptied PROVE CapRespected'
    OBVIOUS
  <2>1. Held' = {}
    BY <1>a, HeldAfter
  <2>2. Cardinality({}) = 0
    BY FS_EmptySet
  <2> QED
    BY <2>1, <2>2, CacheAssumption DEF CapRespected
<1>4. ASSUME VerdictMiss(k, uid) PROVE CapRespected'
  <2> DEFINE v == [blocked |-> policy_blocks(uid), uid |-> uid]
  <2>1. v \in Verdict /\ k \notin Held
    BY <1>4, MissWrites DEF VerdictMiss, Held
  <2>2. CASE Cardinality(Held) < Cap /\ Written(k, v, Held)
    <3>1. Held' = Held \cup {k}
      BY <2>1, <2>2, HeldAfter
    <3>2. Cardinality(Held \cup {k}) = Cardinality(Held) + 1
      BY <1>1, <2>1, FS_AddElement
    <3> QED
      BY <1>1, <2>2, <3>1, <3>2, CacheAssumption DEF CapRespected
  <2>3. ASSUME NEW lru \in Held, Written(k, v, Held \ {lru}) PROVE CapRespected'
    <3>1. Held' = (Held \ {lru}) \cup {k}
      BY <2>1, <2>3, HeldAfter
    <3>2. IsFiniteSet(Held \ {lru}) /\ Cardinality(Held \ {lru}) = Cardinality(Held) - 1
      BY <1>1, FS_RemoveElement
    <3>3. Cardinality((Held \ {lru}) \cup {k}) = Cardinality(Held \ {lru}) + 1
      BY <2>1, <3>2, FS_AddElement
    <3> QED
      BY <1>1, <3>1, <3>2, <3>3, CacheAssumption DEF CapRespected
  <2> QED
    BY <1>4, <2>2, <2>3, MissWrites
<1> QED
    BY <1>2, <1>3, <1>4

-----------------------------------------------------------------------------
(* The firewall: safety *)

\* The conjunction is inductive as it stands: freshness of the cached entries
\* is what makes the decision of a hit current.
CacheSafety ==
    /\ CacheTypeOK
    /\ VerdictsFresh
    /\ DecisionCurrent
    /\ BackedByTable
    /\ CapRespected
    /\ StampsDistinct

\* policy_blocks reads the rules and the transport and nothing else.
LEMMA PolicyUnchanged ==
    ASSUME UNCHANGED <<firewall, transport>>, NEW u
    PROVE  policy_blocks(u)' = policy_blocks(u)
BY DEF policy_blocks

\* A packet of any kind keeps the decisions current and backed by the table.
LEMMA DecisionStep ==
    ASSUME CacheTypeOK, CacheTypeOK', VerdictsFresh, NEW k \in Keys
    PROVE  /\ VerdictBypass(k) => VerdictsFresh' /\ DecisionCurrent' /\ BackedByTable'
           /\ VerdictHit(k) => VerdictsFresh' /\ DecisionCurrent' /\ BackedByTable'
           /\ \A uid \in Uids \cup {NoUid} : VerdictMiss(k, uid) =>
                 VerdictsFresh' /\ DecisionCurrent' /\ BackedByTable'
<1> USE CacheAssumption
<1>1. ASSUME VerdictBypass(k)
      PROVE  VerdictsFresh' /\ DecisionCurrent' /\ BackedByTable'
  <2>1. UNCHANGED <<firewall, transport, map>> /\ last'.value = [blocked |-> FALSE, uid |-> NoUid]
    BY <1>1 DEF VerdictBypass, Decide
  <2>2. VerdictsFresh'
    BY <2>1, PolicyUnchanged DEF VerdictsFresh, Held
  <2>3. DecisionCurrent'
    BY <2>1 DEF DecisionCurrent, policy_blocks
  <2>4. BackedByTable'
    BY <1>1 DEF VerdictBypass, BackedByTable, NoRules
  <2> QED
    BY <2>2, <2>3, <2>4
<1>2. ASSUME VerdictHit(k)
      PROVE  VerdictsFresh' /\ DecisionCurrent' /\ BackedByTable'
  <2>1. UNCHANGED <<firewall, transport>> /\ last' = [key |-> k, value |-> map[k].value]
    BY <1>2 DEF VerdictHit, Decide
  <2>2. Stamped(k)
    BY <1>2 DEF VerdictHit, Stamped, Held
  <2>3. Held' = Held /\ k \in Held
    <3>1. [blocked |-> FALSE, uid |-> NoUid] \in Verdict /\ {} \in SUBSET Held
      BY DEF Verdict
    <3> QED
      BY <2>2, <3>1, HeldAfter DEF Stamped
  <2>4. \A j \in Keys : map'[j].value = map[j].value
    BY <2>2 DEF Stamped, CacheTypeOK
  <2>5. VerdictsFresh'
    BY <2>1, <2>3, <2>4, PolicyUnchanged DEF VerdictsFresh, Held
  <2>6. DecisionCurrent'
    BY <2>1, <2>3, PolicyUnchanged DEF DecisionCurrent, VerdictsFresh
  <2>7. BackedByTable'
    BY <2>1, <2>3, <2>4 DEF BackedByTable
  <2> QED
    BY <2>5, <2>6, <2>7
<1>3. ASSUME NEW uid \in Uids \cup {NoUid}, VerdictMiss(k, uid)
      PROVE  VerdictsFresh' /\ DecisionCurrent' /\ BackedByTable'
  <2> DEFINE v == [blocked |-> policy_blocks(uid), uid |-> uid]
  <2>1. UNCHANGED <<firewall, transport>> /\ last' = [key |-> k, value |-> v]
    BY <1>3 DEF VerdictMiss, Decide
  <2>2. PICK S \in SUBSET Held : Written(k, v, S)
    BY <1>3, MissWrites
  <2>3. Held' = S \cup {k} /\ k \notin Held
    <3>1. v \in Verdict
      BY <1>3, MissWrites
    <3> QED
      BY <2>2, <3>1, HeldAfter DEF Written
  <2>4. map'[k].value = v /\ \A j \in S : map'[j] = map[j]
    BY <2>2, <2>3 DEF Written, Held
  <2>5. VerdictsFresh'
    BY <2>1, <2>3, <2>4, PolicyUnchanged DEF VerdictsFresh
  <2>6. DecisionCurrent'
    BY <2>1, PolicyUnchanged DEF DecisionCurrent
  <2>7. BackedByTable'
    BY <2>1, <2>3, <2>4 DEF BackedByTable
  <2> QED
    BY <2>5, <2>6, <2>7
<1> QED
    BY <1>1, <1>2, <1>3

\* An empty table satisfies everything said about entries.
LEMMA EmptiedStep ==
    ASSUME CacheTypeOK, CacheTypeOK', CacheSafety, Emptied, last' = Absent
    PROVE  CacheSafety'
<1>1. [blocked |-> FALSE, uid |-> NoUid] \in Verdict /\ {} \in SUBSET Held
    BY DEF Verdict
<1>2. \A k \in Keys : Held' = {}
    BY <1>1, HeldAfter
<1>3. Held' = {}
    BY <1>2 DEF Held
<1>4. Cardinality(Held') <= Cap
    BY <1>3, FS_EmptySet, CacheAssumption
<1> QED
    BY <1>3, <1>4 DEF CacheSafety, VerdictsFresh, DecisionCurrent, BackedByTable, CapRespected,
                     StampsDistinct

\* The decisions enforced are always the current policy's, within the bound of
\* the table, through every interleaving of packets, rule changes, transport
\* changes and evictions.
THEOREM CacheSafetyStep == CacheSafety /\ [CacheNext]_cache_vars => CacheSafety'
<1> SUFFICES ASSUME CacheSafety, [CacheNext]_cache_vars PROVE CacheSafety'
    OBVIOUS
<1>0. CacheTypeOK /\ CacheTypeOK'
    BY CacheTypeStep DEF CacheSafety
<1>a. [blocked |-> FALSE, uid |-> NoUid] \in Verdict /\ {} \in SUBSET Held
    BY DEF Verdict
<1>1. CASE UNCHANGED cache_vars
    BY <1>1 DEF cache_vars, CacheSafety, CacheTypeOK, VerdictsFresh, DecisionCurrent, BackedByTable,
                CapRespected, StampsDistinct, Held, NoRules, policy_blocks
<1>2. ASSUME NEW k \in Keys, VerdictBypass(k) PROVE CacheSafety'
  <2>1. UNCHANGED <<map, tick>>
    BY <1>2 DEF VerdictBypass
  <2> QED
    BY <1>0, <1>2, <2>1, DecisionStep DEF CacheSafety, CapRespected, StampsDistinct, Held
<1>3. ASSUME NEW k \in Keys, VerdictHit(k) PROVE CacheSafety'
  <2>1. Stamped(k)
    BY <1>3 DEF VerdictHit, Stamped, Held
  <2>2. StampsDistinct'
    BY <1>0, <1>a, <2>1, StampsStep DEF CacheSafety
  <2>3. CapRespected'
    BY <1>0, <2>1, TableCapStep DEF CacheSafety
  <2> QED
    BY <1>0, <1>3, <2>2, <2>3, DecisionStep DEF CacheSafety
<1>4. ASSUME NEW k \in Keys, NEW uid \in Uids \cup {NoUid}, VerdictMiss(k, uid)
      PROVE  CacheSafety'
  <2> DEFINE v == [blocked |-> policy_blocks(uid), uid |-> uid]
  <2>1. v \in Verdict /\ \E S \in SUBSET Held : Written(k, v, S)
    BY <1>0, <1>4, MissWrites
  <2>2. StampsDistinct'
    BY <1>0, <2>1, StampsStep DEF CacheSafety
  <2>3. CapRespected'
    BY <1>0, <1>4, TableCapStep DEF CacheSafety
  <2> QED
    BY <1>0, <1>4, <2>2, <2>3, DecisionStep DEF CacheSafety
<1>5. ASSUME NEW rules \in [Uids -> Policies \cup {NoRule}], SetFirewall(rules)
      PROVE  CacheSafety'
    BY <1>0, <1>5, EmptiedStep DEF SetFirewall, Emptied
<1>6. ASSUME NEW t \in Transports, SetTransport(t) PROVE CacheSafety'
  <2>1. CASE t # transport
    BY <1>0, <1>6, <2>1, EmptiedStep DEF SetTransport, Emptied
  <2>2. CASE t = transport
    <3>1. UNCHANGED <<firewall, transport, map, tick>> /\ last' = Absent
      BY <1>6, <2>2 DEF SetTransport
    <3> QED
      BY <1>0, <3>1, PolicyUnchanged DEF CacheSafety, VerdictsFresh, DecisionCurrent,
         BackedByTable, CapRespected, StampsDistinct, Held
  <2> QED
    BY <2>1, <2>2
<1>7. ASSUME NEW open \in BOOLEAN, SetLogOpen(open) PROVE CacheSafety'
  <2>1. UNCHANGED <<firewall, transport, map, tick>> /\ last' = Absent
    BY <1>7 DEF SetLogOpen
  <2> QED
    BY <1>0, <2>1, PolicyUnchanged DEF CacheSafety, VerdictsFresh, DecisionCurrent,
       BackedByTable, CapRespected, StampsDistinct, Held
<1>8. ASSUME NEW k \in Keys, NEW u \in Uids, Rebind(k, u) PROVE CacheSafety'
  <2>1. UNCHANGED <<firewall, transport, map, tick>> /\ last' = Absent
    BY <1>8 DEF Rebind
  <2> QED
    BY <1>0, <2>1, PolicyUnchanged DEF CacheSafety, VerdictsFresh, DecisionCurrent,
       BackedByTable, CapRespected, StampsDistinct, Held
<1> QED
    BY <1>1, <1>2, <1>3, <1>4, <1>5, <1>6, <1>7, <1>8 DEF CacheNext

\* The rules start empty and so does the table.
LEMMA CacheSafetyInit == CacheInit => CacheSafety
<1> SUFFICES ASSUME CacheInit PROVE CacheSafety
    OBVIOUS
<1>1. CacheTypeOK
    BY CacheAssumption DEF CacheInit, CacheTypeOK, EmptyTable, Transports
<1>2. Held = {}
    BY DEF CacheInit, Held, EmptyTable
<1>3. CapRespected
    BY <1>2, FS_EmptySet, CacheAssumption DEF CapRespected
<1> QED
    BY <1>1, <1>2, <1>3 DEF CacheInit, CacheSafety, VerdictsFresh, DecisionCurrent, BackedByTable,
                           StampsDistinct

\* No state of the firewall enforces a decision of an older policy, exceeds the
\* table's capacity or leaves the eviction order ambiguous.
THEOREM CacheCorrect == CacheSpec => [](VerdictsFresh /\ DecisionCurrent /\ BackedByTable
                                      /\ CapRespected /\ StampsDistinct)
<1>1. CacheSafety => VerdictsFresh /\ DecisionCurrent /\ BackedByTable /\ CapRespected
                  /\ StampsDistinct
    BY DEF CacheSafety
<1> QED
    BY <1>1, CacheSafetyInit, CacheSafetyStep, PTL DEF CacheSpec

\* Whatever packets, rule changes, transport changes and evictions came before, the
\* decision in hand is the current policy's and, while a rule exists, the table's.
THEOREM DecisionsSound == CacheSpec => []DecisionSound
<1>1. VerdictsFresh /\ DecisionCurrent /\ BackedByTable /\ CapRespected /\ StampsDistinct
        => DecisionSound
    BY DEF DecisionSound
<1> QED
    BY <1>1, CacheCorrect, PTL

-----------------------------------------------------------------------------
(* The firewall: the table implements the LRU cache *)

\* The order of last use that the stamps encode.
Older == {p \in Held \X Held : map[p[1]].last_used < map[p[2]].last_used}

\* Each kind of table change is the LRU cache's step on the keys held and the
\* order of their stamps: stamping a key makes it the newest of those held.
LEMMA StampedIsTouch ==
    ASSUME CacheTypeOK, CacheTypeOK', StampsDistinct, NEW k \in Keys, Stamped(k)
    PROVE  Lru!Touch(k)
<1>1. Held' = Held
  <2>1. [blocked |-> FALSE, uid |-> NoUid] \in Verdict /\ {} \in SUBSET Held
    BY DEF Verdict
  <2> QED
    BY <2>1, HeldAfter
<1>2. \A j \in Held : map'[j].last_used = IF j = k THEN tick + 1 ELSE map[j].last_used
    BY DEF Stamped, CacheTypeOK, Held
<1>3. \A j \in Held : map[j].last_used \in Nat /\ map[j].last_used <= tick
    BY DEF CacheTypeOK, Entry, Held, StampsDistinct
<1>4. tick \in Nat /\ k \in Held
    BY DEF CacheTypeOK, Stamped
<1>5. Older' = {p \in Older : p[1] \in Held \ {k} /\ p[2] \in Held \ {k}}
                 \cup {<<a, k>> : a \in Held \ {k}}
    BY <1>1, <1>2, <1>3, <1>4 DEF Older
<1> QED
    BY <1>1, <1>4, <1>5 DEF Older, Lru!Touch, Lru!Newest, Lru!Among

\* Writing k over the entries of S makes it the newest of S \cup {k}.
LEMMA WrittenOrder ==
    ASSUME CacheTypeOK, CacheTypeOK', StampsDistinct, NEW k \in Keys, NEW v \in Verdict,
           NEW S \in SUBSET Held, Written(k, v, S)
    PROVE  /\ Held' = S \cup {k}
           /\ Older' = {p \in Older : p[1] \in S \ {k} /\ p[2] \in S \ {k}}
                          \cup {<<a, k>> : a \in S \ {k}}
<1>1. Held' = S \cup {k} /\ k \notin Held
    BY HeldAfter DEF Written
<1>2. \A j \in S \cup {k} : map'[j].last_used = IF j = k THEN tick + 2 ELSE map[j].last_used
    BY DEF Written, CacheTypeOK, Held
<1>3. \A j \in Held : map[j].last_used \in Nat /\ map[j].last_used <= tick
    BY DEF CacheTypeOK, Entry, Held, StampsDistinct
<1>4. tick \in Nat
    BY DEF CacheTypeOK
<1>5. Older' = {p \in Older : p[1] \in S \ {k} /\ p[2] \in S \ {k}}
                 \cup {<<a, k>> : a \in S \ {k}}
    BY <1>1, <1>2, <1>3, <1>4 DEF Older
<1> QED
    BY <1>1, <1>5

\* LruCache counts its keys as this module does.
LEMMA SameCardinality == \A S : Lru!Cardinality(S) = Cardinality(S)
BY DEF Cardinality, Lru!Cardinality

\* A step of the firewall is a step of the LRU cache or leaves it alone.
LEMMA LruStep == CacheSafety /\ CacheSafety' /\ [CacheNext]_cache_vars => [Lru!Next]_(Lru!vars)
<1> SUFFICES ASSUME CacheSafety, CacheSafety', [CacheNext]_cache_vars PROVE [Lru!Next]_(Lru!vars)
    OBVIOUS
<1>0. CacheTypeOK /\ CacheTypeOK' /\ StampsDistinct
    BY DEF CacheSafety
<1>u. ASSUME map' = map PROVE UNCHANGED Lru!vars
    BY <1>u DEF Lru!vars, Held
<1>e. ASSUME Emptied PROVE Lru!Clear
  <2>1. Held' = {}
    BY <1>e, CacheAssumption DEF Emptied, EmptyTable, Held
  <2> QED
    BY <2>1 DEF Lru!Clear
<1>1. CASE UNCHANGED cache_vars
    BY <1>1, <1>u DEF cache_vars
<1>2. ASSUME NEW k \in Keys, VerdictBypass(k) PROVE [Lru!Next]_(Lru!vars)
    BY <1>2, <1>u DEF VerdictBypass
<1>3. ASSUME NEW k \in Keys, VerdictHit(k) PROVE [Lru!Next]_(Lru!vars)
  <2>1. Stamped(k)
    BY <1>3 DEF VerdictHit, Stamped, Held
  <2>2. Lru!Touch(k)
    BY <1>0, <2>1, StampedIsTouch
  <2> QED
    BY <2>2 DEF Lru!Next
<1>4. ASSUME NEW k \in Keys, NEW uid \in Uids \cup {NoUid}, VerdictMiss(k, uid)
      PROVE  [Lru!Next]_(Lru!vars)
  <2> DEFINE v == [blocked |-> policy_blocks(uid), uid |-> uid]
  <2>1. v \in Verdict
    BY <1>0, <1>4, MissWrites
  <2>a. k \notin Held
    BY <1>4 DEF VerdictMiss, Held
  <2>2. CASE Cardinality(Held) < Cap /\ Written(k, v, Held)
    <3>1. /\ Held' = Held \cup {k}
          /\ Older' = {p \in Older : p[1] \in Held \ {k} /\ p[2] \in Held \ {k}}
                         \cup {<<a, k>> : a \in Held \ {k}}
      BY <1>0, <2>1, <2>2, WrittenOrder
    <3>a. Cardinality(Held) < Cap
      BY <2>2
    <3>2. Lru!Insert(k)
      BY <2>a, <3>1, <3>a, SameCardinality DEF Lru!Insert, Lru!Newest, Lru!Among, Older
    <3> QED
      BY <3>2 DEF Lru!Next
  <2>3. ASSUME NEW lru \in Held, Cardinality(Held) >= Cap, IsLru(lru),
               Written(k, v, Held \ {lru})
        PROVE  [Lru!Next]_(Lru!vars)
    <3>1. \A b \in Held \ {lru} : <<lru, b>> \in Older
      <4>1. \A j \in Held : map[j].last_used \in Nat
        BY <1>0 DEF CacheTypeOK, Entry, Held
      <4> QED
        BY <1>0, <2>3, <4>1 DEF IsLru, StampsDistinct, Older
    <3>2. /\ Held' = (Held \ {lru}) \cup {k}
          /\ Older' = {p \in Older : /\ p[1] \in (Held \ {lru}) \ {k}
                                     /\ p[2] \in (Held \ {lru}) \ {k}}
                         \cup {<<a, k>> : a \in (Held \ {lru}) \ {k}}
      BY <1>0, <2>1, <2>3, WrittenOrder
    <3>a. Cardinality(Held) >= Cap /\ lru \in Held
      BY <2>3
    <3>3. Lru!Replace(k, lru)
      BY <2>a, <3>a, <3>1, <3>2, SameCardinality DEF Lru!Replace, Lru!Newest, Lru!Among, Older
    <3> QED
      BY <3>3 DEF Lru!Next, Held
  <2> QED
    BY <1>0, <1>4, <2>2, <2>3, MissWrites
<1>5. ASSUME NEW rules \in [Uids -> Policies \cup {NoRule}], SetFirewall(rules)
      PROVE  [Lru!Next]_(Lru!vars)
    BY <1>5, <1>e DEF SetFirewall, Emptied, Lru!Next
<1>6. ASSUME NEW t \in Transports, SetTransport(t) PROVE [Lru!Next]_(Lru!vars)
    BY <1>6, <1>e, <1>u DEF SetTransport, Emptied, Lru!Next
<1>7. ASSUME NEW open \in BOOLEAN, SetLogOpen(open) PROVE [Lru!Next]_(Lru!vars)
    BY <1>7, <1>u DEF SetLogOpen
<1>8. ASSUME NEW k \in Keys, NEW u \in Uids, Rebind(k, u) PROVE [Lru!Next]_(Lru!vars)
    BY <1>8, <1>u DEF Rebind
<1> QED
    BY <1>1, <1>2, <1>3, <1>4, <1>5, <1>6, <1>7, <1>8 DEF CacheNext

\* The FlowTable with its stamps and its clock behaves as an LRU cache of
\* capacity Cap, whatever the packets and the commands.
THEOREM LruRefinement == CacheSpec => ImplementsLru
<1>1. CacheInit => Lru!Init
    BY DEF CacheInit, Lru!Init, Held, EmptyTable
<1> QED
    BY <1>1, CacheSafetyInit, CacheSafetyStep, LruStep, PTL DEF CacheSpec, ImplementsLru, Lru!Spec
=============================================================================
