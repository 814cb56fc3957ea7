--------------------------- MODULE RuntimeProofs ---------------------------
(***************************************************************************)
(* Proofs about the datapath thread of Runtime: its state keeps its shape  *)
(* and each descriptor its one owner, the callers' commands take effect in *)
(* order, every packet is told once, and a capture has a flow's secrets    *)
(* before what they decrypt.                                               *)
(***************************************************************************)
EXTENDS Runtime, TLAPS, SequenceTheorems

Alive == pc \notin {"ended", "panicked"}

\* The types of the state.
PcStates == {"starting", "poll", "exit", "turn", "outbox", "flush", "ended", "panicked"}

Command ==
    [op : {"StartPcap"}, fd : Fds, ring_bytes : RingBytes] \cup [op : {"StopPcap"}]
        \cup [op : {"ExportHar"}, fd : Fds] \cup [op : {"SetLogOpen"}, open : BOOLEAN]
        \cup [op : {"UpdateFirewall"}, rules : SUBSET Apps]

Writer == [fd : Fds \cup {0}, cap : Nat, written : Nat, stopped : BOOLEAN]
Blocks == AllKinds \cup {"header", "secrets", "reply"}
Packet == [kind : AllKinds, uid : Apps]
Events == [kind : {"flow", "block", "coarse"}, of : Seq(Nat)]

Types ==
    /\ pc \in PcStates /\ caller \in {"running", "joining", "joined"} /\ stop \in BOOLEAN
    /\ todo \in Seq(Command) /\ queue \in Seq(Command) /\ sent \in Seq(Command)
    /\ tun \in Seq(Nat) /\ kind \in Seq(Packet)
    /\ read \in Seq(Nat) /\ coarse \in Seq(Nat)
    /\ batch \in Seq(Events) /\ told \in Seq(Events) /\ lost \in Seq(Events)
    /\ log_open \in BOOLEAN /\ firewall \subseteq Apps
    /\ tls \in {"none", "hello", "up", "replied"}
    /\ keylog \in {{}, {"secrets"}} /\ outbox \in {<<>>, <<"reply">>}
    /\ pcap \in Writer /\ (pcap.fd = 0 => pcap = NoPcap)
    /\ file \in [Fds -> Seq(Blocks)]
    /\ closed \in Seq(Fds) /\ broken \subseteq Fds

-----------------------------------------------------------------------------
(* The commands *)

\* The commands applied so far: the first of those sent.
Applied == Len(sent) - Len(todo) - Len(queue)

\* A descriptor is named by its command; what was not applied is what the thread
\* drained, then what is queued.
Backlog ==
    /\ Len(sent) <= MaxCommands
    /\ \A i \in DOMAIN sent : sent[i].op \in {"StartPcap", "ExportHar"} => sent[i].fd = i
    /\ Alive => /\ Applied >= 0
                /\ \A i \in DOMAIN todo : todo[i] = sent[Applied + i]
                /\ \A i \in DOMAIN queue : queue[i] = sent[Applied + Len(todo) + i]
    /\ todo # <<>> => pc = "turn"

Injective(s) == \A i, j \in DOMAIN s : s[i] = s[j] => i = j

\* Of the descriptors of the commands applied, each was closed, once, or is the capture's.
Owned ==
    /\ Injective(closed)
    /\ Alive => /\ \A d \in ToSet(closed) :
                      d <= Applied /\ d # pcap.fd /\ sent[d].op \in {"StartPcap", "ExportHar"}
                /\ pcap.fd # 0 => pcap.fd <= Applied /\ sent[pcap.fd].op = "StartPcap"
                /\ \A i \in 1..Applied :
                      sent[i].op \in {"StartPcap", "ExportHar"} => i = pcap.fd \/ i \in ToSet(closed)

\* The command i is the last among the ops of those applied.
LastApplied(i, ops) ==
    sent[i].op \in ops /\ \A j \in 1..Applied : j > i => sent[j].op \notin ops

\* What the commands applied leave is what holds.
Settled ==
    Alive =>
        /\ \A i \in 1..Applied :
              /\ LastApplied(i, {"SetLogOpen"}) => log_open = sent[i].open
              /\ LastApplied(i, {"UpdateFirewall"}) => firewall = sent[i].rules
              /\ LastApplied(i, {"StartPcap", "StopPcap"}) =>
                    IF sent[i].op = "StopPcap" THEN pcap.fd = 0
                    ELSE pcap.fd = i \/ (pcap.fd = 0 /\ i \in broken)
        /\ pcap.fd # 0 => LastApplied(pcap.fd, {"StartPcap", "StopPcap"})

-----------------------------------------------------------------------------
(* The packets and their events *)

\* The packets that wait in the TUN come after those that were read.
Waiting ==
    /\ \A i, j \in DOMAIN tun : i < j => tun[i] < tun[j]
    /\ \A j \in DOMAIN tun : tun[j] \in 1..Len(kind)
    /\ \A i \in DOMAIN read : read[i] \in 1..Len(kind)
    /\ \A i \in DOMAIN read, j \in DOMAIN tun : read[i] < tun[j]

\* The events of es2 that are about one packet follow those of es1.
Before(es1, es2) ==
    \A i \in DOMAIN es1, j \in DOMAIN es2 :
        es1[i].kind # "coarse" /\ es2[j].kind # "coarse" => es1[i].of[1] < es2[j].of[1]

Apart(es1, es2) == PacketsOf(es1) \cap PacketsOf(es2) = {}

Single(es) == \A i \in DOMAIN es : es[i].kind # "coarse" => Len(es[i].of) = 1

Accounted ==
    /\ Once(told) /\ Once(lost) /\ Once(batch) /\ Injective(coarse)
    /\ Apart(told, lost) /\ Apart(told, batch) /\ Apart(lost, batch)
    /\ \A es \in {told, lost, batch} : PacketsOf(es) \cap ToSet(coarse) = {}
    /\ PacketsOf(told) \cup PacketsOf(lost) \cup PacketsOf(batch) \cup ToSet(coarse) = ToSet(read)

Ordered ==
    /\ InOrder(told) /\ InOrder(batch) /\ Before(told, batch)
    /\ Single(told) /\ Single(batch)

\* Nothing is held before the loop, nor after an end without a panic.
NothingHeld == pc \in {"starting", "ended"} => batch = <<>> /\ coarse = <<>>

Telling == Waiting /\ Accounted /\ Ordered /\ NothingHeld

-----------------------------------------------------------------------------
(* The splice and the capture *)

\* Where the one flow is, by what the apps sent and the thread holds.
Flow ==
    /\ \A i, j \in DOMAIN kind : kind[i].kind = "hello" /\ kind[j].kind = "hello" => i = j
    /\ \A i \in DOMAIN tun : kind[tun[i]].kind = "hello" => tls = "none"
    /\ tls # "none" => \E i \in DOMAIN kind : kind[i].kind = "hello"
    /\ \A i \in DOMAIN kind : kind[i].kind = "record" => tls = "replied"
    /\ keylog # {} => tls = "up" /\ pc \in {"outbox", "panicked"}
    /\ outbox # <<>> <=> keylog # {}

\* What is decrypted with the secrets is not captured before they are given out.
Undecrypted ==
    tls \in {"none", "hello"} \/ keylog # {} =>
        \A d \in Fds : \A i \in DOMAIN file[d] : file[d][i] \notin {"reply", "record"}

\* The hello of a file, if any, is followed by the secrets.
Followed(blocks) ==
    \A i \in DOMAIN blocks : blocks[i] = "hello" => \E k \in DOMAIN blocks : k > i /\ blocks[k] = "secrets"

\* The secrets come before what they decrypt.
SecretsFirstIn(blocks) ==
    \A i, j \in DOMAIN blocks :
        blocks[i] = "hello" /\ i < j /\ blocks[j] \in {"reply", "record"} =>
            \E k \in i..j : blocks[k] = "secrets"

\* A capture that still takes blocks once the secrets were given out.
Keyed ==
    pcap.fd # 0 /\ ~pcap.stopped /\ pcap.fd \notin broken
        /\ tls \in {"up", "replied"} /\ keylog = {} => Followed(file[pcap.fd])

NoHelloYet == tls = "none" => \A d \in Fds : \A i \in DOMAIN file[d] : file[d][i] # "hello"

Keys == Flow /\ Undecrypted /\ Keyed /\ NoHelloYet /\ SecretsFirst

IInv == Types /\ Backlog /\ Owned /\ Settled /\ Telling /\ Keys

USE DEF thread, session, apps, events, settings, splice, capture

-----------------------------------------------------------------------------
(* The state keeps its shape *)

LEMMA InitTypes ==
  ASSUME RuntimeAssumption, Init
  PROVE  Types
<1>1. \A S : <<>> \in Seq(S)
  BY EmptySeq
<1>2. log_open \in BOOLEAN
  BY DEF Init, RuntimeAssumption
<1>3. pcap \in Writer /\ pcap = NoPcap
  BY DEF Init, Writer, NoPcap
<1>4. file \in [Fds -> Seq(Blocks)]
  BY <1>1 DEF Init
<1>5. broken \subseteq Fds /\ firewall \subseteq Apps
  BY DEF Init
<1> QED
  BY <1>1, <1>2, <1>3, <1>4, <1>5, Zenon DEF Init, Types, PcStates

\* A write gives a writer and the files.
LEMMA WriteBlockPair ==
  ASSUME NEW p, NEW f, NEW b
  PROVE  write_block(<<p, f>>, b) = <<write_block(<<p, f>>, b)[1], write_block(<<p, f>>, b)[2]>>
BY DEF write_block

\* A block that is written goes to the end of the capture's file; what is not
\* written leaves everything as it was.
Wrote(p, f, b, q, g) ==
    \/ /\ p.fd = 0 \/ p.stopped \/ p.fd \in broken
       /\ q = p /\ g = f
    \/ /\ p.fd \in Fds /\ ~p.stopped /\ p.fd \notin broken
       /\ q \in Writer /\ q.fd = p.fd
       /\ g \in [Fds -> Seq(Blocks)]
       /\ g = [f EXCEPT ![p.fd] = Append(@, b)]

LEMMA WriteBlock ==
  ASSUME NEW p \in Writer, NEW f \in [Fds -> Seq(Blocks)], NEW b \in Blocks,
         NEW q, NEW g, <<q, g>> = write_block(<<p, f>>, b)
  PROVE  Wrote(p, f, b, q, g)
<1>1. CASE p.fd = 0 \/ p.stopped \/ p.fd \in broken
  BY <1>1 DEF write_block, Wrote
<1>2. CASE ~(p.fd = 0 \/ p.stopped \/ p.fd \in broken)
  <2>1. p.fd \in Fds /\ p.cap \in Nat /\ p.written \in Nat
    BY <1>2 DEF Writer
  <2>2. /\ q = [p EXCEPT !.written = p.written + 1,
                         !.stopped = p.cap > 0 /\ p.written + 1 >= p.cap]
        /\ g = [f EXCEPT ![p.fd] = Append(@, b)]
    BY <1>2 DEF write_block
  <2>3. q \in Writer /\ q.fd = p.fd
    <3>1. p.written + 1 \in Nat /\ (p.cap > 0 /\ p.written + 1 >= p.cap) \in BOOLEAN
      BY <2>1
    <3> QED
      BY <2>2, <3>1, Zenon DEF Writer
  <2>4. Append(f[p.fd], b) \in Seq(Blocks)
    BY <2>1, AppendProperties
  <2>5. g \in [Fds -> Seq(Blocks)]
    BY <2>1, <2>2, <2>4
  <2> QED
    BY <1>2, <2>1, <2>2, <2>3, <2>5 DEF Wrote
<1> QED
  BY <1>1, <1>2

\* The writes of a turn: what the writer and its file become.
LEMMA TapTypes ==
  ASSUME Types, NEW b \in Blocks, tap(b)
  PROVE  /\ pcap' \in Writer /\ pcap'.fd = pcap.fd /\ (pcap'.fd = 0 => pcap' = NoPcap)
         /\ file' \in [Fds -> Seq(Blocks)]
         /\ closed' = closed /\ broken' = broken
<1>1. <<pcap', file'>> = write_block(<<pcap, file>>, b)
  BY DEF tap, captured, write_block
<1>2. pcap \in Writer /\ file \in [Fds -> Seq(Blocks)] /\ (pcap.fd = 0 => pcap = NoPcap)
  BY DEF Types
<1>3. 0 \notin Fds
  BY DEF Fds
<1>4. \/ pcap' = pcap /\ file' = file
      \/ pcap.fd \in Fds /\ pcap' \in Writer /\ pcap'.fd = pcap.fd /\ file' \in [Fds -> Seq(Blocks)]
  <2>1. Wrote(pcap, file, b, pcap', file')
    BY <1>1, <1>2, WriteBlock
  <2> QED
    BY <2>1 DEF Wrote
<1>5. closed' = closed /\ broken' = broken
  BY DEF tap, captured
<1> QED
  BY <1>2, <1>3, <1>4, <1>5

\* The secrets and the packets of a pass, one after the other, or neither.
LEMMA OutboxTypes ==
  ASSUME Types, captured(take_outbox)
  PROVE  /\ pcap' \in Writer /\ pcap'.fd = pcap.fd /\ (pcap'.fd = 0 => pcap' = NoPcap)
         /\ file' \in [Fds -> Seq(Blocks)]
         /\ closed' = closed /\ broken' = broken
<1>1. pcap \in Writer /\ file \in [Fds -> Seq(Blocks)] /\ (pcap.fd = 0 => pcap = NoPcap)
  BY DEF Types
<1>2. 0 \notin Fds /\ "secrets" \in Blocks /\ "reply" \in Blocks
  BY DEF Fds, Blocks
<1> DEFINE wf == write_tls_secrets(<<pcap, file>>)
<1>3. wf = <<wf[1], wf[2]>>
  BY WriteBlockPair DEF write_tls_secrets
<1> DEFINE vf == write_packets(wf)
<1>4. vf = <<vf[1], vf[2]>>
  BY <1>3, WriteBlockPair DEF write_packets
<1>5. <<pcap', file'>> = vf
  BY <1>4 DEF captured, take_outbox
<1> HIDE DEF vf
<1>6. /\ wf[1] \in Writer /\ wf[1].fd = pcap.fd /\ (wf[1].fd = 0 => wf[1] = NoPcap)
      /\ wf[2] \in [Fds -> Seq(Blocks)]
  <2>1. CASE keylog = {}
    BY <2>1, <1>1 DEF write_tls_secrets
  <2>2. CASE keylog # {}
    <3>1. wf = write_block(<<pcap, file>>, "secrets")
      BY <2>2 DEF write_tls_secrets
    <3> HIDE DEF wf
    <3>2. <<wf[1], wf[2]>> = write_block(<<pcap, file>>, "secrets")
      BY <1>3, <3>1
    <3>3. Wrote(pcap, file, "secrets", wf[1], wf[2])
      BY <3>2, <1>1, <1>2, WriteBlock
    <3> QED
      BY <3>3, <1>1, <1>2 DEF Wrote
  <2> QED
    BY <2>1, <2>2
<1> HIDE DEF wf
<1>7. CASE outbox = <<>>
  <2>1. vf = <<wf[1], wf[2]>>
    BY <1>3, <1>7 DEF vf, write_packets
  <2> QED
    BY <2>1, <1>2, <1>5, <1>6 DEF captured
<1>8. CASE outbox # <<>>
  <2>1. outbox[1] = "reply"
    BY <1>8 DEF Types
  <2>2. <<pcap', file'>> = write_block(<<wf[1], wf[2]>>, "reply")
    BY <1>3, <1>5, <1>8, <2>1 DEF vf, write_packets
  <2>3. \/ pcap' = wf[1] /\ file' = wf[2]
        \/ pcap' \in Writer /\ pcap'.fd = wf[1].fd /\ file' \in [Fds -> Seq(Blocks)]
                /\ wf[1].fd \in Fds
    <3>1. Wrote(wf[1], wf[2], "reply", pcap', file')
      BY <2>2, <1>2, <1>6, WriteBlock
    <3> QED
      BY <3>1 DEF Wrote
  <2> QED
    BY <2>3, <1>2, <1>6 DEF captured
<1> QED
  BY <1>7, <1>8

\* The capture is dropped, and its file closed.
LEMMA StopTypes ==
  ASSUME Types, stop_pcap
  PROVE  /\ pcap' \in Writer /\ pcap' = NoPcap
         /\ closed' \in Seq(Fds) /\ file' = file /\ broken' = broken
<1>1. NoPcap \in Writer
  BY DEF NoPcap, Writer
<1>2. Dropped \in Seq(Fds)
  BY EmptySeq DEF Dropped, Types, Writer
<1>3. closed \o Dropped \in Seq(Fds)
  BY <1>2, ConcatProperties DEF Types
<1> QED
  BY <1>1, <1>3 DEF stop_pcap

LEMMA StartTypes ==
  ASSUME RuntimeAssumption, Types, NEW fd \in Fds, NEW n \in RingBytes, start_pcap(fd, n)
  PROVE  /\ pcap' \in Writer /\ (pcap'.fd = 0 => pcap' = NoPcap)
         /\ closed' \in Seq(Fds) /\ file' \in [Fds -> Seq(Blocks)] /\ broken' = broken
<1>1. NoPcap \in Writer /\ new_writer(fd, n) \in Writer /\ new_writer(fd, n).fd # 0
  BY DEF NoPcap, new_writer, Writer, RuntimeAssumption, Fds
<1>2. Dropped \in Seq(Fds)
  BY EmptySeq DEF Dropped, Types, Writer
<1>3. Append(closed, fd) \in Seq(Fds)
  BY AppendProperties DEF Types
<1>4. closed \o Dropped \in Seq(Fds) /\ Append(closed, fd) \o Dropped \in Seq(Fds)
  BY <1>2, <1>3, ConcatProperties DEF Types
<1>5. <<"header">> \in Seq(Blocks)
  BY DEF Blocks
<1>6. [file EXCEPT ![fd] = <<"header">>] \in [Fds -> Seq(Blocks)]
  BY <1>5 DEF Types
<1>7. file \in [Fds -> Seq(Blocks)]
  BY DEF Types
<1> QED
  BY <1>1, <1>4, <1>6, <1>7 DEF start_pcap

\* What a flush gives out, or loses.
LEMMA FlushTypes ==
  ASSUME Types, flush
  PROVE  /\ told' \in Seq(Events) /\ lost' \in Seq(Events)
         /\ batch' = <<>> /\ coarse' = <<>> /\ read' = read
<1>1. take_coarse \in Seq(Events)
  <2>1. coarse \in Seq(Nat)
    BY DEF Types
  <2>2. Event_coarse(coarse) \in Events
    BY <2>1 DEF Event_coarse, Event, Events
  <2> QED
    BY <2>2, EmptySeq DEF take_coarse
<1>2. batch \o take_coarse \in Seq(Events)
  BY <1>1, ConcatProperties DEF Types
<1>3. /\ told \o (batch \o take_coarse) \in Seq(Events)
      /\ lost \o (batch \o take_coarse) \in Seq(Events)
  BY <1>2, ConcatProperties DEF Types
<1>4. told \in Seq(Events) /\ lost \in Seq(Events)
  BY DEF Types
<1> QED
  BY <1>3, <1>4 DEF flush, on_events, drain_encoded

\* A command that a caller sends.
LEMMA SendTypes ==
  ASSUME RuntimeAssumption, Types, send
  PROVE  /\ queue' \in Seq(Command) /\ sent' \in Seq(Command)
         /\ \E c \in Command :
               /\ queue' = Append(queue, c) /\ sent' = Append(sent, c)
               /\ c.op \in {"StartPcap", "ExportHar"} => c.fd = Len(sent) + 1
         /\ Len(sent) < MaxCommands
<1>1. Len(sent) \in Nat /\ Len(sent) < MaxCommands
  BY LenProperties DEF Types, send
<1>2. PICK c \in Commands : queue' = Append(queue, c) /\ sent' = Append(sent, c)
  BY DEF send
<1>3. c \in Command /\ (c.op \in {"StartPcap", "ExportHar"} => c.fd = Len(sent) + 1)
  <2>1. FreshFd \in Fds /\ FreshFd = Len(sent) + 1
    BY <1>1 DEF FreshFd, Fds, RuntimeAssumption
  <2> QED
    BY <2>1, <1>2 DEF Commands, nativeStartPcap, nativeStopPcap, nativeExportHar,
        nativeSetLogOpen, nativeUpdateFirewall, Command
<1>4. queue' \in Seq(Command) /\ sent' \in Seq(Command)
  BY <1>2, <1>3, AppendProperties DEF Types
<1> QED
  BY <1>1, <1>2, <1>3, <1>4

\* A packet that is read: its event goes into the batch or into the window.
LEMMA ReadTypes ==
  ASSUME Types, NEW n \in DOMAIN kind, on_tun_packet(n)
  PROVE  /\ read' \in Seq(Nat) /\ batch' \in Seq(Events) /\ coarse' \in Seq(Nat)
         /\ told' = told /\ lost' = lost
         /\ tap(kind[n].kind) /\ keylog' = keylog /\ outbox' = outbox
         /\ tls' = IF kind[n].kind = "hello" THEN "hello" ELSE tls
<1>1. n \in Nat
  BY LenProperties DEF Types
<1>2. Event("block", <<n>>) \in Events /\ Event("flow", <<n>>) \in Events
  BY <1>1 DEF Event, Events
<1>3. Append(read, n) \in Seq(Nat) /\ Append(coarse, n) \in Seq(Nat)
  BY <1>1, AppendProperties DEF Types
<1>4. /\ Append(batch, Event("block", <<n>>)) \in Seq(Events)
      /\ Append(batch, Event("flow", <<n>>)) \in Seq(Events)
  BY <1>2, AppendProperties DEF Types
<1>5. read \in Seq(Nat) /\ coarse \in Seq(Nat) /\ batch \in Seq(Events)
  BY DEF Types
<1> QED
  BY <1>3, <1>4, <1>5 DEF on_tun_packet, flow_event, push, coarse_add

LEMMA TypesStep ==
  ASSUME RuntimeAssumption, Types, Waiting, [Next]_vars
  PROVE  Types'
<1>1. CASE Starts
  <2>1. CASE UNCHANGED capture /\ pc' = "poll"
    BY <1>1, <2>1 DEF Starts, Types, PcStates, EndsEarly, Ends, stop_pcap
  <2>2. CASE EndsEarly
    BY <2>2, StopTypes DEF EndsEarly, Ends, Types, PcStates
  <2> QED
    BY <1>1, <2>1, <2>2 DEF Starts
<1>2. CASE polls
  <2>1. <<>> \in Seq(Command)
    BY EmptySeq
  <2> QED
    BY <1>2, <2>1 DEF polls, drained, Types, PcStates
<1>3. CASE applies
  <2> DEFINE c == Head(todo)
  <2>1. c \in Command /\ Tail(todo) \in Seq(Command)
    BY <1>3, HeadTailProperties DEF applies, Types
  <2>2. CASE c.op = "StartPcap" /\ start_pcap(c.fd, c.ring_bytes) /\ UNCHANGED settings
    <3>1. c.fd \in Fds /\ c.ring_bytes \in RingBytes
      BY <2>1, <2>2 DEF Command
    <3> QED
      BY <1>3, <2>1, <2>2, <3>1, StartTypes DEF applies, Types, start_pcap
  <2>3. CASE c.op = "StopPcap" /\ stop_pcap /\ UNCHANGED settings
    BY <1>3, <2>1, <2>3, StopTypes DEF applies, Types
  <2>4. CASE c.op = "ExportHar" /\ export_har(c.fd) /\ UNCHANGED settings
    <3>1. c.fd \in Fds
      BY <2>1, <2>4 DEF Command
    <3>2. Append(closed, c.fd) \in Seq(Fds)
      BY <3>1, AppendProperties DEF Types
    <3> QED
      BY <1>3, <2>1, <2>4, <3>2 DEF applies, Types, export_har
  <2>5. CASE c.op = "SetLogOpen" /\ log_open' = c.open /\ UNCHANGED <<firewall, capture>>
    <3>1. c.open \in BOOLEAN
      BY <2>1, <2>5 DEF Command
    <3> QED
      BY <1>3, <2>1, <2>5, <3>1 DEF applies, Types
  <2>6. CASE c.op = "UpdateFirewall" /\ firewall' = c.rules /\ UNCHANGED <<log_open, capture>>
    <3>1. c.rules \subseteq Apps
      BY <2>1, <2>6 DEF Command
    <3> QED
      BY <1>3, <2>1, <2>6, <3>1 DEF applies, Types
  <2> QED
    BY <1>3, <2>2, <2>3, <2>4, <2>5, <2>6 DEF applies
<1>4. CASE drain_tun
  <2> DEFINE n == Head(tun)
  <2>1. n \in Nat /\ Tail(tun) \in Seq(Nat) /\ n \in DOMAIN kind
    <3>1. tun # <<>> /\ tun \in Seq(Nat)
      BY <1>4 DEF drain_tun, Types
    <3>2. Len(tun) \in Nat \ {0} /\ n = tun[1]
      BY <3>1, EmptySeq
    <3>3. 1 \in DOMAIN tun /\ DOMAIN kind = 1..Len(kind)
      BY <3>1, <3>2, LenProperties DEF Types
    <3> QED
      BY <3>1, <3>2, <3>3, HeadTailProperties DEF Waiting
  <2>2. on_tun_packet(n) /\ tun' = Tail(tun) /\ UNCHANGED <<kind, thread, session, settings>>
    BY <1>4 DEF drain_tun
  <2> HIDE DEF n
  <2>3. kind[n].kind \in Blocks /\ kind[n].kind \in AllKinds
    <3>1. kind[n] \in Packet
      BY <2>1, LenProperties, ElementOfSeq DEF Types
    <3> QED
      BY <3>1 DEF Packet, Blocks
  <2>4. /\ read' \in Seq(Nat) /\ batch' \in Seq(Events) /\ coarse' \in Seq(Nat)
        /\ told' = told /\ lost' = lost
        /\ tap(kind[n].kind) /\ keylog' = keylog /\ outbox' = outbox
        /\ tls' = IF kind[n].kind = "hello" THEN "hello" ELSE tls
    BY <2>1, <2>2, ReadTypes
  <2>5. /\ pcap' \in Writer /\ pcap'.fd = pcap.fd /\ (pcap'.fd = 0 => pcap' = NoPcap)
        /\ file' \in [Fds -> Seq(Blocks)]
        /\ closed' = closed /\ broken' = broken
    BY <2>3, <2>4, TapTypes
  <2> QED
    BY <2>1, <2>2, <2>4, <2>5 DEF Types
<1>5. CASE service
  BY <1>5 DEF service, Types, PcStates, log_secrets
<1>6. CASE write_outbox
  <2>1. /\ pcap' \in Writer /\ pcap'.fd = pcap.fd /\ (pcap'.fd = 0 => pcap' = NoPcap)
        /\ file' \in [Fds -> Seq(Blocks)]
        /\ closed' = closed /\ broken' = broken
    BY <1>6, OutboxTypes DEF write_outbox
  <2>2. tls' \in {"none", "hello", "up", "replied"}
    BY <1>6 DEF write_outbox, Types
  <2> QED
    BY <1>6, <2>1, <2>2 DEF write_outbox, take_key_log, Types, PcStates
<1>7. CASE flushes
  <2>1. CASE flush
    BY <1>7, <2>1, FlushTypes, EmptySeq DEF flushes, Types, PcStates
  <2>2. CASE UNCHANGED events
    BY <1>7, <2>2 DEF flushes, Types, PcStates
  <2> QED
    BY <1>7, <2>1, <2>2 DEF flushes
<1>8. CASE exits
  BY <1>8, FlushTypes, StopTypes, EmptySeq DEF exits, Ends, Types, PcStates
<1>9. CASE Panics
  <2>1. <<>> \in Seq(Command)
    BY EmptySeq
  <2> QED
    BY <1>9, <2>1, StopTypes DEF Panics, Types, PcStates
<1>10. CASE send
  BY <1>10, SendTypes DEF send, Types
<1>11. CASE stop_begins
  BY <1>11 DEF stop_begins, Types
<1>12. CASE stop_joins
  <2>1. <<>> \in Seq(Command)
    BY EmptySeq
  <2> QED
    BY <1>12, <2>1 DEF stop_joins, Types
<1>13. CASE Sends
  <2>1. PICK k \in Kinds, a \in Apps : kind' = Append(kind, [kind |-> k, uid |-> a])
    BY <1>13 DEF Sends
  <2>2. [kind |-> k, uid |-> a] \in Packet
    BY DEF Packet, RuntimeAssumption
  <2>3. kind' \in Seq(Packet)
    BY <2>1, <2>2, AppendProperties DEF Types
  <2>4. Len(kind) + 1 \in Nat
    BY LenProperties DEF Types
  <2>5. tun' \in Seq(Nat)
    BY <1>13, <2>4, AppendProperties DEF Sends, Types
  <2> QED
    BY <1>13, <2>3, <2>5 DEF Sends, Types
<1>14. CASE FileBreaks
  <2>1. PICK d \in OpenFds : broken' = broken \cup {d}
    BY <1>14 DEF FileBreaks
  <2>2. PICK i \in DOMAIN sent : d = sent[i].fd /\ sent[i].op \in {"StartPcap", "ExportHar"}
    BY <2>1 DEF OpenFds, FdsOf, ToSet
  <2>3. sent[i] \in Command
    BY <2>2, LenProperties, ElementOfSeq DEF Types
  <2>4. d \in Fds
    BY <2>2, <2>3 DEF Command
  <2> QED
    BY <1>14, <2>1, <2>4 DEF FileBreaks, Types
<1>15. CASE UNCHANGED vars
  BY <1>15 DEF vars, Types
<1> QED
  BY <1>1, <1>2, <1>3, <1>4, <1>5, <1>6, <1>7, <1>8, <1>9, <1>10, <1>11, <1>12, <1>13,
     <1>14, <1>15 DEF Next, Thread

-----------------------------------------------------------------------------
(* The steps, by what they do to the commands and the descriptors *)

\* Commands and descriptors stay where they are.
StepIdle ==
    /\ UNCHANGED <<sent, queue, todo, closed, settings>>
    /\ pcap'.fd = pcap.fd /\ broken \subseteq broken'
    /\ Alive' = Alive /\ (todo # <<>> => pc' = pc)

\* The thread takes the queue.
StepDrains ==
    /\ pc = "poll" /\ pc' = "turn" /\ todo' = queue /\ queue' = <<>>
    /\ UNCHANGED <<sent, closed, settings, pcap, broken>>

\* The thread applies the command c.
StepApplies(c) ==
    /\ pc = "turn" /\ todo # <<>> /\ c = Head(todo) /\ todo' = Tail(todo)
    /\ UNCHANGED <<pc, sent, queue, broken>>
    /\ \/ c.op = "StartPcap" /\ start_pcap(c.fd, c.ring_bytes) /\ UNCHANGED settings
       \/ c.op = "StopPcap" /\ stop_pcap /\ UNCHANGED settings
       \/ c.op = "ExportHar" /\ export_har(c.fd) /\ UNCHANGED settings
       \/ c.op = "SetLogOpen" /\ log_open' = c.open /\ UNCHANGED <<firewall, pcap, closed>>
       \/ c.op = "UpdateFirewall" /\ firewall' = c.rules /\ UNCHANGED <<log_open, pcap, closed>>

\* The thread ends.
StepEnds ==
    /\ Alive /\ ~Alive' /\ stop_pcap
    /\ todo' = <<>> /\ UNCHANGED <<sent, queue, settings>>

\* A caller sends the command c.
StepSends(c) ==
    /\ c \in Command /\ (c.op \in {"StartPcap", "ExportHar"} => c.fd = Len(sent) + 1)
    /\ Len(sent) < MaxCommands
    /\ queue' = Append(queue, c) /\ sent' = Append(sent, c)
    /\ UNCHANGED <<pc, todo, closed, settings, pcap, broken>>

\* The session goes with its queue.
StepJoins ==
    /\ ~Alive /\ queue' = <<>>
    /\ UNCHANGED <<pc, todo, sent, closed, settings, pcap, broken>>

LEMMA Steps ==
  ASSUME RuntimeAssumption, Types, Waiting, Backlog, [Next]_vars
  PROVE  \/ StepIdle \/ StepDrains \/ StepEnds \/ StepJoins
         \/ (\E c \in Command : StepApplies(c)) \/ (\E c \in Command : StepSends(c))
<1>1. CASE Starts
  <2>1. todo = <<>>
    BY <1>1 DEF Starts, Backlog
  <2>2. CASE UNCHANGED <<todo, session, apps, events, settings, splice, capture>> /\ pc' = "poll"
    BY <1>1, <2>2, <2>1 DEF Starts, StepIdle, Alive
  <2>3. CASE EndsEarly
    BY <1>1, <2>1, <2>3 DEF Starts, EndsEarly, Ends, StepEnds, Alive
  <2> QED
    BY <1>1, <2>2, <2>3 DEF Starts
<1>2. CASE polls
  <2>1. todo = <<>>
    BY <1>2 DEF polls, Backlog
  <2> QED
    BY <1>2, <2>1 DEF polls, drained, StepIdle, StepDrains, Alive
<1>3. CASE applies
  <2>1. Head(todo) \in Command
    BY <1>3, HeadTailProperties DEF applies, Types
  <2>2. StepApplies(Head(todo))
    BY <1>3 DEF applies, StepApplies, start_pcap, stop_pcap, export_har
  <2> QED
    BY <2>1, <2>2
<1>4. CASE drain_tun
  <2> DEFINE n == Head(tun)
  <2>1. n \in DOMAIN kind
    <3>1. tun # <<>> /\ tun \in Seq(Nat)
      BY <1>4 DEF drain_tun, Types
    <3>2. Len(tun) \in Nat \ {0} /\ n = tun[1]
      BY <3>1, EmptySeq
    <3>3. 1 \in DOMAIN tun /\ DOMAIN kind = 1..Len(kind)
      BY <3>1, <3>2, LenProperties DEF Types
    <3> QED
      BY <3>1, <3>2, <3>3 DEF Waiting
  <2>2. todo = <<>> /\ pc' = pc /\ on_tun_packet(n) /\ UNCHANGED <<thread, session, settings>>
    BY <1>4 DEF drain_tun
  <2> HIDE DEF n
  <2>3. kind[n].kind \in Blocks
    <3>1. kind[n] \in Packet
      BY <2>1, LenProperties, ElementOfSeq DEF Types
    <3> QED
      BY <3>1 DEF Packet, Blocks
  <2>4. pcap'.fd = pcap.fd /\ closed' = closed /\ broken' = broken
    BY <2>1, <2>2, <2>3, ReadTypes, TapTypes
  <2> QED
    BY <2>2, <2>4 DEF StepIdle, Alive
<1>5. CASE service
  BY <1>5 DEF service, StepIdle, Alive
<1>6. CASE write_outbox
  <2>1. todo = <<>>
    BY <1>6 DEF write_outbox, Backlog
  <2>2. pcap'.fd = pcap.fd /\ closed' = closed /\ broken' = broken
    BY <1>6, OutboxTypes DEF write_outbox
  <2> QED
    BY <1>6, <2>1, <2>2 DEF write_outbox, StepIdle, Alive
<1>7. CASE flushes
  <2>1. todo = <<>>
    BY <1>7 DEF flushes, Backlog
  <2> QED
    BY <1>7, <2>1 DEF flushes, StepIdle, Alive
<1>8. CASE exits
  <2>1. todo = <<>>
    BY <1>8 DEF exits, Backlog
  <2> QED
    BY <1>8, <2>1 DEF exits, Ends, StepEnds, Alive
<1>9. CASE Panics
  BY <1>9 DEF Panics, StepEnds, Alive
<1>10. CASE send
  <2>1. PICK c \in Command :
           /\ queue' = Append(queue, c) /\ sent' = Append(sent, c)
           /\ c.op \in {"StartPcap", "ExportHar"} => c.fd = Len(sent) + 1
           /\ Len(sent) < MaxCommands
    BY <1>10, SendTypes
  <2>2. StepSends(c)
    BY <1>10, <2>1 DEF send, StepSends
  <2> QED
    BY <2>2
<1>11. CASE stop_begins
  BY <1>11 DEF stop_begins, StepIdle, Alive
<1>12. CASE stop_joins
  BY <1>12 DEF stop_joins, StepJoins, Alive
<1>13. CASE Sends
  BY <1>13 DEF Sends, StepIdle, Alive
<1>14. CASE FileBreaks
  BY <1>14 DEF FileBreaks, StepIdle, Alive
<1>15. CASE UNCHANGED vars
  BY <1>15 DEF vars, StepIdle, Alive
<1> QED
  BY <1>1, <1>2, <1>3, <1>4, <1>5, <1>6, <1>7, <1>8, <1>9, <1>10, <1>11, <1>12, <1>13,
     <1>14, <1>15 DEF Next, Thread

-----------------------------------------------------------------------------
(* The commands keep their order, and each descriptor its one owner *)

LEMMA Lengths ==
  ASSUME Types
  PROVE  /\ Len(sent) \in Nat /\ DOMAIN sent = 1..Len(sent)
         /\ Len(todo) \in Nat /\ DOMAIN todo = 1..Len(todo)
         /\ Len(queue) \in Nat /\ DOMAIN queue = 1..Len(queue)
         /\ Applied \in Int
BY LenProperties DEF Types, Applied

\* The command that is applied next, and what is left.
LEMMA NextApplied ==
  ASSUME Types, Backlog, NEW c \in Command, StepApplies(c)
  PROVE  /\ Applied >= 0 /\ Applied + 1 \in DOMAIN sent /\ c = sent[Applied + 1]
         /\ Applied' = Applied + 1 /\ sent' = sent /\ Alive /\ Alive'
         /\ Len(todo') = Len(todo) - 1
         /\ \A i \in 1..Len(todo') : todo'[i] = todo[i + 1]
<1>1. /\ todo # <<>> /\ todo \in Seq(Command) /\ c = Head(todo) /\ todo' = Tail(todo)
      /\ sent' = sent /\ queue' = queue /\ pc' = pc /\ Alive /\ Alive'
  BY DEF StepApplies, Types, Alive
<1>2. Len(todo) \in Nat \ {0} /\ c = todo[1]
  BY <1>1, EmptySeq
<1>3. Len(todo') = Len(todo) - 1 /\ \A i \in 1..Len(todo') : todo'[i] = todo[i + 1]
  BY <1>1, HeadTailProperties
<1>4. Applied' = Applied + 1
  BY <1>1, <1>3, Lengths DEF Applied
<1>5. Applied >= 0 /\ c = sent[Applied + 1]
  BY <1>1, <1>2, Lengths DEF Backlog
<1>6. Applied + 1 \in DOMAIN sent
  BY <1>2, <1>5, Lengths DEF Applied
<1> QED
  BY <1>1, <1>3, <1>4, <1>5, <1>6

LEMMA BacklogStep ==
  ASSUME RuntimeAssumption, Types, Waiting, Backlog, [Next]_vars
  PROVE  Backlog'
<1>1. CASE StepIdle
  BY <1>1 DEF StepIdle, Backlog, Applied
<1>2. CASE StepDrains
  <2>1. todo = <<>> /\ Len(todo) = 0
    BY <1>2 DEF StepDrains, Backlog
  <2>2. Len(todo') = Len(queue) /\ Len(queue') = 0 /\ DOMAIN queue' = {} /\ Alive
    BY <1>2 DEF StepDrains, Alive
  <2>3. Applied' = Applied /\ Applied \in Int
    BY <1>2, <2>1, <2>2, Lengths DEF StepDrains, Applied
  <2>4. \A i \in DOMAIN queue : queue[i] = sent[Applied + i]
    BY <2>1, <2>2, <2>3, Lengths DEF Backlog
  <2> QED
    BY <1>2, <2>2, <2>3, <2>4 DEF StepDrains, Backlog
<1>3. ASSUME NEW c \in Command, StepApplies(c) PROVE Backlog'
  <2>1. /\ Applied >= 0 /\ Applied' = Applied + 1 /\ sent' = sent /\ Alive
        /\ Len(todo') = Len(todo) - 1
        /\ \A i \in 1..Len(todo') : todo'[i] = todo[i + 1]
    BY <1>3, NextApplied
  <2>2. todo' \in Seq(Command) /\ queue' = queue /\ pc' = pc /\ pc = "turn"
    BY <1>3, TypesStep DEF StepApplies, Types
  <2>3. DOMAIN todo' = 1..Len(todo') /\ Len(todo') \in Nat
    BY <2>2, LenProperties
  <2>4. ASSUME NEW i \in DOMAIN todo' PROVE todo'[i] = sent[Applied' + i]
    <3>1. i + 1 \in DOMAIN todo /\ i \in Int
      BY <2>1, <2>3, <2>4, Lengths
    <3>2. todo[i + 1] = sent[Applied + (i + 1)]
      BY <2>1, <3>1 DEF Backlog
    <3>3. Applied + (i + 1) = Applied' + i
      BY <2>1, <3>1, Lengths
    <3> QED
      BY <2>1, <2>3, <2>4, <3>2, <3>3
  <2>5. ASSUME NEW i \in DOMAIN queue PROVE queue[i] = sent[Applied' + Len(todo') + i]
    <3>1. queue[i] = sent[Applied + Len(todo) + i]
      BY <2>1 DEF Backlog
    <3>2. Applied + Len(todo) + i = Applied' + Len(todo') + i
      BY <2>1, <2>3, Lengths
    <3> QED
      BY <3>1, <3>2
  <2> QED
    BY <2>1, <2>2, <2>4, <2>5, Lengths DEF Backlog
<1>4. CASE StepEnds
  BY <1>4 DEF StepEnds, Backlog
<1>5. CASE StepJoins
  BY <1>5 DEF StepJoins, Backlog, Alive
<1>6. ASSUME NEW c \in Command, StepSends(c) PROVE Backlog'
  <2>1. /\ queue' = Append(queue, c) /\ sent' = Append(sent, c)
        /\ c.op \in {"StartPcap", "ExportHar"} => c.fd = Len(sent) + 1
        /\ Len(sent) < MaxCommands /\ pc' = pc /\ todo' = todo /\ Alive' = Alive
    BY <1>6 DEF StepSends, Alive
  <2>2. /\ Len(sent') = Len(sent) + 1 /\ DOMAIN sent' = 1..(Len(sent) + 1)
        /\ \A i \in 1..Len(sent) : sent'[i] = sent[i]
        /\ sent'[Len(sent) + 1] = c
    BY <1>6, <2>1, AppendProperties, LenProperties DEF Types
  <2>3. /\ Len(queue') = Len(queue) + 1 /\ DOMAIN queue' = 1..(Len(queue) + 1)
        /\ \A i \in 1..Len(queue) : queue'[i] = queue[i]
        /\ queue'[Len(queue) + 1] = c
    BY <1>6, <2>1, AppendProperties, LenProperties DEF Types
  <2>4. Applied' = Applied
    BY <2>1, <2>2, <2>3, Lengths DEF Applied
  <2>5. \A i \in DOMAIN sent' : sent'[i].op \in {"StartPcap", "ExportHar"} => sent'[i].fd = i
    <3> SUFFICES ASSUME NEW i \in 1..(Len(sent) + 1), sent'[i].op \in {"StartPcap", "ExportHar"}
                 PROVE  sent'[i].fd = i
      BY <2>2
    <3>1. CASE i = Len(sent) + 1
      BY <2>1, <2>2, <3>1
    <3>2. CASE i # Len(sent) + 1
      <4>1. i \in 1..Len(sent)
        BY <3>2, Lengths
      <4> QED
        BY <2>2, <4>1, Lengths DEF Backlog
    <3> QED
      BY <3>1, <3>2
  <2>6. Len(sent') <= MaxCommands
    BY <2>1, <2>2, Lengths DEF RuntimeAssumption
  <2>7. ASSUME Alive, NEW i \in DOMAIN todo PROVE todo'[i] = sent'[Applied' + i]
    <3>1. todo[i] = sent[Applied + i]
      BY <2>7 DEF Backlog
    <3>2. Applied + i \in 1..Len(sent)
      BY <2>7, Lengths DEF Applied, Backlog
    <3> QED
      BY <2>1, <2>2, <2>4, <3>1, <3>2
  <2>8. ASSUME Alive, NEW i \in DOMAIN queue' PROVE queue'[i] = sent'[Applied' + Len(todo') + i]
    <3>1. CASE i = Len(queue) + 1
      <4>1. Applied + Len(todo) + i = Len(sent) + 1
        BY <3>1, Lengths DEF Applied
      <4> QED
        BY <2>1, <2>2, <2>3, <2>4, <3>1, <4>1
    <3>2. CASE i # Len(queue) + 1
      <4>1. i \in DOMAIN queue
        BY <2>3, <2>8, <3>2, Lengths
      <4>2. queue'[i] = sent[Applied + Len(todo) + i]
        BY <2>3, <2>8, <4>1, Lengths DEF Backlog
      <4>3. Applied + Len(todo) + i \in 1..Len(sent)
        BY <2>8, <4>1, Lengths DEF Applied, Backlog
      <4> QED
        BY <2>1, <2>2, <2>4, <4>2, <4>3
    <3> QED
      BY <3>1, <3>2
  <2> QED
    BY <2>1, <2>4, <2>5, <2>6, <2>7, <2>8 DEF Backlog
<1> QED
  BY <1>1, <1>2, <1>3, <1>4, <1>5, <1>6, Steps

\* One element more, which is not among the others.
LEMMA AppendDistinct ==
  ASSUME NEW S, NEW s \in Seq(S), Injective(s), NEW d \in S, d \notin ToSet(s)
  PROVE  /\ Append(s, d) \in Seq(S) /\ Injective(Append(s, d))
         /\ ToSet(Append(s, d)) = ToSet(s) \cup {d}
<1>1. /\ DOMAIN s = 1..Len(s) /\ Len(s) \in Nat
      /\ Append(s, d) \in Seq(S) /\ DOMAIN Append(s, d) = 1..(Len(s) + 1)
      /\ \A i \in 1..Len(s) : Append(s, d)[i] = s[i]
      /\ Append(s, d)[Len(s) + 1] = d
  BY AppendProperties, LenProperties
<1>2. \A i \in 1..(Len(s) + 1) : i \in 1..Len(s) \/ i = Len(s) + 1
  BY <1>1
<1>3. \A i \in 1..Len(s) : s[i] # d /\ i \in 1..(Len(s) + 1)
  BY <1>1 DEF ToSet
<1>4. Len(s) + 1 \in 1..(Len(s) + 1)
  BY <1>1
<1>5. Injective(Append(s, d))
  BY <1>1, <1>2, <1>3 DEF Injective
<1>6. ToSet(Append(s, d)) = ToSet(s) \cup {d}
  BY <1>1, <1>2, <1>3, <1>4 DEF ToSet
<1> QED
  BY <1>1, <1>5, <1>6

\* Dropping the capture closes its descriptor.
LEMMA DropClosed ==
  ASSUME Types, NEW s \in Seq(Fds), Injective(s), pcap.fd \notin ToSet(s)
  PROVE  /\ s \o Dropped \in Seq(Fds) /\ Injective(s \o Dropped)
         /\ ToSet(s \o Dropped) = ToSet(s) \cup ({pcap.fd} \ {0})
<1>1. CASE pcap.fd = 0
  <2>1. s \o Dropped = s
    BY <1>1, ConcatEmptySeq DEF Dropped
  <2> QED
    BY <1>1, <2>1
<1>2. CASE pcap.fd # 0
  <2>1. pcap.fd \in Fds
    BY <1>2 DEF Types, Writer
  <2>2. s \o Dropped = Append(s, pcap.fd)
    BY <1>2, <2>1, AppendIsConcat DEF Dropped
  <2> QED
    BY <1>2, <2>1, <2>2, AppendDistinct
<1> QED
  BY <1>1, <1>2

LEMMA OwnedStep ==
  ASSUME RuntimeAssumption, Types, Waiting, Backlog, Owned, [Next]_vars
  PROVE  Owned'
<1>1. CASE StepIdle
  BY <1>1 DEF StepIdle, Owned, Applied, Injective, ToSet
<1>2. CASE StepDrains
  <2>1. Applied' = Applied /\ Alive
    <3>1. Len(todo) = 0 /\ Len(queue') = 0
      BY <1>2, EmptySeq DEF StepDrains, Backlog
    <3> QED
      BY <1>2, <3>1, Lengths DEF StepDrains, Applied, Alive
  <2> QED
    BY <1>2, <2>1 DEF StepDrains, Owned, Injective, ToSet
<1>3. ASSUME NEW c \in Command, StepApplies(c) PROVE Owned'
  <2> DEFINE m == Applied + 1
  <2>1. /\ Applied >= 0 /\ Applied \in Int /\ m \in DOMAIN sent /\ c = sent[m]
        /\ Applied' = m /\ sent' = sent /\ Alive
    BY <1>3, NextApplied, Lengths
  <2>2. \A i \in 1..m : i \in 1..Applied \/ i = m
    BY <2>1
  <2>3. closed \in Seq(Fds) /\ Injective(closed) /\ pcap.fd \notin ToSet(closed) /\ m \notin ToSet(closed)
        /\ m # pcap.fd /\ \A d \in ToSet(closed) : d \in Int
    <3>1. closed \in Seq(Fds)
      BY DEF Types
    <3>2. \A d \in ToSet(closed) : d \in Fds
      BY <3>1, LenProperties, ElementOfSeq DEF ToSet
    <3>3. pcap.fd \in Int
      BY DEF Types, Writer, Fds
    <3> QED
      BY <2>1, <3>1, <3>2, <3>3 DEF Owned, Fds
  <2>4. pcap.fd # 0 => pcap.fd <= m
    <3>1. pcap.fd \in Int
      BY DEF Types, Writer, Fds
    <3> QED
      BY <2>1, <3>1 DEF Owned
  <2>5. c.op \in {"StartPcap", "ExportHar"} => c.fd = m /\ m \in Fds
    BY <2>1, Lengths DEF Backlog, Command
  <2>6. \A d \in ToSet(closed) : d <= m /\ d # m
    BY <2>1, <2>3 DEF Owned
  <2> HIDE DEF m
  <2>7. CASE c.op = "StartPcap" /\ start_pcap(c.fd, c.ring_bytes)
    <3>1. CASE m \in broken
      <4>1. pcap'.fd = 0 /\ closed' = Append(closed, m) \o Dropped
        BY <2>5, <2>7, <3>1 DEF start_pcap, NoPcap
      <4>2. /\ Append(closed, m) \in Seq(Fds) /\ Injective(Append(closed, m))
            /\ ToSet(Append(closed, m)) = ToSet(closed) \cup {m}
        BY <2>3, <2>5, <2>7, AppendDistinct
      <4>3. Injective(closed') /\ ToSet(closed') = ToSet(closed) \cup {m} \cup ({pcap.fd} \ {0})
        BY <2>3, <4>1, <4>2, DropClosed
      <4>4. 0 \notin ToSet(closed) /\ m # 0
        BY <2>3, <2>5, <2>7, LenProperties, ElementOfSeq DEF Fds, ToSet
      <4> QED
        BY <2>1, <2>2, <2>4, <2>6, <2>7, <4>1, <4>3, <4>4 DEF Owned, m
    <3>2. CASE m \notin broken
      <4>1. pcap'.fd = m /\ closed' = closed \o Dropped
        BY <2>5, <2>7, <3>2 DEF start_pcap, new_writer
      <4>2. Injective(closed') /\ ToSet(closed') = ToSet(closed) \cup ({pcap.fd} \ {0})
        BY <2>3, <4>1, DropClosed
      <4>3. \A d \in ToSet(closed') :
               d <= m /\ d # m /\ sent[d].op \in {"StartPcap", "ExportHar"}
        BY <2>1, <2>3, <2>4, <2>6, <4>2 DEF Owned
      <4>4. m <= m /\ sent[m].op = "StartPcap"
        BY <2>1, <2>7 DEF m
      <4>5. ASSUME NEW i \in 1..m, sent[i].op \in {"StartPcap", "ExportHar"}
            PROVE  i = m \/ i \in ToSet(closed')
        BY <2>1, <2>2, <4>2, <4>5 DEF Owned
      <4> QED
        BY <2>1, <4>1, <4>2, <4>3, <4>4, <4>5 DEF Owned
    <3> QED
      BY <3>1, <3>2
  <2>8. CASE c.op = "StopPcap" /\ stop_pcap
    <3>1. pcap'.fd = 0 /\ closed' = closed \o Dropped
      BY <2>8 DEF stop_pcap, NoPcap
    <3>2. Injective(closed') /\ ToSet(closed') = ToSet(closed) \cup ({pcap.fd} \ {0})
      BY <2>3, <3>1, DropClosed
    <3>3. 0 \notin ToSet(closed)
      BY <2>3, LenProperties, ElementOfSeq DEF Fds, ToSet
    <3> QED
      BY <2>1, <2>2, <2>4, <2>6, <2>8, <3>1, <3>2, <3>3 DEF Owned, m
  <2>9. CASE c.op = "ExportHar" /\ export_har(c.fd)
    <3>1. pcap' = pcap /\ closed' = Append(closed, m)
      BY <2>5, <2>9 DEF export_har
    <3>2. Injective(closed') /\ ToSet(closed') = ToSet(closed) \cup {m}
      BY <2>3, <2>5, <2>9, <3>1, AppendDistinct
    <3> QED
      BY <2>1, <2>2, <2>3, <2>4, <2>6, <2>9, <3>1, <3>2 DEF Owned, m
  <2>10. CASE c.op \in {"SetLogOpen", "UpdateFirewall"} /\ UNCHANGED <<pcap, closed>>
    <3>1. Injective(closed') /\ ToSet(closed') = ToSet(closed)
      BY <2>3, <2>10
    <3> QED
      BY <2>1, <2>2, <2>4, <2>6, <2>10, <3>1 DEF Owned, m
  <2> QED
    BY <1>3, <2>7, <2>8, <2>9, <2>10 DEF StepApplies
<1>4. CASE StepEnds
  <2>1. closed \in Seq(Fds) /\ Injective(closed) /\ pcap.fd \notin ToSet(closed)
    BY <1>4 DEF StepEnds, Types, Owned
  <2>2. Injective(closed')
    BY <1>4, <2>1, DropClosed DEF StepEnds, stop_pcap
  <2> QED
    BY <1>4, <2>2 DEF StepEnds, Owned
<1>5. CASE StepJoins
  BY <1>5 DEF StepJoins, Owned, Alive, Injective
<1>6. ASSUME NEW c \in Command, StepSends(c) PROVE Owned'
  <2>1. /\ queue' = Append(queue, c) /\ sent' = Append(sent, c)
        /\ pc' = pc /\ todo' = todo /\ Alive' = Alive /\ closed' = closed /\ pcap' = pcap
    BY <1>6 DEF StepSends, Alive
  <2>2. Len(sent') = Len(sent) + 1 /\ \A i \in 1..Len(sent) : sent'[i] = sent[i]
    BY <1>6, <2>1, AppendProperties DEF Types
  <2>3. Len(queue') = Len(queue) + 1
    BY <1>6, <2>1, AppendProperties DEF Types
  <2>4. Applied' = Applied /\ Applied <= Len(sent)
    BY <2>1, <2>2, <2>3, Lengths DEF Applied
  <2>5. \A d \in ToSet(closed) : d \in Fds
    BY LenProperties, ElementOfSeq DEF ToSet, Types
  <2>6. pcap.fd = 0 \/ pcap.fd \in Fds
    BY DEF Types, Writer
  <2>7. \A d \in Fds : d <= Applied => d \in 1..Len(sent)
    BY <2>4, Lengths DEF Fds
  <2>8. \A i \in 1..Applied : i \in 1..Len(sent)
    BY <2>4, Lengths
  <2>9. Injective(closed') /\ ToSet(closed') = ToSet(closed)
    BY <2>1 DEF Owned
  <2> QED
    BY <2>1, <2>2, <2>4, <2>5, <2>6, <2>7, <2>8, <2>9 DEF Owned
<1> QED
  BY <1>1, <1>2, <1>3, <1>4, <1>5, <1>6, Steps

LEMMA SettledStep ==
  ASSUME RuntimeAssumption, Types, Waiting, Backlog, Owned, Settled, [Next]_vars
  PROVE  Settled'
<1>1. CASE StepIdle
  <2>1. /\ Applied' = Applied /\ sent' = sent /\ UNCHANGED settings
        /\ pcap'.fd = pcap.fd /\ broken \subseteq broken' /\ Alive' = Alive
    BY <1>1 DEF StepIdle, Applied
  <2> QED
    BY <2>1 DEF Settled, LastApplied
<1>2. CASE StepDrains
  <2>1. Applied' = Applied /\ Alive
    <3>1. Len(todo) = 0 /\ Len(queue') = 0
      BY <1>2, EmptySeq DEF StepDrains, Backlog
    <3> QED
      BY <1>2, <3>1, Lengths DEF StepDrains, Applied, Alive
  <2> QED
    BY <1>2, <2>1 DEF StepDrains, Settled, LastApplied
<1>3. ASSUME NEW c \in Command, StepApplies(c) PROVE Settled'
  <2> DEFINE m == Applied + 1
  <2>1. /\ Applied >= 0 /\ Applied \in Int /\ m \in DOMAIN sent /\ c = sent[m]
        /\ Applied' = m /\ sent' = sent /\ Alive /\ broken' = broken
    BY <1>3, NextApplied, Lengths DEF StepApplies
  <2>2. \A i \in 1..m : i \in 1..Applied \/ i = m
    BY <2>1
  <2>3. m \in Nat /\ m \in 1..m /\ \A i \in 1..Applied : i \in 1..m /\ m > i
    BY <2>1
  <2>4. c.op \in {"StartPcap", "ExportHar"} => c.fd = m
    BY <2>1 DEF Backlog
  <2>5. /\ pcap.fd # 0 => pcap.fd \in 1..Applied
        /\ m # 0
    <3>1. pcap.fd = 0 \/ pcap.fd \in Fds
      BY DEF Types, Writer
    <3> QED
      BY <2>1, <3>1 DEF Owned, Fds
  <2> HIDE DEF m
  \* The last among the ops of one command more is that one, or is the last as before.
  <2>6. ASSUME NEW i \in 1..m, NEW ops, LastApplied(i, ops)'
        PROVE  \/ i = m /\ c.op \in ops
               \/ i \in 1..Applied /\ LastApplied(i, ops) /\ c.op \notin ops
    <3>1. CASE i = m
      BY <2>1, <2>6, <3>1 DEF LastApplied
    <3>2. CASE i \in 1..Applied
      BY <2>1, <2>3, <2>6, <3>2 DEF LastApplied
    <3> QED
      BY <2>2, <3>1, <3>2
  <2>7. /\ c.op = "SetLogOpen" => log_open' = c.open
        /\ c.op # "SetLogOpen" => log_open' = log_open
        /\ c.op = "UpdateFirewall" => firewall' = c.rules
        /\ c.op # "UpdateFirewall" => firewall' = firewall
    BY <1>3 DEF StepApplies
  <2>8. /\ c.op = "StopPcap" => pcap'.fd = 0
        /\ c.op = "StartPcap" => pcap'.fd = m \/ (pcap'.fd = 0 /\ m \in broken)
        /\ c.op \notin {"StartPcap", "StopPcap"} => pcap' = pcap
    BY <1>3, <2>4 DEF StepApplies, stop_pcap, start_pcap, export_har, NoPcap, new_writer
  <2>9. ASSUME NEW i \in 1..m
        PROVE  /\ LastApplied(i, {"SetLogOpen"})' => log_open' = sent[i].open
               /\ LastApplied(i, {"UpdateFirewall"})' => firewall' = sent[i].rules
    <3>1. LastApplied(i, {"SetLogOpen"})' => log_open' = sent[i].open
      BY <2>1, <2>6, <2>7 DEF Settled
    <3>2. LastApplied(i, {"UpdateFirewall"})' => firewall' = sent[i].rules
      BY <2>1, <2>6, <2>7 DEF Settled
    <3> QED
      BY <3>1, <3>2
  <2>10. ASSUME NEW i \in 1..m, LastApplied(i, {"StartPcap", "StopPcap"})'
         PROVE  IF sent[i].op = "StopPcap" THEN pcap'.fd = 0
                ELSE pcap'.fd = i \/ (pcap'.fd = 0 /\ i \in broken)
    <3>1. CASE i = m /\ c.op \in {"StartPcap", "StopPcap"}
      BY <2>1, <2>8, <3>1
    <3>2. CASE i \in 1..Applied /\ LastApplied(i, {"StartPcap", "StopPcap"})
                 /\ c.op \notin {"StartPcap", "StopPcap"}
      BY <2>1, <2>8, <3>2 DEF Settled
    <3> QED
      BY <2>6, <2>10, <3>1, <3>2
  <2>11. ASSUME pcap'.fd # 0 PROVE LastApplied(pcap.fd, {"StartPcap", "StopPcap"})'
    <3>1. CASE c.op \in {"StartPcap", "StopPcap"}
      <4>1. pcap'.fd = m /\ c.op = "StartPcap"
        BY <2>8, <2>11, <3>1
      <4>2. \A j \in 1..m : ~(j > m)
        BY <2>3
      <4> QED
        BY <2>1, <4>1, <4>2 DEF LastApplied
    <3>2. CASE c.op \notin {"StartPcap", "StopPcap"}
      <4>1. pcap'.fd = pcap.fd /\ LastApplied(pcap.fd, {"StartPcap", "StopPcap"})
        BY <2>1, <2>8, <2>11, <3>2 DEF Settled
      <4> QED
        BY <2>1, <2>2, <3>2, <4>1 DEF LastApplied
    <3> QED
      BY <3>1, <3>2
  <2> QED
    BY <2>1, <2>9, <2>10, <2>11 DEF Settled
<1>4. CASE StepEnds
  BY <1>4 DEF StepEnds, Settled
<1>5. CASE StepJoins
  BY <1>5 DEF StepJoins, Settled, Alive
<1>6. ASSUME NEW c \in Command, StepSends(c) PROVE Settled'
  <2>1. /\ queue' = Append(queue, c) /\ sent' = Append(sent, c) /\ UNCHANGED settings
        /\ pc' = pc /\ todo' = todo /\ Alive' = Alive /\ broken' = broken /\ pcap' = pcap
    BY <1>6 DEF StepSends, Alive
  <2>2. Len(sent') = Len(sent) + 1 /\ \A i \in 1..Len(sent) : sent'[i] = sent[i]
    BY <1>6, <2>1, AppendProperties DEF Types
  <2>3. Len(queue') = Len(queue) + 1
    BY <1>6, <2>1, AppendProperties DEF Types
  <2>4. Applied' = Applied /\ \A i \in 1..Applied : sent'[i] = sent[i]
    <3>1. Applied' = Applied /\ Applied <= Len(sent)
      BY <2>1, <2>2, <2>3, Lengths DEF Applied
    <3> QED
      BY <2>2, <3>1, Lengths
  <2>5. pcap.fd # 0 => (Alive => pcap.fd \in 1..Applied)
    <3>1. pcap.fd = 0 \/ pcap.fd \in Fds
      BY DEF Types, Writer
    <3> QED
      BY <3>1, Lengths DEF Owned, Fds
  <2>6. \A i \in 1..Applied, ops \in {{"SetLogOpen"}, {"UpdateFirewall"}, {"StartPcap", "StopPcap"}} :
           LastApplied(i, ops)' <=> LastApplied(i, ops)
    BY <2>4 DEF LastApplied
  <2> QED
    BY <2>1, <2>4, <2>5, <2>6 DEF Settled
<1> QED
  BY <1>1, <1>2, <1>3, <1>4, <1>5, <1>6, Steps

\* The descriptors of the commands sent, by their numbers.
LEMMA FdsOfParts ==
  ASSUME Types, Backlog, Alive
  PROVE  /\ FdsOf(sent) = {d \in 1..Len(sent) : sent[d].op \in {"StartPcap", "ExportHar"}}
         /\ FdsOf(todo) = {d \in Applied + 1 .. Applied + Len(todo) :
                               sent[d].op \in {"StartPcap", "ExportHar"}}
         /\ FdsOf(queue) = {d \in Applied + Len(todo) + 1 .. Len(sent) :
                               sent[d].op \in {"StartPcap", "ExportHar"}}
<1> DEFINE Carries(d) == sent[d].op \in {"StartPcap", "ExportHar"}
<1>1. \A d \in 1..Len(sent) : Carries(d) => sent[d].fd = d
  BY Lengths DEF Backlog
<1>2. FdsOf(sent) = {d \in 1..Len(sent) : Carries(d)}
  BY <1>1, Lengths DEF FdsOf, ToSet
<1>3. Applied \in Nat /\ Applied + Len(todo) + Len(queue) = Len(sent)
  BY Lengths DEF Backlog, Applied
<1>4. FdsOf(todo) = {d \in Applied + 1 .. Applied + Len(todo) : Carries(d)}
  <2>1. ASSUME NEW d \in FdsOf(todo) PROVE d \in Applied + 1 .. Applied + Len(todo) /\ Carries(d)
    <3>1. PICK i \in 1..Len(todo) : todo[i].op \in {"StartPcap", "ExportHar"} /\ d = todo[i].fd
      BY <2>1, Lengths DEF FdsOf, ToSet
    <3>2. todo[i] = sent[Applied + i]
      BY <3>1, Lengths DEF Backlog
    <3>3. Applied + i \in 1..Len(sent) /\ Applied + i \in Applied + 1 .. Applied + Len(todo)
      BY <3>1, <1>3, Lengths
    <3> QED
      BY <1>1, <3>1, <3>2, <3>3
  <2>2. ASSUME NEW d \in Applied + 1 .. Applied + Len(todo), Carries(d) PROVE d \in FdsOf(todo)
    <3>1. d - Applied \in 1..Len(todo) /\ d \in 1..Len(sent) /\ Applied + (d - Applied) = d
      BY <1>3, Lengths
    <3>2. todo[d - Applied] = sent[d] /\ d - Applied \in DOMAIN todo
      BY <3>1, Lengths DEF Backlog
    <3> QED
      BY <1>1, <2>2, <3>1, <3>2 DEF FdsOf, ToSet
  <2> QED
    BY <2>1, <2>2
<1>5. FdsOf(queue) = {d \in Applied + Len(todo) + 1 .. Len(sent) : Carries(d)}
  <2> DEFINE n == Applied + Len(todo)
  <2>1. n \in Nat /\ n + Len(queue) = Len(sent)
    BY <1>3, Lengths
  <2>2. \A i \in 1..Len(queue) : queue[i] = sent[n + i]
    BY Lengths DEF Backlog
  <2> HIDE DEF n
  <2>3. ASSUME NEW d \in FdsOf(queue) PROVE d \in n + 1 .. Len(sent) /\ Carries(d)
    <3>1. PICK i \in 1..Len(queue) : queue[i].op \in {"StartPcap", "ExportHar"} /\ d = queue[i].fd
      BY <2>3, Lengths DEF FdsOf, ToSet
    <3>2. n + i \in 1..Len(sent) /\ n + i \in n + 1 .. Len(sent)
      BY <3>1, <2>1, Lengths
    <3> QED
      BY <1>1, <2>2, <3>1, <3>2
  <2>4. ASSUME NEW d \in n + 1 .. Len(sent), Carries(d) PROVE d \in FdsOf(queue)
    <3>1. d - n \in 1..Len(queue) /\ d \in 1..Len(sent) /\ n + (d - n) = d
      BY <2>1, Lengths
    <3>2. queue[d - n] = sent[d] /\ d - n \in DOMAIN queue
      BY <2>2, <3>1, Lengths
    <3> QED
      BY <1>1, <2>4, <3>1, <3>2 DEF FdsOf, ToSet
  <2>5. FdsOf(queue) = {d \in n + 1 .. Len(sent) : Carries(d)}
    BY <2>3, <2>4
  <2> QED
    BY <2>5 DEF n
<1> QED
  BY <1>2, <1>4, <1>5

LEMMA OwnedMeans ==
  ASSUME Types, Waiting, Backlog, Owned
  PROVE  StateOwned
<1>1. TypeOK
  <2>1. ToSet(tun) \cup ToSet(read) \subseteq 1..Len(kind)
    BY DEF Waiting, ToSet
  <2>2. pcap.fd \in Fds \cup {0} /\ (pcap = NoPcap <=> pcap.fd = 0)
    BY DEF Types, Writer, NoPcap
  <2>3. ToSet(closed) \subseteq Fds
    BY LenProperties, ElementOfSeq DEF Types, ToSet
  <2>4. Len(outbox) <= 1
    <3>1. CASE outbox = <<>>
      BY <3>1
    <3>2. CASE outbox = <<"reply">>
      BY <3>2
    <3> QED
      BY <3>1, <3>2 DEF Types
  <2> QED
    BY <2>1, <2>2, <2>3, <2>4 DEF TypeOK, Types, PcStates
<1>2. DescriptorsOwned
  <2>1. \A i, j \in DOMAIN closed : closed[i] = closed[j] => i = j
    BY DEF Owned, Injective
  <2>2. ASSUME Alive
        PROVE  OpenFds = FdsOf(queue) \cup FdsOf(todo) \cup ({pcap.fd} \ {0})
    <3>1. Applied \in Nat /\ Applied + Len(todo) + Len(queue) = Len(sent)
      BY <2>2, Lengths DEF Backlog, Applied
    <3>2. pcap.fd = 0 \/ (pcap.fd \in 1..Applied /\ sent[pcap.fd].op = "StartPcap"
                             /\ pcap.fd \notin ToSet(closed))
      BY <2>2, <3>1 DEF Owned, Types, Writer, Fds
    <3>3. \A d \in 1..Len(sent) :
             sent[d].op \in {"StartPcap", "ExportHar"} =>
                 (d \notin ToSet(closed) <=>
                     d = pcap.fd \/ d \in Applied + 1 .. Applied + Len(todo)
                         \/ d \in Applied + Len(todo) + 1 .. Len(sent))
      <4> SUFFICES ASSUME NEW d \in 1..Len(sent), sent[d].op \in {"StartPcap", "ExportHar"}
                   PROVE  d \notin ToSet(closed) <=>
                             d = pcap.fd \/ d \in Applied + 1 .. Applied + Len(todo)
                                 \/ d \in Applied + Len(todo) + 1 .. Len(sent)
        OBVIOUS
      <4>1. CASE d <= Applied
        <5>1. d \in 1..Applied
          BY <3>1, <4>1
        <5>2. ~(d \in Applied + 1 .. Applied + Len(todo))
          BY <3>1, <4>1
        <5>3. ~(d \in Applied + Len(todo) + 1 .. Len(sent))
          BY <3>1, <4>1, Lengths
        <5> QED
          BY <2>2, <5>1, <5>2, <5>3 DEF Owned
      <4>2. CASE d > Applied
        <5>1. d \in Applied + 1 .. Applied + Len(todo) \/ d \in Applied + Len(todo) + 1 .. Len(sent)
          BY <3>1, <4>2, Lengths
        <5>2. d \notin ToSet(closed)
          BY <2>2, <3>1, <4>2 DEF Owned
        <5> QED
          BY <5>1, <5>2
      <4> QED
        BY <3>1, <4>1, <4>2
    <3>4. \A d \in Applied + 1 .. Applied + Len(todo) : d \in 1..Len(sent)
      BY <3>1, Lengths
    <3>5. \A d \in Applied + Len(todo) + 1 .. Len(sent) : d \in 1..Len(sent)
      BY <3>1, Lengths
    <3>6. pcap.fd # 0 => pcap.fd \in 1..Len(sent)
      BY <3>1, <3>2, Lengths
    <3>7. 0 \notin FdsOf(sent)
      BY <2>2, FdsOfParts
    <3> QED
      BY <2>2, <3>2, <3>3, <3>4, <3>5, <3>6, <3>7, FdsOfParts DEF OpenFds
  <2> QED
    BY <2>1, <2>2 DEF DescriptorsOwned, Alive
<1> QED
  BY <1>1, <1>2 DEF StateOwned

LEMMA SettledMeans ==
  ASSUME Types, Backlog, Owned, Settled
  PROVE  CommandsInOrder
<1> SUFFICES ASSUME queue = <<>>, todo = <<>>, Alive
             PROVE  /\ \A i \in DOMAIN sent :
                          /\ LastOf(sent, i, {"SetLogOpen"}) => log_open = sent[i].open
                          /\ LastOf(sent, i, {"UpdateFirewall"}) => firewall = sent[i].rules
                          /\ LastOf(sent, i, {"StartPcap", "StopPcap"}) =>
                                IF sent[i].op = "StopPcap" THEN pcap.fd = 0
                                ELSE pcap.fd = sent[i].fd \/ (pcap.fd = 0 /\ sent[i].fd \in broken)
                    /\ pcap.fd # 0 => \E i \in DOMAIN sent :
                          sent[i].op = "StartPcap" /\ sent[i].fd = pcap.fd
                              /\ LastOf(sent, i, {"StartPcap", "StopPcap"})
  BY DEF CommandsInOrder, Alive
<1>1. Applied = Len(sent) /\ DOMAIN sent = 1..Applied
  BY Lengths DEF Applied
<1>2. \A ops : \A i \in 1..Applied : LastOf(sent, i, ops) <=> LastApplied(i, ops)
  BY <1>1 DEF LastOf, LastApplied
<1>3. ASSUME NEW i \in DOMAIN sent
      PROVE  /\ LastOf(sent, i, {"SetLogOpen"}) => log_open = sent[i].open
             /\ LastOf(sent, i, {"UpdateFirewall"}) => firewall = sent[i].rules
  BY <1>1, <1>2, <1>3 DEF Settled
<1>4. ASSUME NEW i \in DOMAIN sent, LastOf(sent, i, {"StartPcap", "StopPcap"})
      PROVE  IF sent[i].op = "StopPcap" THEN pcap.fd = 0
             ELSE pcap.fd = sent[i].fd \/ (pcap.fd = 0 /\ sent[i].fd \in broken)
  <2>1. LastApplied(i, {"StartPcap", "StopPcap"})
    BY <1>1, <1>2, <1>4
  <2>2. sent[i].op = "StopPcap" \/ sent[i].fd = i
    BY <1>4 DEF Backlog, LastOf
  <2> QED
    BY <1>1, <1>4, <2>1, <2>2 DEF Settled
<1>5. ASSUME pcap.fd # 0
      PROVE  \E i \in DOMAIN sent : sent[i].op = "StartPcap" /\ sent[i].fd = pcap.fd
                 /\ LastOf(sent, i, {"StartPcap", "StopPcap"})
  <2>1. pcap.fd \in 1..Applied /\ sent[pcap.fd].op = "StartPcap"
    BY <1>1, <1>5, Lengths DEF Owned, Types, Writer, Fds
  <2>2. LastOf(sent, pcap.fd, {"StartPcap", "StopPcap"}) /\ sent[pcap.fd].fd = pcap.fd
    BY <1>1, <1>2, <1>5, <2>1 DEF Settled, Backlog
  <2> QED
    BY <1>1, <2>1, <2>2
<1> QED
  BY <1>3, <1>4, <1>5

-----------------------------------------------------------------------------
(* Sequences of events *)

LEMMA ConcatParts ==
  ASSUME NEW S, NEW a \in Seq(S), NEW b \in Seq(S)
  PROVE  /\ Len(a) \in Nat /\ Len(b) \in Nat /\ a \o b \in Seq(S)
         /\ DOMAIN a = 1..Len(a) /\ DOMAIN b = 1..Len(b) /\ DOMAIN (a \o b) = 1..(Len(a) + Len(b))
         /\ \A i \in DOMAIN a : i \in DOMAIN (a \o b) /\ (a \o b)[i] = a[i]
         /\ \A i \in DOMAIN b : Len(a) + i \in DOMAIN (a \o b) /\ (a \o b)[Len(a) + i] = b[i]
         /\ \A i \in DOMAIN (a \o b) : i \in DOMAIN a \/ (i - Len(a) \in DOMAIN b /\ i > Len(a))
<1>1. /\ Len(a) \in Nat /\ Len(b) \in Nat /\ DOMAIN a = 1..Len(a) /\ DOMAIN b = 1..Len(b)
      /\ a \o b \in Seq(S) /\ Len(a \o b) = Len(a) + Len(b)
      /\ \A i \in 1..Len(a) + Len(b) : (a \o b)[i] = IF i <= Len(a) THEN a[i] ELSE b[i - Len(a)]
  BY ConcatProperties, LenProperties
<1>2. DOMAIN (a \o b) = 1..(Len(a) + Len(b))
  BY <1>1, LenProperties
<1>3. \A i \in 1..Len(a) : i \in 1..(Len(a) + Len(b)) /\ i <= Len(a)
  BY <1>1
<1>4. \A i \in 1..Len(b) : /\ Len(a) + i \in 1..(Len(a) + Len(b))
                           /\ ~(Len(a) + i <= Len(a)) /\ (Len(a) + i) - Len(a) = i
  BY <1>1
<1>5. \A i \in 1..(Len(a) + Len(b)) : i \in 1..Len(a) \/ (i - Len(a) \in 1..Len(b) /\ i > Len(a))
  BY <1>1
<1> QED
  BY <1>1, <1>2, <1>3, <1>4, <1>5

LEMMA PacketsConcat ==
  ASSUME NEW a \in Seq(Events), NEW b \in Seq(Events)
  PROVE  PacketsOf(a \o b) = PacketsOf(a) \cup PacketsOf(b)
<1>1. ASSUME NEW n \in PacketsOf(a \o b) PROVE n \in PacketsOf(a) \cup PacketsOf(b)
  <2>1. PICK i \in DOMAIN (a \o b) : n \in ToSet((a \o b)[i].of)
    BY <1>1 DEF PacketsOf
  <2>2. CASE i \in DOMAIN a
    BY <2>1, <2>2, ConcatParts DEF PacketsOf
  <2>3. CASE i - Len(a) \in DOMAIN b /\ i > Len(a)
    <3>1. Len(a) + (i - Len(a)) = i
      BY <2>1, ConcatParts
    <3>2. (a \o b)[i] = b[i - Len(a)]
      BY <2>3, <3>1, ConcatParts
    <3> QED
      BY <2>1, <2>3, <3>2 DEF PacketsOf
  <2> QED
    BY <2>1, <2>2, <2>3, ConcatParts
<1>2. ASSUME NEW n \in PacketsOf(a) PROVE n \in PacketsOf(a \o b)
  BY <1>2, ConcatParts DEF PacketsOf
<1>3. ASSUME NEW n \in PacketsOf(b) PROVE n \in PacketsOf(a \o b)
  <2>1. PICK i \in DOMAIN b : n \in ToSet(b[i].of)
    BY <1>3 DEF PacketsOf
  <2>2. Len(a) + i \in DOMAIN (a \o b) /\ (a \o b)[Len(a) + i] = b[i]
    BY <2>1, ConcatParts
  <2> QED
    BY <2>1, <2>2 DEF PacketsOf
<1> QED
  BY <1>1, <1>2, <1>3

\* Where a packet of the whole stands in the parts.
LEMMA OnceConcat ==
  ASSUME NEW a \in Seq(Events), NEW b \in Seq(Events), Once(a), Once(b), Apart(a, b)
  PROVE  Once(a \o b)
<1> DEFINE c == a \o b
<1>1. ASSUME NEW i \in DOMAIN c, i \notin DOMAIN a
      PROVE  i - Len(a) \in DOMAIN b /\ c[i] = b[i - Len(a)] /\ i \in Int /\ Len(a) \in Int
  <2>1. i - Len(a) \in DOMAIN b /\ i \in Int /\ Len(a) \in Int
    BY <1>1, ConcatParts
  <2>2. Len(a) + (i - Len(a)) = i
    BY <2>1
  <2> QED
    BY <2>1, <2>2, ConcatParts
<1>2. \A i \in DOMAIN a : c[i] = a[i]
  BY ConcatParts
<1> HIDE DEF c
<1> SUFFICES ASSUME NEW i \in DOMAIN c, NEW j \in DOMAIN c, NEW k \in DOMAIN c[i].of,
                    NEW l \in DOMAIN c[j].of, c[i].of[k] = c[j].of[l]
             PROVE  i = j /\ k = l
  BY DEF Once, c
<1>3. CASE i \in DOMAIN a /\ j \in DOMAIN a
  BY <1>2, <1>3 DEF Once
<1>4. CASE i \notin DOMAIN a /\ j \notin DOMAIN a
  <2>1. i - Len(a) = j - Len(a) /\ k = l
    BY <1>1, <1>4 DEF Once
  <2> QED
    BY <1>1, <1>4, <2>1
<1>5. CASE i \in DOMAIN a /\ j \notin DOMAIN a
  <2>1. c[i].of[k] \in PacketsOf(a)
    BY <1>2, <1>5 DEF PacketsOf, ToSet
  <2>2. c[j].of[l] \in PacketsOf(b)
    BY <1>1, <1>5 DEF PacketsOf, ToSet
  <2> QED
    BY <2>1, <2>2 DEF Apart
<1>6. CASE i \notin DOMAIN a /\ j \in DOMAIN a
  <2>1. c[j].of[l] \in PacketsOf(a)
    BY <1>2, <1>6 DEF PacketsOf, ToSet
  <2>2. c[i].of[k] \in PacketsOf(b)
    BY <1>1, <1>6 DEF PacketsOf, ToSet
  <2> QED
    BY <2>1, <2>2 DEF Apart
<1> QED
  BY <1>3, <1>4, <1>5, <1>6

LEMMA InOrderConcat ==
  ASSUME NEW a \in Seq(Events), NEW b \in Seq(Events), InOrder(a), InOrder(b), Before(a, b)
  PROVE  InOrder(a \o b)
<1> DEFINE c == a \o b
<1>1. ASSUME NEW i \in DOMAIN c, i \notin DOMAIN a
      PROVE  /\ i - Len(a) \in DOMAIN b /\ c[i] = b[i - Len(a)]
             /\ i \in Int /\ Len(a) \in Int /\ i > Len(a)
  <2>1. i - Len(a) \in DOMAIN b /\ i \in Int /\ Len(a) \in Int /\ i > Len(a)
    BY <1>1, ConcatParts
  <2>2. Len(a) + (i - Len(a)) = i
    BY <2>1
  <2> QED
    BY <2>1, <2>2, ConcatParts
<1>2. \A i \in DOMAIN a : c[i] = a[i] /\ i \in Int /\ i <= Len(a)
  BY ConcatParts
<1> HIDE DEF c
<1> SUFFICES ASSUME NEW i \in DOMAIN c, NEW j \in DOMAIN c, i < j,
                    c[i].kind # "coarse", c[j].kind # "coarse"
             PROVE  c[i].of[1] < c[j].of[1]
  BY DEF InOrder, c
<1>3. CASE i \in DOMAIN a /\ j \in DOMAIN a
  BY <1>2, <1>3 DEF InOrder
<1>4. CASE i \notin DOMAIN a /\ j \notin DOMAIN a
  <2>1. i - Len(a) < j - Len(a)
    BY <1>1, <1>4
  <2> QED
    BY <1>1, <1>4, <2>1 DEF InOrder
<1>5. CASE i \in DOMAIN a /\ j \notin DOMAIN a
  BY <1>1, <1>2, <1>5 DEF Before
<1>6. CASE i \notin DOMAIN a /\ j \in DOMAIN a
  BY <1>1, <1>2, <1>6
<1> QED
  BY <1>3, <1>4, <1>5, <1>6

LEMMA SingleConcat ==
  ASSUME NEW a \in Seq(Events), NEW b \in Seq(Events), Single(a), Single(b)
  PROVE  Single(a \o b)
<1> SUFFICES ASSUME NEW i \in DOMAIN (a \o b), (a \o b)[i].kind # "coarse"
             PROVE  Len((a \o b)[i].of) = 1
  BY DEF Single
<1>1. CASE i \in DOMAIN a
  BY <1>1, ConcatParts DEF Single
<1>2. CASE i - Len(a) \in DOMAIN b
  <2>1. Len(a) + (i - Len(a)) = i
    BY ConcatParts
  <2>2. (a \o b)[i] = b[i - Len(a)]
    BY <1>2, <2>1, ConcatParts
  <2> QED
    BY <1>2, <2>2 DEF Single
<1> QED
  BY <1>1, <1>2, ConcatParts

LEMMA BeforeConcat ==
  ASSUME NEW a \in Seq(Events), NEW b \in Seq(Events), NEW c \in Seq(Events),
         Before(a, b), Before(a, c)
  PROVE  Before(a, b \o c)
<1> SUFFICES ASSUME NEW i \in DOMAIN a, NEW j \in DOMAIN (b \o c),
                    a[i].kind # "coarse", (b \o c)[j].kind # "coarse"
             PROVE  a[i].of[1] < (b \o c)[j].of[1]
  BY DEF Before
<1>1. CASE j \in DOMAIN b
  BY <1>1, ConcatParts DEF Before
<1>2. CASE j - Len(b) \in DOMAIN c
  <2>1. Len(b) + (j - Len(b)) = j
    BY ConcatParts
  <2>2. (b \o c)[j] = c[j - Len(b)]
    BY <1>2, <2>1, ConcatParts
  <2> QED
    BY <1>2, <2>2 DEF Before
<1> QED
  BY <1>1, <1>2, ConcatParts

\* An event alone.
LEMMA OneEvent ==
  ASSUME NEW e \in Events
  PROVE  /\ <<e>> \in Seq(Events) /\ PacketsOf(<<e>>) = ToSet(e.of) /\ InOrder(<<e>>)
         /\ Injective(e.of) => Once(<<e>>)
         /\ (e.kind # "coarse" => Len(e.of) = 1) => Single(<<e>>)
<1>1. <<e>> \in Seq(Events) /\ DOMAIN <<e>> = {1} /\ <<e>>[1] = e
  OBVIOUS
<1>2. PacketsOf(<<e>>) = ToSet(e.of)
  BY <1>1 DEF PacketsOf
<1>3. InOrder(<<e>>)
  BY <1>1 DEF InOrder
<1>4. Injective(e.of) => Once(<<e>>)
  BY <1>1 DEF Injective, Once
<1>5. (e.kind # "coarse" => Len(e.of) = 1) => Single(<<e>>)
  BY <1>1 DEF Single
<1> QED
  BY <1>1, <1>2, <1>3, <1>4, <1>5

LEMMA NoEvent ==
  /\ <<>> \in Seq(Events) /\ PacketsOf(<<>>) = {} /\ Once(<<>>) /\ InOrder(<<>>) /\ Single(<<>>)
  /\ \A es : Before(es, <<>>) /\ Apart(es, <<>>) /\ Apart(<<>>, es)
<1>1. <<>> \in Seq(Events) /\ DOMAIN <<>> = {}
  BY EmptySeq
<1>2. PacketsOf(<<>>) = {}
  BY <1>1 DEF PacketsOf
<1> QED
  BY <1>1, <1>2 DEF Once, InOrder, Single, Before, Apart

\* An event about a packet that comes after all those of es.
LEMMA NewestEvent ==
  ASSUME NEW es \in Seq(Events), Single(es), NEW n \in Nat, NEW e \in Events, e.of = <<n>>,
         \A m \in PacketsOf(es) : m < n
  PROVE  Before(es, <<e>>)
<1>1. DOMAIN <<e>> = {1} /\ <<e>>[1] = e /\ e.of[1] = n
  OBVIOUS
<1>2. ASSUME NEW i \in DOMAIN es, es[i].kind # "coarse"
      PROVE  es[i].of[1] < n
  <2>1. Len(es[i].of) = 1 /\ es[i] \in Events
    BY <1>2, LenProperties, ElementOfSeq DEF Single
  <2>2. es[i].of \in Seq(Nat)
    BY <2>1 DEF Events
  <2>3. 1 \in DOMAIN es[i].of
    BY <2>1, <2>2, LenProperties
  <2>4. es[i].of[1] \in PacketsOf(es)
    BY <1>2, <2>3 DEF PacketsOf, ToSet
  <2> QED
    BY <2>4
<1> QED
  BY <1>1, <1>2 DEF Before

\* The window as an event, if it has any packet.
LEMMA CoarseEvent ==
  ASSUME Types
  PROVE  /\ take_coarse \in Seq(Events) /\ PacketsOf(take_coarse) = ToSet(coarse)
         /\ Injective(coarse) => Once(take_coarse)
         /\ InOrder(take_coarse) /\ Single(take_coarse)
         /\ \A es \in Seq(Events) : Before(es, take_coarse)
<1>1. coarse \in Seq(Nat)
  BY DEF Types
<1>2. CASE coarse = <<>>
  <2>1. take_coarse = <<>> /\ ToSet(coarse) = {}
    BY <1>2 DEF take_coarse, ToSet
  <2> QED
    BY <2>1, NoEvent
<1>3. CASE coarse # <<>>
  <2> DEFINE e == Event_coarse(coarse)
  <2>1. take_coarse = <<e>> /\ e.of = coarse /\ e.kind = "coarse" /\ e \in Events
    BY <1>1, <1>3 DEF take_coarse, Event_coarse, Event, Events
  <2> HIDE DEF e
  <2>2. \A es \in Seq(Events) : Before(es, <<e>>)
    <3>1. DOMAIN <<e>> = {1} /\ <<e>>[1] = e
      OBVIOUS
    <3> QED
      BY <2>1, <3>1 DEF Before
  <2> QED
    BY <2>1, <2>2, OneEvent
<1> QED
  BY <1>2, <1>3

-----------------------------------------------------------------------------
(* Every packet is told once *)

\* What is given out, or lost, is what was held.
LEMMA FlushStep ==
  ASSUME Types, Accounted, Ordered, flush
  PROVE  Accounted' /\ Ordered'
<1> DEFINE blob == batch \o take_coarse
<1>1. told \in Seq(Events) /\ lost \in Seq(Events) /\ batch \in Seq(Events)
  BY DEF Types
<1>2. Apart(batch, take_coarse)
  BY CoarseEvent DEF Accounted, Apart
<1>3. /\ blob \in Seq(Events) /\ PacketsOf(blob) = PacketsOf(batch) \cup ToSet(coarse)
      /\ Once(blob) /\ InOrder(blob) /\ Single(blob) /\ Before(told, blob)
  BY <1>1, <1>2, CoarseEvent, ConcatProperties, PacketsConcat, OnceConcat, InOrderConcat,
     SingleConcat, BeforeConcat DEF Accounted, Ordered
<1>4. Apart(told, blob) /\ Apart(lost, blob)
  BY <1>3 DEF Accounted, Apart
<1>5. blob = <<>> => PacketsOf(batch) \cup ToSet(coarse) = {}
  BY <1>3, NoEvent
<1>6. /\ batch' = <<>> /\ coarse' = <<>> /\ read' = read
      /\ \/ blob = <<>> /\ told' = told /\ lost' = lost
         \/ told' = told \o blob /\ lost' = lost
         \/ told' = told /\ lost' = lost \o blob
  BY DEF flush, on_events, drain_encoded
<1>7. ToSet(coarse') = {} /\ Injective(coarse')
  BY <1>6 DEF ToSet, Injective
<1>8. /\ PacketsOf(batch') = {} /\ Once(batch') /\ InOrder(batch') /\ Single(batch')
      /\ Apart(told', batch') /\ Apart(lost', batch') /\ Before(told', batch')
  BY <1>6, NoEvent
<1> HIDE DEF blob
<1>9. CASE blob = <<>> /\ told' = told /\ lost' = lost
  BY <1>5, <1>6, <1>7, <1>8, <1>9 DEF Accounted, Ordered
<1>10. CASE told' = told \o blob /\ lost' = lost
  <2>1. /\ PacketsOf(told') = PacketsOf(told) \cup PacketsOf(blob)
        /\ Once(told') /\ InOrder(told') /\ Single(told')
    BY <1>1, <1>3, <1>4, <1>10, PacketsConcat, OnceConcat, InOrderConcat, SingleConcat
       DEF Accounted, Ordered
  <2>2. Apart(told', lost')
    BY <1>4, <1>10, <2>1 DEF Accounted, Apart
  <2> QED
    BY <1>3, <1>6, <1>7, <1>8, <1>10, <2>1, <2>2 DEF Accounted, Ordered
<1>11. CASE told' = told /\ lost' = lost \o blob
  <2>1. PacketsOf(lost') = PacketsOf(lost) \cup PacketsOf(blob) /\ Once(lost')
    BY <1>1, <1>3, <1>4, <1>11, PacketsConcat, OnceConcat DEF Accounted
  <2>2. Apart(told', lost')
    BY <1>4, <1>11, <2>1 DEF Accounted, Apart
  <2> QED
    BY <1>3, <1>6, <1>7, <1>8, <1>11, <2>1, <2>2 DEF Accounted, Ordered
<1> QED
  BY <1>6, <1>9, <1>10, <1>11

\* A packet that comes after all that were read is in one event more or in the window.
LEMMA ReadStep ==
  ASSUME Types, Accounted, Ordered, NEW n \in Nat, \A m \in ToSet(read) : m < n,
         read' = Append(read, n), told' = told, lost' = lost,
         \/ /\ \E e \in Events : e.of = <<n>> /\ batch' = Append(batch, e)
            /\ coarse' = coarse
         \/ batch' = batch /\ coarse' = Append(coarse, n)
  PROVE  Accounted' /\ Ordered'
<1>1. /\ told \in Seq(Events) /\ lost \in Seq(Events) /\ batch \in Seq(Events)
      /\ coarse \in Seq(Nat) /\ read \in Seq(Nat)
  BY DEF Types
<1>2. n \notin ToSet(read) /\ ToSet(read') = ToSet(read) \cup {n}
  <2>1. n \notin ToSet(read)
    OBVIOUS
  <2>2. /\ DOMAIN read = 1..Len(read) /\ Len(read) \in Nat
        /\ DOMAIN Append(read, n) = 1..(Len(read) + 1)
        /\ \A i \in 1..Len(read) : Append(read, n)[i] = read[i]
        /\ Append(read, n)[Len(read) + 1] = n
    BY <1>1, AppendProperties, LenProperties
  <2>3. /\ \A i \in 1..(Len(read) + 1) : i \in 1..Len(read) \/ i = Len(read) + 1
        /\ \A i \in 1..Len(read) : i \in 1..(Len(read) + 1)
        /\ Len(read) + 1 \in 1..(Len(read) + 1)
    BY <2>2
  <2> QED
    BY <2>1, <2>2, <2>3 DEF ToSet
<1>3. CASE /\ \E e \in Events : e.of = <<n>> /\ batch' = Append(batch, e)
           /\ coarse' = coarse
  <2>1. PICK e \in Events : e.of = <<n>> /\ batch' = Append(batch, e)
    BY <1>3
  <2>2. /\ <<e>> \in Seq(Events) /\ PacketsOf(<<e>>) = {n} /\ InOrder(<<e>>)
        /\ Once(<<e>>) /\ Single(<<e>>)
    <3>1. DOMAIN e.of = {1} /\ e.of[1] = n /\ Len(e.of) = 1
      BY <2>1
    <3>2. ToSet(e.of) = {n} /\ Injective(e.of)
      BY <3>1 DEF ToSet, Injective
    <3> QED
      BY <3>1, <3>2, OneEvent
  <2>3. batch' = batch \o <<e>>
    BY <1>1, <2>1, AppendIsConcat
  <2>4. Apart(batch, <<e>>) /\ Apart(told, <<e>>) /\ Apart(lost, <<e>>) /\ n \notin ToSet(coarse)
    BY <1>2, <2>2 DEF Accounted, Apart
  <2>5. Before(told, <<e>>) /\ Before(batch, <<e>>)
    BY <1>1, <2>1, NewestEvent DEF Accounted, Ordered
  <2>6. /\ PacketsOf(batch') = PacketsOf(batch) \cup {n} /\ Once(batch') /\ InOrder(batch')
        /\ Single(batch') /\ Before(told, batch')
    BY <1>1, <2>2, <2>3, <2>4, <2>5, PacketsConcat, OnceConcat, InOrderConcat, SingleConcat,
       BeforeConcat DEF Accounted, Ordered
  <2>7. Apart(told, batch') /\ Apart(lost, batch')
    BY <2>2, <2>4, <2>6 DEF Accounted, Apart
  <2>8. Accounted'
    BY <1>2, <1>3, <2>4, <2>6, <2>7 DEF Accounted
  <2> QED
    BY <2>6, <2>8 DEF Ordered
<1>4. CASE batch' = batch /\ coarse' = Append(coarse, n)
  <2>1. /\ n \notin PacketsOf(told) /\ n \notin PacketsOf(lost) /\ n \notin PacketsOf(batch)
        /\ n \notin ToSet(coarse)
    BY <1>2 DEF Accounted
  <2>2. Injective(coarse') /\ ToSet(coarse') = ToSet(coarse) \cup {n}
    BY <1>1, <1>4, <2>1, AppendDistinct DEF Accounted
  <2>3. Accounted'
    BY <1>2, <1>4, <2>1, <2>2 DEF Accounted
  <2> QED
    BY <1>4, <2>3 DEF Ordered
<1> QED
  BY <1>3, <1>4

\* The next packet of the TUN, and what is left there.
LEMMA NextPacket ==
  ASSUME Types, Waiting, drain_tun
  PROVE  /\ Head(tun) \in Nat /\ Head(tun) \in DOMAIN kind /\ Head(tun) \in 1..Len(kind)
         /\ Head(tun) = tun[1] /\ 1 \in DOMAIN tun
         /\ \A m \in ToSet(read) : m < Head(tun)
         /\ DOMAIN tun = 1..Len(tun) /\ DOMAIN tun' = 1..Len(tun')
         /\ Len(tun') \in Nat /\ Len(tun) = Len(tun') + 1
         /\ \A i \in DOMAIN tun' : tun'[i] = tun[i + 1] /\ i + 1 \in DOMAIN tun
<1>1. tun # <<>> /\ tun \in Seq(Nat) /\ tun' = Tail(tun)
  BY DEF drain_tun, Types
<1>2. Len(tun) \in Nat \ {0} /\ Head(tun) = tun[1]
  BY <1>1, EmptySeq
<1>3. 1 \in DOMAIN tun /\ DOMAIN kind = 1..Len(kind) /\ DOMAIN tun = 1..Len(tun)
  BY <1>1, <1>2, LenProperties DEF Types
<1>4. tun' \in Seq(Nat) /\ Len(tun') = Len(tun) - 1 /\ \A i \in 1..Len(tun') : tun'[i] = tun[i + 1]
  BY <1>1, HeadTailProperties
<1>5. DOMAIN tun' = 1..Len(tun')
  BY <1>4, LenProperties
<1>6. Head(tun) \in Nat
  BY <1>1, HeadTailProperties
<1>7. Len(tun') \in Nat /\ Len(tun) = Len(tun') + 1 /\ \A i \in DOMAIN tun' : i + 1 \in DOMAIN tun
  BY <1>2, <1>3, <1>4, <1>5
<1>8. Head(tun) \in 1..Len(kind) /\ \A m \in ToSet(read) : m < Head(tun)
  BY <1>2, <1>3 DEF Waiting, ToSet
<1> QED
  BY <1>2, <1>3, <1>4, <1>5, <1>6, <1>7, <1>8

LEMMA WaitingStep ==
  ASSUME RuntimeAssumption, Types, Waiting, [Next]_vars
  PROVE  Waiting'
<1>1. CASE drain_tun
  <2> DEFINE n == Head(tun)
  <2>1. /\ n \in Nat /\ n \in 1..Len(kind) /\ n = tun[1] /\ 1 \in DOMAIN tun /\ n \in DOMAIN kind
        /\ DOMAIN tun = 1..Len(tun) /\ DOMAIN tun' = 1..Len(tun')
        /\ Len(tun') \in Nat
        /\ \A i \in DOMAIN tun' : tun'[i] = tun[i + 1] /\ i + 1 \in DOMAIN tun
    BY <1>1, NextPacket
  <2>2. on_tun_packet(n) /\ kind' = kind
    BY <1>1 DEF drain_tun
  <2> HIDE DEF n
  <2>3. /\ DOMAIN read = 1..Len(read) /\ Len(read) \in Nat
        /\ DOMAIN Append(read, n) = 1..(Len(read) + 1)
        /\ \A i \in 1..Len(read) : Append(read, n)[i] = read[i]
        /\ Append(read, n)[Len(read) + 1] = n
    BY <2>1, AppendProperties, LenProperties DEF Types
  <2>4. \A i \in 1..(Len(read) + 1) : i \in 1..Len(read) \/ i = Len(read) + 1
    BY <2>3
  <2>5. \A i, j \in DOMAIN tun' : i < j => i + 1 < j + 1
    BY <2>1
  <2>6. \A j \in DOMAIN tun' : 1 < j + 1
    BY <2>1
  <2>7. /\ \A i, j \in DOMAIN tun' : i < j => tun'[i] < tun'[j]
        /\ \A j \in DOMAIN tun' : tun'[j] \in 1..Len(kind) /\ n < tun'[j]
    BY <2>1, <2>5, <2>6 DEF Waiting
  <2>8. read' = read \/ read' = Append(read, n)
    BY <2>2 DEF on_tun_packet
  <2>9. CASE read' = read
    BY <2>1, <2>2, <2>7, <2>9 DEF Waiting
  <2>10. CASE read' = Append(read, n)
    <3>1. \A i \in DOMAIN read' : read'[i] \in 1..Len(kind)
      BY <2>1, <2>3, <2>4, <2>10 DEF Waiting
    <3>2. \A i \in DOMAIN read', j \in DOMAIN tun' : read'[i] < tun'[j]
      BY <2>1, <2>3, <2>4, <2>7, <2>10 DEF Waiting
    <3> QED
      BY <2>2, <2>7, <3>1, <3>2 DEF Waiting
  <2> QED
    BY <2>8, <2>9, <2>10
<1>2. CASE Sends
  <2>1. PICK k \in Kinds, a \in Apps : kind' = Append(kind, [kind |-> k, uid |-> a])
    BY <1>2 DEF Sends
  <2>2. [kind |-> k, uid |-> a] \in Packet
    BY DEF Packet, RuntimeAssumption
  <2>3. Len(kind') = Len(kind) + 1 /\ Len(kind) \in Nat
    BY <2>1, <2>2, AppendProperties, LenProperties DEF Types
  <2>4. tun' = Append(tun, Len(kind) + 1) /\ read' = read
    BY <1>2 DEF Sends
  <2>5. /\ DOMAIN tun = 1..Len(tun) /\ Len(tun) \in Nat /\ DOMAIN tun' = 1..(Len(tun) + 1)
        /\ \A i \in 1..Len(tun) : tun'[i] = tun[i]
        /\ tun'[Len(tun) + 1] = Len(kind) + 1
    BY <2>3, <2>4, AppendProperties, LenProperties DEF Types
  <2>6. \A i \in 1..(Len(tun) + 1) : i \in 1..Len(tun) \/ i = Len(tun) + 1
    BY <2>5
  <2>7. \A m \in 1..Len(kind) : m \in 1..Len(kind') /\ m < Len(kind) + 1
    BY <2>3
  <2>8. Len(kind) + 1 \in 1..Len(kind')
    BY <2>3
  <2>9. \A i, j \in DOMAIN tun' : i < j => tun'[i] < tun'[j]
    <3> SUFFICES ASSUME NEW i \in DOMAIN tun', NEW j \in DOMAIN tun', i < j
                 PROVE  tun'[i] < tun'[j]
      OBVIOUS
    <3>1. i \in 1..Len(tun)
      BY <2>5
    <3> QED
      BY <2>5, <2>6, <2>7, <3>1 DEF Waiting
  <2>10. \A j \in DOMAIN tun' : tun'[j] \in 1..Len(kind')
    BY <2>5, <2>6, <2>7, <2>8 DEF Waiting
  <2>11. \A i \in DOMAIN read : read[i] \in 1..Len(kind')
    BY <2>7 DEF Waiting
  <2>12. \A i \in DOMAIN read, j \in DOMAIN tun' : read[i] < tun'[j]
    BY <2>5, <2>6, <2>7 DEF Waiting
  <2> QED
    BY <2>4, <2>9, <2>10, <2>11, <2>12 DEF Waiting
<1>3. CASE UNCHANGED <<tun, kind, read>>
  BY <1>3 DEF Waiting
<1>4. drain_tun \/ Sends \/ UNCHANGED <<tun, kind, read>>
  BY DEF Next, Thread, Starts, EndsEarly, polls, applies, service, write_outbox, flushes, flush,
      exits, Panics, send, stop_begins, stop_joins, FileBreaks, vars
<1> QED
  BY <1>1, <1>2, <1>3, <1>4

LEMMA TellingStep ==
  ASSUME RuntimeAssumption, Types, Telling, Backlog, [Next]_vars
  PROVE  Telling'
<1> USE DEF Telling
<1>1. Waiting'
  BY WaitingStep
<1>2. CASE drain_tun
  <2> DEFINE n == Head(tun)
  <2>1. n \in Nat /\ n \in DOMAIN kind /\ \A m \in ToSet(read) : m < n
    BY <1>2, NextPacket
  <2>2. on_tun_packet(n) /\ pc = "turn" /\ pc' = "turn"
    BY <1>2 DEF drain_tun
  <2> HIDE DEF n
  <2>3. Event("block", <<n>>) \in Events /\ Event("flow", <<n>>) \in Events
    BY <2>1 DEF Event, Events
  <2>4. Event("block", <<n>>).of = <<n>> /\ Event("flow", <<n>>).of = <<n>>
    BY DEF Event
  <2>5. \/ UNCHANGED events
        \/ /\ read' = Append(read, n) /\ told' = told /\ lost' = lost
           /\ \/ /\ \E e \in Events : e.of = <<n>> /\ batch' = Append(batch, e)
                 /\ coarse' = coarse
              \/ batch' = batch /\ coarse' = Append(coarse, n)
    BY <2>2, <2>3, <2>4 DEF on_tun_packet, flow_event, push, coarse_add
  <2>6. Accounted' /\ Ordered'
    <3>1. CASE UNCHANGED events
      BY <3>1 DEF Accounted, Ordered
    <3>2. CASE /\ read' = Append(read, n) /\ told' = told /\ lost' = lost
               /\ \/ /\ \E e \in Events : e.of = <<n>> /\ batch' = Append(batch, e)
                     /\ coarse' = coarse
                  \/ batch' = batch /\ coarse' = Append(coarse, n)
      BY <2>1, <3>2, ReadStep
    <3> QED
      BY <2>5, <3>1, <3>2
  <2> QED
    BY <1>1, <2>2, <2>6 DEF NothingHeld
<1>3. CASE flushes /\ flush
  BY <1>1, <1>3, FlushStep DEF flushes, NothingHeld
<1>4. CASE exits
  <2>1. batch' = <<>> /\ coarse' = <<>> /\ Accounted' /\ Ordered'
    BY <1>4, FlushStep DEF exits, flush, drain_encoded
  <2> QED
    BY <1>1, <2>1 DEF NothingHeld
<1>5. CASE UNCHANGED events /\ (pc' \in {"starting", "ended"} => pc \in {"starting", "ended"})
  BY <1>1, <1>5 DEF Accounted, Ordered, NothingHeld
<1>6. \/ drain_tun \/ (flushes /\ flush) \/ exits
      \/ UNCHANGED events /\ (pc' \in {"starting", "ended"} => pc \in {"starting", "ended"})
  BY DEF Next, Thread, Starts, EndsEarly, Ends, polls, applies, service, write_outbox, flushes,
      Panics, send, stop_begins, stop_joins, Sends, FileBreaks, vars
<1> QED
  BY <1>2, <1>3, <1>4, <1>5, <1>6

LEMMA TellingMeans ==
  ASSUME Types, Telling
  PROVE  EventsExact
<1>1. told \in Seq(Events) /\ lost \in Seq(Events) /\ batch \in Seq(Events)
  BY DEF Types
<1>2. take_coarse \in Seq(Events) /\ PacketsOf(take_coarse) = ToSet(coarse) /\ Once(take_coarse)
  BY CoarseEvent DEF Telling, Accounted
<1>3. /\ told \o lost \in Seq(Events) /\ PacketsOf(told \o lost) = PacketsOf(told) \cup PacketsOf(lost)
      /\ Once(told \o lost)
  BY <1>1, ConcatProperties, PacketsConcat, OnceConcat DEF Telling, Accounted
<1>4. Apart(told \o lost, batch)
  BY <1>3 DEF Telling, Accounted, Apart
<1>5. /\ (told \o lost) \o batch \in Seq(Events) /\ Once((told \o lost) \o batch)
      /\ PacketsOf((told \o lost) \o batch) = PacketsOf(told) \cup PacketsOf(lost) \cup PacketsOf(batch)
  BY <1>1, <1>3, <1>4, ConcatProperties, PacketsConcat, OnceConcat DEF Telling, Accounted
<1>6. Apart((told \o lost) \o batch, take_coarse)
  BY <1>2, <1>5 DEF Telling, Accounted, Apart
<1>7. /\ Once(told \o lost \o batch \o take_coarse)
      /\ PacketsOf(told \o lost \o batch \o take_coarse) = ToSet(read)
  BY <1>2, <1>5, <1>6, PacketsConcat, OnceConcat DEF Telling, Accounted
<1> QED
  BY <1>7 DEF EventsExact, Telling, Ordered, NothingHeld

-----------------------------------------------------------------------------
(* A capture has the secrets before what they decrypt *)

LEMMA AppendBlock ==
  ASSUME NEW s \in Seq(Blocks), NEW b \in Blocks
  PROVE  /\ DOMAIN s = 1..Len(s) /\ Len(s) \in Nat
         /\ \A i \in DOMAIN s : i \in DOMAIN Append(s, b) /\ Append(s, b)[i] = s[i] /\ i < Len(s) + 1
         /\ Len(s) + 1 \in DOMAIN Append(s, b) /\ Append(s, b)[Len(s) + 1] = b
         /\ \A i \in DOMAIN Append(s, b) : i \in Nat /\ (i \in DOMAIN s \/ i = Len(s) + 1)
<1>1. /\ DOMAIN s = 1..Len(s) /\ Len(s) \in Nat
      /\ DOMAIN Append(s, b) = 1..(Len(s) + 1)
      /\ \A i \in 1..Len(s) : Append(s, b)[i] = s[i]
      /\ Append(s, b)[Len(s) + 1] = b
  BY AppendProperties, LenProperties
<1> QED
  BY <1>1

\* A block is appended to a file that has what it needs.
LEMMA AppendKeepsSecrets ==
  ASSUME NEW s \in Seq(Blocks), NEW b \in Blocks, SecretsFirstIn(s),
         b \in {"reply", "record"} => Followed(s)
  PROVE  SecretsFirstIn(Append(s, b))
<1> DEFINE t == Append(s, b)
<1> SUFFICES ASSUME NEW i \in DOMAIN t, NEW j \in DOMAIN t, t[i] = "hello", i < j,
                    t[j] \in {"reply", "record"}
             PROVE  \E k \in i..j : t[k] = "secrets"
  BY DEF SecretsFirstIn
<1>1. i \in DOMAIN s /\ s[i] = "hello"
  <2>1. i # Len(s) + 1
    BY AppendBlock
  <2> QED
    BY <2>1, AppendBlock
<1>2. CASE j \in DOMAIN s
  <2>1. PICK k \in i..j : s[k] = "secrets"
    BY <1>1, <1>2, AppendBlock DEF SecretsFirstIn
  <2>2. k \in DOMAIN s
    BY <1>1, <1>2, <2>1, AppendBlock
  <2> QED
    BY <2>1, <2>2, AppendBlock
<1>3. CASE j = Len(s) + 1
  <2>1. b \in {"reply", "record"}
    BY <1>3, AppendBlock
  <2>2. PICK k \in DOMAIN s : k > i /\ s[k] = "secrets"
    BY <1>1, <2>1 DEF Followed
  <2>3. k \in i..j
    BY <1>1, <1>3, <2>2, AppendBlock
  <2> QED
    BY <2>2, <2>3, AppendBlock
<1> QED
  BY <1>2, <1>3, AppendBlock

LEMMA AppendFollowed ==
  ASSUME NEW s \in Seq(Blocks), NEW b \in Blocks,
         b = "secrets" \/ (Followed(s) /\ b # "hello")
  PROVE  Followed(Append(s, b))
<1> DEFINE t == Append(s, b)
<1> SUFFICES ASSUME NEW i \in DOMAIN t, t[i] = "hello"
             PROVE  \E k \in DOMAIN t : k > i /\ t[k] = "secrets"
  BY DEF Followed
<1>1. i \in DOMAIN s /\ s[i] = "hello"
  BY AppendBlock
<1>2. CASE b = "secrets"
  <2>1. Len(s) + 1 \in DOMAIN t /\ t[Len(s) + 1] = "secrets" /\ Len(s) + 1 > i
    BY <1>1, <1>2, AppendBlock
  <2> QED
    BY <2>1
<1>3. CASE Followed(s)
  <2>1. PICK k \in DOMAIN s : k > i /\ s[k] = "secrets"
    BY <1>1, <1>3 DEF Followed
  <2> QED
    BY <2>1, AppendBlock
<1> QED
  BY <1>2, <1>3

LEMMA SecretsFirstFiles ==
  SecretsFirst <=> \A d \in Fds : SecretsFirstIn(file[d])
BY DEF SecretsFirst, SecretsFirstIn

\* A packet that is captured as it comes in.
LEMMA TapKeepsKeys ==
  ASSUME Types, Undecrypted, Keyed, NoHelloYet, SecretsFirst, keylog' = keylog,
         NEW b \in AllKinds, tap(b),
         tls' = IF b = "hello" THEN "hello" ELSE tls,
         b = "hello" => tls = "none" /\ keylog = {},
         b = "record" => tls = "replied" /\ keylog = {}
  PROVE  (Undecrypted /\ Keyed /\ NoHelloYet /\ SecretsFirst)'
<1>1. b \in Blocks /\ b # "secrets" /\ b # "reply"
  BY DEF Blocks, AllKinds
<1>2. \A d \in Fds : file[d] \in Seq(Blocks)
  BY DEF Types
<1>3. broken' = broken /\ closed' = closed
  BY DEF tap, captured
<1>4. \/ pcap' = pcap /\ file' = file
      \/ /\ pcap.fd \in Fds /\ ~pcap.stopped /\ pcap.fd \notin broken /\ pcap'.fd = pcap.fd
         /\ file' = [file EXCEPT ![pcap.fd] = Append(@, b)]
  <2>1. <<pcap', file'>> = write_block(<<pcap, file>>, b)
    BY DEF tap, captured, write_block
  <2>2. pcap \in Writer /\ file \in [Fds -> Seq(Blocks)]
    BY DEF Types
  <2>3. Wrote(pcap, file, b, pcap', file')
    BY <1>1, <2>1, <2>2, WriteBlock
  <2> QED
    BY <2>3 DEF Wrote
<1>5. CASE pcap' = pcap /\ file' = file
  <2>1. Undecrypted'
    BY <1>5 DEF Undecrypted
  <2>2. Keyed'
    BY <1>3, <1>5 DEF Keyed
  <2>3. NoHelloYet'
    BY <1>5 DEF NoHelloYet
  <2>4. SecretsFirst'
    BY <1>5 DEF SecretsFirst
  <2> QED
    BY <2>1, <2>2, <2>3, <2>4
<1>6. CASE /\ pcap.fd \in Fds /\ ~pcap.stopped /\ pcap.fd \notin broken /\ pcap'.fd = pcap.fd
           /\ file' = [file EXCEPT ![pcap.fd] = Append(@, b)]
  <2> DEFINE s == file[pcap.fd]
  <2>1. /\ s \in Seq(Blocks) /\ file'[pcap.fd] = Append(s, b)
        /\ \A d \in Fds \ {pcap.fd} : file'[d] = file[d]
    BY <1>2, <1>6 DEF Types
  <2>2. \A i \in DOMAIN Append(s, b) : Append(s, b)[i] = b \/ (i \in DOMAIN s /\ Append(s, b)[i] = s[i])
    BY <1>1, <2>1, AppendBlock
  <2>3. pcap.fd # 0
    BY <1>6 DEF Fds
  <2> HIDE DEF s
  <2>4. Undecrypted'
    <3> SUFFICES ASSUME tls' \in {"none", "hello"} \/ keylog' # {},
                        NEW d \in Fds, NEW i \in DOMAIN file'[d]
                 PROVE  file'[d][i] \notin {"reply", "record"}
      BY DEF Undecrypted
    <3>1. tls \in {"none", "hello"} \/ keylog # {}
      OBVIOUS
    <3>2. b # "record"
      BY DEF Types
    <3> QED
      BY <1>1, <2>1, <2>2, <3>1, <3>2 DEF Undecrypted, s
  <2>5. Keyed'
    <3> SUFFICES ASSUME ~pcap'.stopped, tls' \in {"up", "replied"}, keylog' = {}
                 PROVE  Followed(file'[pcap.fd])
      BY <1>3, <1>6 DEF Keyed
    <3>1. b # "hello" /\ tls \in {"up", "replied"} /\ keylog = {}
      OBVIOUS
    <3>2. Followed(s)
      BY <1>6, <2>3, <3>1 DEF Keyed, s
    <3> QED
      BY <1>1, <2>1, <3>1, <3>2, AppendFollowed
  <2>6. NoHelloYet'
    <3> SUFFICES ASSUME tls' = "none", NEW d \in Fds, NEW i \in DOMAIN file'[d]
                 PROVE  file'[d][i] # "hello"
      BY DEF NoHelloYet
    <3>1. b # "hello" /\ tls = "none"
      OBVIOUS
    <3> QED
      BY <2>1, <2>2, <3>1 DEF NoHelloYet, s
  <2>7. SecretsFirst'
    <3>1. SecretsFirstIn(Append(s, b))
      <4>1. SecretsFirstIn(s)
        BY <1>6, SecretsFirstFiles DEF s
      <4>2. b \in {"reply", "record"} => Followed(s)
        BY <1>1, <1>6, <2>3 DEF Keyed, s
      <4> QED
        BY <1>1, <2>1, <4>1, <4>2, AppendKeepsSecrets
    <3>2. \A d \in Fds : SecretsFirstIn(file'[d])
      BY <2>1, <3>1, SecretsFirstFiles
    <3> QED
      BY <3>2 DEF SecretsFirst, SecretsFirstIn
  <2> QED
    BY <2>4, <2>5, <2>6, <2>7
<1> QED
  BY <1>4, <1>5, <1>6

\* What a pass with secrets and a packet writes: both, the secrets alone, or nothing.
LEMMA OutboxWrites ==
  ASSUME Types, captured(take_outbox), keylog # {}, outbox # <<>>
  PROVE  \/ /\ pcap' = pcap /\ file' = file
            /\ pcap.fd = 0 \/ pcap.stopped \/ pcap.fd \in broken
         \/ /\ pcap.fd \in Fds /\ pcap'.fd = pcap.fd
            /\ \/ file' = [file EXCEPT ![pcap.fd] = Append(@, "secrets")]
               \/ file' = [file EXCEPT ![pcap.fd] = Append(Append(@, "secrets"), "reply")]
<1>1. pcap \in Writer /\ file \in [Fds -> Seq(Blocks)]
  BY DEF Types
<1>2. "secrets" \in Blocks /\ "reply" \in Blocks /\ outbox[1] = "reply"
  BY DEF Blocks, Types
<1> DEFINE wf == write_block(<<pcap, file>>, "secrets")
<1> DEFINE vf == write_block(wf, "reply")
<1>3. wf = <<wf[1], wf[2]>>
  BY WriteBlockPair
<1>4. vf = <<vf[1], vf[2]>>
  BY <1>3, WriteBlockPair
<1>5. <<pcap', file'>> = vf
  <2>1. take_outbox = vf
    BY <1>2 DEF take_outbox, write_tls_secrets, write_packets
  <2> QED
    BY <1>4, <2>1 DEF captured
<1>6. \/ /\ pcap.fd = 0 \/ pcap.stopped \/ pcap.fd \in broken
         /\ wf[1] = pcap /\ wf[2] = file
      \/ /\ pcap.fd \in Fds
         /\ wf[1] \in Writer /\ wf[1].fd = pcap.fd
         /\ wf[2] \in [Fds -> Seq(Blocks)]
         /\ wf[2] = [file EXCEPT ![pcap.fd] = Append(@, "secrets")]
  <2> HIDE DEF wf
  <2>1. <<wf[1], wf[2]>> = write_block(<<pcap, file>>, "secrets")
    BY <1>3 DEF wf
  <2>2. Wrote(pcap, file, "secrets", wf[1], wf[2])
    BY <2>1, <1>1, <1>2, WriteBlock
  <2> QED
    BY <2>2 DEF Wrote
<1>7. <<pcap', file'>> = write_block(<<wf[1], wf[2]>>, "reply")
  BY <1>3, <1>5
<1> HIDE DEF wf, vf
<1>8. CASE /\ pcap.fd = 0 \/ pcap.stopped \/ pcap.fd \in broken
           /\ wf[1] = pcap /\ wf[2] = file
  <2>1. <<pcap', file'>> = write_block(<<pcap, file>>, "reply")
    BY <1>7, <1>8
  <2>2. Wrote(pcap, file, "reply", pcap', file')
    BY <1>1, <1>2, <2>1, WriteBlock
  <2> QED
    BY <1>8, <2>2 DEF Wrote, Fds
<1>9. CASE /\ pcap.fd \in Fds
           /\ wf[1] \in Writer /\ wf[1].fd = pcap.fd
           /\ wf[2] \in [Fds -> Seq(Blocks)]
           /\ wf[2] = [file EXCEPT ![pcap.fd] = Append(@, "secrets")]
  <2>1. \/ pcap' = wf[1] /\ file' = wf[2]
        \/ pcap'.fd = wf[1].fd /\ file' = [wf[2] EXCEPT ![wf[1].fd] = Append(@, "reply")]
    <3>1. Wrote(wf[1], wf[2], "reply", pcap', file')
      BY <1>2, <1>7, <1>9, WriteBlock
    <3> QED
      BY <3>1 DEF Wrote
  <2>2. [wf[2] EXCEPT ![pcap.fd] = Append(@, "reply")]
           = [file EXCEPT ![pcap.fd] = Append(Append(@, "secrets"), "reply")]
    BY <1>1, <1>9
  <2> QED
    BY <1>9, <2>1, <2>2
<1> QED
  BY <1>6, <1>8, <1>9

\* The pass that gives out the reply, and the secrets before it.
LEMMA OutboxKeepsKeys ==
  ASSUME Types, Undecrypted, Keyed, SecretsFirst, captured(take_outbox),
         keylog # {}, outbox # <<>>, keylog' = {}, tls' \in {"up", "replied"}
  PROVE  (Undecrypted /\ Keyed /\ NoHelloYet /\ SecretsFirst)'
<1>1. Undecrypted' /\ NoHelloYet'
  BY DEF Undecrypted, NoHelloYet
<1>2. broken' = broken
  BY DEF captured
<1>3. CASE /\ pcap' = pcap /\ file' = file
           /\ pcap.fd = 0 \/ pcap.stopped \/ pcap.fd \in broken
  BY <1>1, <1>2, <1>3 DEF Keyed, SecretsFirst
<1>4. CASE /\ pcap.fd \in Fds /\ pcap'.fd = pcap.fd
           /\ \/ file' = [file EXCEPT ![pcap.fd] = Append(@, "secrets")]
              \/ file' = [file EXCEPT ![pcap.fd] = Append(Append(@, "secrets"), "reply")]
  <2> DEFINE s == file[pcap.fd] t == Append(s, "secrets")
  <2>1. /\ s \in Seq(Blocks) /\ \A d \in Fds \ {pcap.fd} : file'[d] = file[d]
        /\ file'[pcap.fd] = t \/ file'[pcap.fd] = Append(t, "reply")
    BY <1>4 DEF Types
  <2>2. "secrets" \in Blocks /\ "reply" \in Blocks
    BY DEF Blocks
  <2>3. SecretsFirstIn(s)
    BY <1>4, SecretsFirstFiles
  <2> HIDE DEF s
  <2>4. t \in Seq(Blocks) /\ SecretsFirstIn(t) /\ Followed(t)
    BY <2>1, <2>2, <2>3, AppendProperties, AppendKeepsSecrets, AppendFollowed
  <2> HIDE DEF t
  <2>5. SecretsFirstIn(Append(t, "reply")) /\ Followed(Append(t, "reply"))
    BY <2>2, <2>4, AppendKeepsSecrets, AppendFollowed
  <2>6. Followed(file'[pcap.fd]) /\ SecretsFirstIn(file'[pcap.fd])
    BY <2>1, <2>4, <2>5
  <2>7. \A d \in Fds : SecretsFirstIn(file'[d])
    BY <2>1, <2>6, SecretsFirstFiles
  <2> QED
    BY <1>1, <1>4, <2>6, <2>7 DEF Keyed, SecretsFirst, SecretsFirstIn
<1> QED
  BY <1>3, <1>4, OutboxWrites

\* A new capture has nothing of the flow in its file.
LEMMA StartKeepsKeys ==
  ASSUME Types, Undecrypted, Keyed, NoHelloYet, SecretsFirst, UNCHANGED splice,
         NEW fd \in Fds, NEW n, start_pcap(fd, n)
  PROVE  (Undecrypted /\ Keyed /\ NoHelloYet /\ SecretsFirst)'
<1>1. CASE fd \in broken
  <2>1. pcap'.fd = 0 /\ file' = file
    BY <1>1 DEF start_pcap, NoPcap
  <2> QED
    BY <2>1 DEF Undecrypted, Keyed, NoHelloYet, SecretsFirst
<1>2. CASE fd \notin broken
  <2>1. /\ pcap'.fd = fd /\ file'[fd] = <<"header">>
        /\ \A d \in Fds \ {fd} : file'[d] = file[d]
    BY <1>2 DEF start_pcap, new_writer, Types
  <2>2. \A i \in DOMAIN file'[fd] : file'[fd][i] = "header"
    BY <2>1
  <2>3. Undecrypted'
    BY <2>1, <2>2 DEF Undecrypted
  <2>4. Keyed'
    BY <2>1, <2>2 DEF Keyed, Followed
  <2>5. NoHelloYet'
    BY <2>1, <2>2 DEF NoHelloYet
  <2>6. \A d \in Fds : SecretsFirstIn(file'[d])
    <3>1. SecretsFirstIn(file'[fd])
      BY <2>2 DEF SecretsFirstIn
    <3> QED
      BY <2>1, <3>1, SecretsFirstFiles
  <2>7. SecretsFirst'
    BY <2>6 DEF SecretsFirst, SecretsFirstIn
  <2> QED
    BY <2>3, <2>4, <2>5, <2>7
<1> QED
  BY <1>1, <1>2

LEMMA KeysStep ==
  ASSUME RuntimeAssumption, Types, Waiting, Backlog, Keys, [Next]_vars
  PROVE  Keys'
<1> USE DEF Keys
<1>1. CASE drain_tun
  <2> DEFINE n == Head(tun) b == kind[n].kind
  <2>1. /\ n \in DOMAIN kind /\ n = tun[1] /\ 1 \in DOMAIN tun
        /\ \A i \in DOMAIN tun' : tun'[i] = tun[i + 1] /\ i + 1 \in DOMAIN tun /\ 1 < i + 1
    BY <1>1, NextPacket
  <2>2. /\ on_tun_packet(n) /\ UNCHANGED <<kind, thread>>
    BY <1>1 DEF drain_tun
  <2>3. \A i \in DOMAIN tun' : tun'[i] # n /\ tun'[i] \in DOMAIN kind
    <3>1. \A i \in DOMAIN tun : tun[i] \in DOMAIN kind
      BY LenProperties DEF Waiting, Types
    <3> QED
      BY <2>1, <3>1 DEF Waiting
  <2> HIDE DEF n
  <2>4. /\ b \in AllKinds /\ tap(b) /\ keylog' = keylog /\ outbox' = outbox
        /\ tls' = IF b = "hello" THEN "hello" ELSE tls
    <3>1. kind[n] \in Packet
      BY <2>1, LenProperties, ElementOfSeq DEF Types
    <3> QED
      BY <2>1, <2>2, <3>1, ReadTypes DEF Packet
  <2>5. b = "hello" => tls = "none" /\ keylog = {}
    BY <2>1 DEF Flow
  <2>6. b = "record" => tls = "replied" /\ keylog = {}
    BY <2>1 DEF Flow
  <2>7. (Undecrypted /\ Keyed /\ NoHelloYet /\ SecretsFirst)'
    BY <2>4, <2>5, <2>6, TapKeepsKeys
  <2>8. Flow'
    <3>1. CASE b = "hello"
      <4>1. tls = "none" /\ tls' = "hello" /\ keylog' = {} /\ outbox' = outbox /\ kind' = kind
        BY <2>2, <2>4, <2>5, <3>1
      <4>2. \A i \in DOMAIN tun' : kind[tun'[i]].kind # "hello"
        BY <2>1, <2>3, <3>1 DEF Flow
      <4>3. \A i \in DOMAIN kind : kind[i].kind # "record"
        BY <4>1 DEF Flow
      <4> QED
        BY <2>1, <2>4, <3>1, <4>1, <4>2, <4>3 DEF Flow
    <3>2. CASE b # "hello"
      BY <2>1, <2>2, <2>4, <3>2 DEF Flow
    <3> QED
      BY <3>1, <3>2
  <2> QED
    BY <2>7, <2>8
<1>2. CASE service
  <2>1. UNCHANGED <<tun, kind, capture>> /\ pc' = "outbox"
    BY <1>2 DEF service
  <2>2. CASE tls = "hello"
    <3>1. tls' = "up" /\ keylog' # {} /\ outbox' # <<>>
      BY <1>2, <2>2 DEF service, log_secrets
    <3>2. Flow'
      BY <2>1, <2>2, <3>1 DEF Flow
    <3>3. Undecrypted' /\ Keyed' /\ NoHelloYet' /\ SecretsFirst'
      BY <2>1, <2>2, <3>1 DEF Undecrypted, Keyed, NoHelloYet, SecretsFirst
    <3> QED
      BY <3>2, <3>3
  <2>3. CASE tls # "hello"
    <3>1. UNCHANGED splice
      BY <1>2, <2>3 DEF service
    <3>2. Flow'
      BY <2>1, <3>1 DEF Flow
    <3> QED
      BY <2>1, <3>1, <3>2 DEF Undecrypted, Keyed, NoHelloYet, SecretsFirst
  <2> QED
    BY <2>2, <2>3
<1>3. CASE write_outbox
  <2>1. /\ captured(take_outbox) /\ keylog' = {} /\ outbox' = <<>> /\ UNCHANGED <<tun, kind>>
        /\ outbox = <<>> => tls' = tls
        /\ tls' \in {"replied", tls}
    BY <1>3 DEF write_outbox, take_key_log
  <2>2. CASE keylog = {}
    <3>1. outbox = <<>> /\ tls' = tls
      BY <2>1, <2>2 DEF Flow
    <3>2. UNCHANGED capture
      BY <2>1, <2>2, <3>1 DEF captured, take_outbox, write_tls_secrets, write_packets
    <3>3. Flow'
      BY <2>1, <3>1 DEF Flow
    <3> QED
      BY <2>1, <2>2, <3>1, <3>2, <3>3 DEF Undecrypted, Keyed, NoHelloYet, SecretsFirst
  <2>3. CASE keylog # {}
    <3>1. outbox # <<>> /\ tls = "up" /\ tls' \in {"up", "replied"}
      BY <2>1, <2>3 DEF Flow
    <3>2. (Undecrypted /\ Keyed /\ NoHelloYet /\ SecretsFirst)'
      BY <2>1, <2>3, <3>1, OutboxKeepsKeys
    <3>3. Flow'
      BY <2>1, <3>1 DEF Flow
    <3> QED
      BY <3>2, <3>3
  <2> QED
    BY <2>2, <2>3
<1>4. CASE Sends
  <2>1. PICK k \in Kinds, a \in Apps :
           /\ k = "hello" => \A i \in DOMAIN kind : kind[i].kind # "hello"
           /\ k = "record" => tls = "replied"
           /\ kind' = Append(kind, [kind |-> k, uid |-> a])
    BY <1>4 DEF Sends
  <2>2. [kind |-> k, uid |-> a] \in Packet
    BY DEF Packet, RuntimeAssumption
  <2>3. /\ DOMAIN kind = 1..Len(kind) /\ Len(kind) \in Nat /\ DOMAIN kind' = 1..(Len(kind) + 1)
        /\ \A i \in 1..Len(kind) : kind'[i] = kind[i]
        /\ kind'[Len(kind) + 1].kind = k
    BY <2>1, <2>2, AppendProperties, LenProperties DEF Types
  <2>4. /\ DOMAIN tun = 1..Len(tun) /\ Len(tun) \in Nat /\ DOMAIN tun' = 1..(Len(tun) + 1)
        /\ \A i \in 1..Len(tun) : tun'[i] = tun[i]
        /\ tun'[Len(tun) + 1] = Len(kind) + 1
    BY <1>4, <2>3, AppendProperties, LenProperties DEF Sends, Types
  <2>5. UNCHANGED <<pc, splice, capture>>
    BY <1>4 DEF Sends
  <2>6. /\ \A i \in DOMAIN kind' : i \in DOMAIN kind \/ i = Len(kind) + 1
        /\ \A i \in DOMAIN kind : i \in DOMAIN kind'
        /\ \A i \in DOMAIN tun' : i \in DOMAIN tun \/ i = Len(tun) + 1
    BY <2>3, <2>4
  <2>7. \A i \in DOMAIN tun : tun[i] \in DOMAIN kind
    BY <2>3 DEF Waiting
  <2>8. \A i, j \in DOMAIN kind' : kind'[i].kind = "hello" /\ kind'[j].kind = "hello" => i = j
    BY <2>1, <2>3, <2>6 DEF Flow
  <2>9. \A i \in DOMAIN tun' : kind'[tun'[i]].kind = "hello" => tls = "none"
    BY <2>1, <2>3, <2>4, <2>6, <2>7 DEF Flow
  <2>10. /\ tls # "none" => \E i \in DOMAIN kind' : kind'[i].kind = "hello"
         /\ \A i \in DOMAIN kind' : kind'[i].kind = "record" => tls = "replied"
    BY <2>1, <2>3, <2>6 DEF Flow
  <2>11. Flow'
    BY <2>5, <2>8, <2>9, <2>10 DEF Flow
  <2> QED
    BY <2>5, <2>11 DEF Undecrypted, Keyed, NoHelloYet, SecretsFirst
<1>5. CASE applies
  <2> DEFINE c == Head(todo)
  <2>1. c \in Command
    BY <1>5, HeadTailProperties DEF applies, Types
  <2>2. UNCHANGED <<pc, tun, kind, splice>>
    BY <1>5 DEF applies
  <2>3. Flow'
    BY <2>2 DEF Flow
  <2>4. CASE c.op = "StartPcap" /\ start_pcap(c.fd, c.ring_bytes)
    <3>1. c.fd \in Fds
      BY <2>1, <2>4 DEF Command
    <3> QED
      BY <2>2, <2>3, <2>4, <3>1, StartKeepsKeys
  <2>5. CASE UNCHANGED <<file, broken>> /\ (pcap' = pcap \/ pcap'.fd = 0)
    BY <2>2, <2>3, <2>5 DEF Undecrypted, Keyed, NoHelloYet, SecretsFirst
  <2>6. (c.op = "StartPcap" /\ start_pcap(c.fd, c.ring_bytes))
           \/ (UNCHANGED <<file, broken>> /\ (pcap' = pcap \/ pcap'.fd = 0))
    BY <1>5 DEF applies, stop_pcap, export_har, NoPcap
  <2> QED
    BY <2>4, <2>5, <2>6
<1>6. CASE /\ UNCHANGED <<tun, kind, splice, file>> /\ broken \subseteq broken'
           /\ pcap' = pcap \/ pcap'.fd = 0
           /\ pc' \in {pc, "panicked"} \/ pc \notin {"outbox", "panicked"}
  <2>1. Flow'
    BY <1>6 DEF Flow
  <2>2. Undecrypted' /\ Keyed' /\ NoHelloYet' /\ SecretsFirst'
    BY <1>6 DEF Undecrypted, Keyed, NoHelloYet, SecretsFirst
  <2> QED
    BY <2>1, <2>2
<1>7. \/ drain_tun \/ service \/ write_outbox \/ Sends \/ applies
      \/ /\ UNCHANGED <<tun, kind, splice, file>> /\ broken \subseteq broken'
         /\ pcap' = pcap \/ pcap'.fd = 0
         /\ pc' \in {pc, "panicked"} \/ pc \notin {"outbox", "panicked"}
  BY DEF Next, Thread, Starts, EndsEarly, Ends, stop_pcap, NoPcap, polls, flushes, exits, Panics,
      send, stop_begins, stop_joins, FileBreaks, vars
<1> QED
  BY <1>1, <1>2, <1>3, <1>4, <1>5, <1>6, <1>7

-----------------------------------------------------------------------------
(* The theorems *)

LEMMA InitInv ==
  ASSUME RuntimeAssumption, Init
  PROVE  IInv
<1>1. Types
  BY InitTypes
<1>2. /\ sent = <<>> /\ queue = <<>> /\ todo = <<>> /\ closed = <<>> /\ pcap.fd = 0
      /\ tun = <<>> /\ kind = <<>> /\ read = <<>> /\ batch = <<>> /\ coarse = <<>>
      /\ told = <<>> /\ lost = <<>> /\ tls = "none" /\ keylog = {} /\ outbox = <<>>
  BY DEF Init, NoPcap
<1>3. \A d \in Fds : file[d] = <<>>
  BY DEF Init
<1>4. DOMAIN sent = {} /\ Len(sent) = 0 /\ DOMAIN queue = {} /\ DOMAIN todo = {} /\ Applied = 0
  <2>1. Len(sent) = 0 /\ Len(queue) = 0 /\ Len(todo) = 0
    BY <1>2, EmptySeq
  <2> QED
    BY <2>1 DEF Applied
<1>5. Backlog
  BY <1>2, <1>4 DEF Backlog, RuntimeAssumption
<1>6. Owned
  <2>1. 1..Applied = {}
    BY <1>4
  <2> QED
    BY <1>2, <2>1 DEF Owned, Injective, ToSet
<1>7. Settled
  <2>1. 1..Applied = {}
    BY <1>4
  <2> QED
    BY <1>2, <2>1 DEF Settled
<1>8. Telling
  <2>1. ToSet(coarse) = {} /\ ToSet(read) = {} /\ Injective(coarse)
    BY <1>2 DEF ToSet, Injective
  <2>2. Waiting /\ NothingHeld
    BY <1>2 DEF Waiting, NothingHeld
  <2>3. Accounted /\ Ordered
    BY <1>2, <2>1, NoEvent DEF Accounted, Ordered
  <2> QED
    BY <2>2, <2>3 DEF Telling
<1>9. Keys
  BY <1>2, <1>3 DEF Keys, Flow, Undecrypted, Keyed, NoHelloYet, SecretsFirst
<1> QED
  BY <1>1, <1>5, <1>6, <1>7, <1>8, <1>9 DEF IInv

LEMMA StepInv ==
  ASSUME RuntimeAssumption, IInv, [Next]_vars
  PROVE  IInv'
<1>1. Types /\ Backlog /\ Owned /\ Settled /\ Telling /\ Waiting /\ Keys
  BY DEF IInv, Telling
<1> QED
  BY <1>1, TypesStep, BacklogStep, OwnedStep, SettledStep, TellingStep, KeysStep DEF IInv

\* The inductive invariant holds.
LEMMA Invariant == Spec => []IInv
BY RuntimeAssumption, InitInv, StepInv, PTL DEF Spec

\* Every decoded packet is told, lost with a failed upcall or held, once and in order,
\* and nothing is held past an end without a panic (on_tun_packet, take_coarse,
\* drain_encoded and the flush past the loop of runtime.rs).
THEOREM ToldOnce == Spec => []EventsExact
<1>1. IInv => EventsExact
  BY TellingMeans DEF IInv
<1> QED
  BY <1>1, Invariant, PTL

\* The state keeps its types, and each descriptor given to the core is the queue's, the
\* capture's or closed, once (start_pcap, stop_pcap and export_har of forward.rs).
THEOREM StateIsOwned == Spec => []StateOwned
<1>1. IInv => StateOwned
  BY OwnedMeans DEF IInv, Telling
<1> QED
  BY <1>1, Invariant, PTL

\* What the callers' commands leave when they are applied in the order they were sent
\* is what holds once none waits (Session::send, apply_commands).
THEOREM CommandsSettle == Spec => []CommandsInOrder
<1>1. IInv => CommandsInOrder
  BY SettledMeans DEF IInv
<1> QED
  BY <1>1, Invariant, PTL

\* A capture with a flow's hello has the secrets before what they decrypt (take_outbox,
\* write_tls_secrets).
THEOREM SecretsComeFirst == Spec => []SecretsFirst
<1>1. IInv => SecretsFirst
  BY DEF IInv, Keys
<1> QED
  BY <1>1, Invariant, PTL

=============================================================================
