------------------------------ MODULE Runtime ------------------------------
(***************************************************************************)
(* The datapath thread of rust/core/src/runtime.rs, the callers of         *)
(* rust/core/src/ffi.rs that queue commands for it and end it, and what    *)
(* the thread keeps from one turn of its loop to the next for others: the  *)
(* batch of events (event.rs, bridge.rs), the coalesced telemetry, the     *)
(* capture (pcap/src/lib.rs) and the TLS key log it folds in (forward.rs,  *)
(* tls/src/lib.rs).                                                        *)
(*                                                                         *)
(* A packet is its number and its kind; what forwarding makes of it is in  *)
(* the other modules.  One inspected TLS flow stands for all: a hello of   *)
(* the app, the secrets and the reply the splice makes of it in the        *)
(* service pass, and records the app then sends.  The poll always returns, *)
(* its timeout being a second at most, so the waker is left out.           *)
(***************************************************************************)
EXTENDS Integers, Sequences, SequencesExt

CONSTANTS
    Apps,           \* uids the verdict may name
    Kinds,          \* the packets the apps send, of AllKinds
    Ops,            \* the commands sent, of AllOps
    MaxPackets,     \* bound on the packets the apps send
    MaxCommands,    \* bound on the commands queued
    RingBytes,      \* the ring_bytes a capture may be started with, in blocks; 0: unbounded
    MaxBatch,       \* MAX_BATCH
    LogOpen,        \* config.log_open, the values it may have
    Faults          \* which of AllFaults happen

AllKinds == {"junk", "dropped", "flow", "hello", "record"}
AllOps == {"StartPcap", "StopPcap", "ExportHar", "SetLogOpen", "UpdateFirewall"}
AllFaults == {"start", "poll", "panic", "upcall", "write", "file"}

ASSUME RuntimeAssumption ==
    /\ MaxPackets \in Nat /\ MaxCommands \in Nat
    /\ LogOpen \subseteq BOOLEAN /\ RingBytes \subseteq Nat /\ MaxBatch \in Nat \ {0}
    /\ Kinds \subseteq AllKinds /\ Ops \subseteq AllOps /\ Faults \subseteq AllFaults

Fds == 1..MaxCommands
Packets == 1..MaxPackets

VARIABLES
    pc,         \* what the thread does next
    todo,       \* the commands apply_commands drained
    queue,      \* Session.commands
    stop,       \* Session.stop
    caller,     \* the holder of the Session: running, joining, joined
    sent,       \* the commands sent so far
    tun,        \* packets readable from the TUN
    kind,       \* the packets sent so far: kind and owner
    read,       \* those decoded on the way in, in order
    batch,      \* Batcher.events
    coarse,     \* CoarseAccum, by the packets it counts
    told,       \* the events Kotlin got
    lost,       \* the events of a batch that onEvents was not given
    log_open, firewall,
    tls,        \* the inspected flow: none, hello, up, replied
    keylog,     \* the key log's secrets: those of the flow, or none
    outbox,
    pcap,       \* the capture, or NoPcap
    file,       \* per descriptor, the blocks written
    closed,     \* the descriptors closed, in order
    broken      \* descriptors that take no more bytes

thread == <<pc, todo>>
session == <<queue, stop, caller, sent>>
apps == <<tun, kind>>
events == <<read, batch, coarse, told, lost>>
settings == <<log_open, firewall>>
splice == <<tls, keylog, outbox>>
capture == <<pcap, file, closed, broken>>
vars == <<thread, session, apps, events, settings, splice, capture>>

NoPcap == [fd |-> 0, cap |-> 0, written |-> 0, stopped |-> FALSE]

Init ==
    /\ pc = "starting" /\ todo = <<>>
    /\ queue = <<>> /\ stop = FALSE /\ caller = "running" /\ sent = <<>>
    /\ tun = <<>> /\ kind = <<>>
    /\ read = <<>> /\ batch = <<>> /\ coarse = <<>> /\ told = <<>> /\ lost = <<>>
    /\ log_open \in LogOpen /\ firewall = {}
    /\ tls = "none" /\ keylog = {} /\ outbox = <<>>
    /\ pcap = NoPcap /\ file = [d \in Fds |-> <<>>] /\ closed = <<>> /\ broken = {}

-----------------------------------------------------------------------------
(* The capture file: PcapWriter *)

\* Append a block, unless the cap was reached or the descriptor takes no more; the
\* error is ignored by tap and take_outbox.  The operators take and give a pair of
\* the writer and the files' blocks.
write_block(wf, block) ==
    LET w == wf[1] n == w.written + 1
    IN  IF w.fd = 0 \/ w.stopped \/ w.fd \in broken THEN wf
        ELSE <<[w EXCEPT !.written = n, !.stopped = w.cap > 0 /\ n >= w.cap],
               [wf[2] EXCEPT ![w.fd] = Append(@, block)]>>

captured(wf) ==
    /\ pcap' = wf[1] /\ file' = wf[2]
    /\ UNCHANGED <<closed, broken>>

tap(packet) == captured(write_block(<<pcap, file>>, packet))

\* The descriptors a dropped capture closes.
Dropped == IF pcap.fd = 0 THEN <<>> ELSE <<pcap.fd>>

\* Mutant: the capture it replaces is never closed.
start_pcap_leaks(fd, ring_bytes) ==
    /\ pcap' = [fd |-> fd, cap |-> ring_bytes, written |-> 1, stopped |-> FALSE]
    /\ file' = [file EXCEPT ![fd] = <<"header">>]
    /\ UNCHANGED <<closed, broken>>

\* PcapWriter::new: the section and interface header are the file's first block; the
\* bytes already written count against the cap.
new_writer(fd, ring_bytes) == [fd |-> fd, cap |-> ring_bytes, written |-> 1, stopped |-> FALSE]

\* The new writer takes the descriptor, then replaces the old one, whose file it
\* closes; when the header fails the new descriptor closes too.
start_pcap(fd, ring_bytes) ==
    /\ IF fd \in broken
       THEN pcap' = NoPcap /\ closed' = Append(closed, fd) \o Dropped /\ UNCHANGED file
       ELSE /\ pcap' = new_writer(fd, ring_bytes)
            /\ file' = [file EXCEPT ![fd] = <<"header">>]
            /\ closed' = closed \o Dropped
    /\ UNCHANGED broken

stop_pcap ==
    /\ pcap' = NoPcap /\ closed' = closed \o Dropped
    /\ UNCHANGED <<file, broken>>

\* Writes the transactions and closes the descriptor, written or not.
export_har(fd) ==
    /\ closed' = Append(closed, fd)
    /\ UNCHANGED <<pcap, file, broken>>

-----------------------------------------------------------------------------
(* The callers: nativeStartPcap, nativeStopPcap, nativeExportHar,          *)
(* nativeSetLogOpen, nativeUpdateFirewall, nativeStop                      *)

FdsOf(cs) == {c.fd : c \in {d \in ToSet(cs) : d.op \in {"StartPcap", "ExportHar"}}}
OpenFds == FdsOf(sent) \ ToSet(closed)
\* A descriptor is named by the number of the command it was opened for.
FreshFd == Len(sent) + 1

nativeStartPcap == [op : {"StartPcap"}, fd : {FreshFd}, ring_bytes : RingBytes]
nativeStopPcap == [op : {"StopPcap"}]
nativeExportHar == [op : {"ExportHar"}, fd : {FreshFd}]
nativeSetLogOpen == [op : {"SetLogOpen"}, open : BOOLEAN]
nativeUpdateFirewall == [op : {"UpdateFirewall"}, rules : SUBSET Apps]

Commands == nativeStartPcap \cup nativeStopPcap \cup nativeExportHar
                \cup nativeSetLogOpen \cup nativeUpdateFirewall

\* Session::send, by whoever holds the handle; true is the answer, whatever becomes
\* of the thread.
send ==
    /\ caller = "running" /\ Len(sent) < MaxCommands
    /\ \E c \in {d \in Commands : d.op \in Ops} : queue' = Append(queue, c) /\ sent' = Append(sent, c)
    /\ UNCHANGED <<stop, caller, thread, apps, events, settings, splice, capture>>

stop_begins ==
    /\ caller = "running"
    /\ stop' = TRUE /\ caller' = "joining"
    /\ UNCHANGED <<queue, sent, thread, apps, events, settings, splice, capture>>

\* The join returns and the session is dropped, with what its queue still holds.
stop_joins ==
    /\ caller = "joining" /\ pc \in {"ended", "panicked"}
    /\ caller' = "joined" /\ queue' = <<>>
    /\ UNCHANGED <<stop, sent, thread, apps, events, settings, splice, capture>>

\* The apps.  A record follows the reply of the splice.
Sends ==
    /\ Len(kind) < MaxPackets /\ pc \notin {"ended", "panicked"}
    /\ \E k \in Kinds, a \in Apps :
            /\ k = "hello" => \A i \in DOMAIN kind : kind[i].kind # "hello"
            /\ k = "record" => tls = "replied"
            /\ kind' = Append(kind, [kind |-> k, uid |-> a])
    /\ tun' = Append(tun, Len(kind) + 1)
    /\ UNCHANGED <<session, thread, events, settings, splice, capture>>

\* The document behind a descriptor takes no more bytes.
FileBreaks ==
    /\ "file" \in Faults
    /\ \E d \in OpenFds \ broken : broken' = broken \cup {d}
    /\ UNCHANGED <<pcap, file, closed, session, thread, apps, events, settings, splice>>

-----------------------------------------------------------------------------
(* Telemetry *)

coarse_mode(uid) == ~log_open /\ uid \notin firewall

\* Event::flow and Event::blocked: one event about one packet; Event::coarse: one
\* about the packets of a window.
Event(k, of) == [kind |-> k, of |-> of]
Event_coarse(of) == Event("coarse", of)

push(event) == batch' = Append(batch, event)
coarse_add(n) == coarse' = Append(coarse, n)

\* An allowed packet is an event of its own, or folded into the window.
flow_event(n) ==
    IF coarse_mode(kind[n].uid)
    THEN coarse_add(n) /\ UNCHANGED batch
    ELSE push(Event("flow", <<n>>)) /\ UNCHANGED coarse

\* take_coarse: the window as a single event, and an empty window.
take_coarse == IF coarse = <<>> THEN <<>> ELSE <<Event_coarse(coarse)>>
\* Batcher::drain_encoded: the batch leaves as one blob of records, in order.
drain_encoded == batch' = <<>>

\* onEvents gets the blob, unless its array cannot be made.
on_events(blob) ==
    \/ told' = told \o blob /\ UNCHANGED lost
    \/ "upcall" \in Faults /\ lost' = lost \o blob /\ UNCHANGED told

\* The window is folded into the batch, and the batch given out.
flush ==
    LET blob == batch \o take_coarse
    IN  /\ coarse' = <<>> /\ drain_encoded
        /\ IF blob = <<>> THEN UNCHANGED <<told, lost>> ELSE on_events(blob)
        /\ UNCHANGED read

-----------------------------------------------------------------------------
(* The thread *)

\* run_loop returns, closing the TUN and dropping the forwarder with its capture and the
\* batcher with its events.
Ends ==
    /\ pc' = "ended"
    /\ stop_pcap

EndsEarly ==
    /\ Ends
    /\ UNCHANGED <<todo, session, apps, events, settings, splice>>

\* run_loop up to its loop; any of the three calls may fail.
Starts ==
    /\ pc = "starting"
    /\ \/ pc' = "poll" /\ UNCHANGED <<todo, session, apps, events, settings, splice, capture>>
       \/ "start" \in Faults /\ EndsEarly

\* Mutant: the newest command first.
drained_backwards == todo' = Reverse(queue) /\ queue' = <<>>

\* apply_commands' first half: the queue is drained under its lock.
drained == todo' = queue /\ queue' = <<>>

\* Mutant: the flag is looked at on a turn that a command woke.
polls_woken ==
    /\ pc = "poll"
    /\ IF stop /\ queue # <<>> THEN pc' = "exit" /\ UNCHANGED <<todo, queue>>
       ELSE pc' = "turn" /\ drained
    /\ UNCHANGED <<stop, caller, sent, apps, events, settings, splice, capture>>

\* The loop's head: the flag, then the poll, which may fail, then the commands.
polls ==
    /\ pc = "poll"
    /\ \/ stop /\ pc' = "exit" /\ UNCHANGED <<todo, queue>>
       \/ ~stop /\ pc' = "turn" /\ drained
       \/ ~stop /\ "poll" \in Faults /\ pc' = "exit" /\ UNCHANGED <<todo, queue>>
    /\ UNCHANGED <<stop, caller, sent, apps, events, settings, splice, capture>>

\* apply_commands: each in turn.
applies ==
    /\ pc = "turn" /\ todo # <<>>
    /\ todo' = Tail(todo)
    /\ LET c == Head(todo)
       IN  \/ c.op = "StartPcap" /\ start_pcap(c.fd, c.ring_bytes) /\ UNCHANGED settings
           \/ c.op = "StopPcap" /\ stop_pcap /\ UNCHANGED settings
           \/ c.op = "ExportHar" /\ export_har(c.fd) /\ UNCHANGED settings
           \/ c.op = "SetLogOpen" /\ log_open' = c.open /\ UNCHANGED <<firewall, capture>>
           \/ c.op = "UpdateFirewall" /\ firewall' = c.rules /\ UNCHANGED <<log_open, capture>>
    /\ UNCHANGED <<pc, session, apps, events, splice>>

\* drain_tun and on_tun_packet, for one packet: the capture first, whatever the
\* verdict; then its event.
on_tun_packet(n) ==
    /\ tap(kind[n].kind)
    /\ IF kind[n].kind = "junk" THEN UNCHANGED events
       ELSE /\ read' = Append(read, n)
            /\ \/ /\ kind[n].kind = "dropped"
                  /\ push(Event("block", <<n>>))
                  /\ UNCHANGED coarse
               \/ kind[n].kind # "dropped" /\ flow_event(n)
            /\ UNCHANGED <<told, lost>>
    /\ tls' = IF kind[n].kind = "hello" THEN "hello" ELSE tls
    /\ UNCHANGED <<keylog, outbox>>

\* A turn reads until none is left, if the poll said there were any.
drain_tun ==
    /\ pc = "turn" /\ todo = <<>> /\ tun # <<>>
    /\ on_tun_packet(Head(tun)) /\ tun' = Tail(tun)
    /\ UNCHANGED <<kind, thread, session, settings>>

\* KeyLogSink::log, from within the app's handshake.
log_secrets == keylog' = keylog \cup {"secrets"}

\* Forwarder::service: the splice answers the hello, and the key log gets its secrets.
service ==
    /\ pc = "turn" /\ todo = <<>> /\ pc' = "outbox"
    /\ IF tls = "hello"
       THEN tls' = "up" /\ log_secrets /\ outbox' = <<"reply">>
       ELSE UNCHANGED splice
    /\ UNCHANGED <<todo, session, apps, events, settings, capture>>

\* The key log's text as one block, if there is any.
write_tls_secrets(wf) == IF keylog = {} THEN wf ELSE write_block(wf, "secrets")
\* The pass's packets.
write_packets(wf) == IF outbox = <<>> THEN wf ELSE write_block(wf, outbox[1])

\* Mutant: the packets, then the secrets.
take_outbox_late == write_tls_secrets(write_packets(<<pcap, file>>))

\* take_outbox: the secrets, then the packets.
take_outbox == write_packets(write_tls_secrets(<<pcap, file>>))

\* KeyLogSink::take
take_key_log == keylog' = {}

\* take_outbox and write_outbox: the key log is drained whether or not a capture
\* takes it; a packet the TUN has no room for is dropped.
write_outbox ==
    /\ pc = "outbox" /\ pc' = "flush"
    /\ captured(take_outbox)
    /\ take_key_log /\ outbox' = <<>>
    /\ tls' \in IF outbox = <<>> THEN {tls}
                ELSE {"replied"} \cup (IF "write" \in Faults THEN {tls} ELSE {})
    /\ UNCHANGED <<todo, session, apps, events, settings>>

\* The flush, when the batch is full or the interval, here any time, has passed.
flushes ==
    /\ pc = "flush" /\ pc' = "poll"
    /\ \/ flush
       \/ Len(batch) < MaxBatch /\ UNCHANGED events
    /\ UNCHANGED <<todo, session, apps, settings, splice, capture>>

\* Mutant: the last window is not folded in and the last batch not given out.
exits_at_once ==
    /\ pc = "exit"
    /\ Ends
    /\ UNCHANGED <<todo, session, apps, events, settings, splice>>

\* Past the loop: what is left is given out.
exits ==
    /\ pc = "exit"
    /\ flush
    /\ Ends
    /\ UNCHANGED <<todo, session, apps, settings, splice>>

\* A panic anywhere in the loop is caught and logged; the thread ends.
Panics ==
    /\ "panic" \in Faults
    /\ pc \in {"turn", "outbox", "flush"}
    /\ pc' = "panicked" /\ todo' = <<>>
    /\ stop_pcap
    /\ UNCHANGED <<session, apps, events, settings, splice>>

Thread ==
    \/ Starts \/ polls \/ applies \/ drain_tun \/ service \/ write_outbox \/ flushes \/ exits

Next == Thread \/ Panics \/ send \/ stop_begins \/ stop_joins \/ Sends \/ FileBreaks

Fairness == WF_vars(Thread) /\ WF_vars(stop_joins)

Spec == Init /\ [][Next]_vars /\ Fairness

-----------------------------------------------------------------------------
(* Properties *)

\* Every part of the state has its type (the variables of runtime.rs).
TypeOK ==
    /\ pc \in {"starting", "poll", "exit", "turn", "outbox", "flush", "ended", "panicked"}
    /\ stop \in BOOLEAN /\ caller \in {"running", "joining", "joined"}
    /\ ToSet(tun) \cup ToSet(read) \subseteq 1..Len(kind)
    /\ firewall \subseteq Apps /\ log_open \in BOOLEAN
    /\ keylog \subseteq {"secrets"} /\ Len(outbox) <= 1
    /\ pcap.fd \in Fds \cup {0} /\ (pcap = NoPcap <=> pcap.fd = 0)
    /\ ToSet(closed) \subseteq Fds

PacketsOf(es) == UNION {ToSet(es[i].of) : i \in DOMAIN es}

\* No packet in two events of es, nor twice in one.
Once(es) ==
    \A i, j \in DOMAIN es : \A k \in DOMAIN es[i].of, l \in DOMAIN es[j].of :
        es[i].of[k] = es[j].of[l] => i = j /\ k = l

\* The events about one packet are in the order of the packets.
InOrder(es) ==
    \A i, j \in DOMAIN es :
        i < j /\ es[i].kind # "coarse" /\ es[j].kind # "coarse" => es[i].of[1] < es[j].of[1]

\* Every decoded packet is in one event or in one window, given to Kotlin, lost with
\* a failed upcall or still held; the events given keep the order the packets came
\* in; and a loop that ends otherwise than by a panic has given out all it held
\* (on_tun_packet, take_coarse, drain_encoded and the flush past the loop).
EventsExact ==
    LET all == told \o lost \o batch \o take_coarse
    IN  /\ PacketsOf(all) = ToSet(read) /\ Once(all)
        /\ InOrder(told)
        /\ pc = "ended" => batch = <<>> /\ coarse = <<>>

\* While the thread runs, every descriptor given to the core is open in exactly the
\* command that waits with it or the one capture, and is closed once (start_pcap,
\* stop_pcap and export_har own what they are given).
DescriptorsOwned ==
    /\ \A i, j \in DOMAIN closed : closed[i] = closed[j] => i = j
    /\ pc \notin {"ended", "panicked"} =>
          OpenFds = FdsOf(queue) \cup FdsOf(todo) \cup ({pcap.fd} \ {0})

\* The datapath's state keeps its shape, and its descriptors one owner each.
StateOwned == TypeOK /\ DescriptorsOwned

\* The command i of cs is the last of those among the ops.
LastOf(cs, i, ops) == cs[i].op \in ops /\ \A j \in DOMAIN cs : j > i => cs[j].op \notin ops

\* What the callers' commands leave when they are applied in the order they were
\* sent is what holds once none waits (Session::send and apply_commands): the log,
\* the rules, and the capture unless its file could not be begun.
CommandsInOrder ==
    queue = <<>> /\ todo = <<>> /\ pc \notin {"ended", "panicked"} =>
        /\ \A i \in DOMAIN sent :
              /\ LastOf(sent, i, {"SetLogOpen"}) => log_open = sent[i].open
              /\ LastOf(sent, i, {"UpdateFirewall"}) => firewall = sent[i].rules
              /\ LastOf(sent, i, {"StartPcap", "StopPcap"}) =>
                    IF sent[i].op = "StopPcap" THEN pcap.fd = 0
                    ELSE pcap.fd = sent[i].fd \/ (pcap.fd = 0 /\ sent[i].fd \in broken)
        /\ pcap.fd # 0 => \E i \in DOMAIN sent :
              sent[i].op = "StartPcap" /\ sent[i].fd = pcap.fd
                  /\ LastOf(sent, i, {"StartPcap", "StopPcap"})

\* A capture that has a flow's hello has the flow's secrets before anything the
\* secrets decrypt (take_outbox; pcap/src/lib.rs, write_tls_secrets).
SecretsFirst ==
    \A d \in Fds : \A i, j \in DOMAIN file[d] :
        file[d][i] = "hello" /\ i < j /\ file[d][j] \in {"reply", "record"} =>
            \E k \in i..j : file[d][k] = "secrets"

\* Stopping a session ends: the thread sees the flag and the join returns
\* (Session::stop, and run_loop's head).
StopJoins == caller = "joining" ~> caller = "joined"

\* When the session is dropped, what was given to the core is closed: ffi.rs says of
\* the HAR export that the datapath thread closes its descriptor.
DescriptorsClosed == caller = "joined" => OpenFds = {}
=============================================================================
