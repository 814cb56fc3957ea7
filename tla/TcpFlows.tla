------------------------------ MODULE TcpFlows ------------------------------
(***************************************************************************)
(* The life of the TCP flows in rust/core/src/forward.rs: admission of     *)
(* their packets (on_tun_packet), opening (open_tcp), the deferred         *)
(* classification of 443 flows under the encrypted-DNS filter, the proxy   *)
(* handshake, the TLS splice, half-closes, teardown and the two reapers.   *)
(*                                                                         *)
(* Each flow talks to a server of its own, so the sockets of NetStack      *)
(* never meet and a flow is one record; what the handlers do to a flow is  *)
(* written as operators from a flow to the set of flows it may become.     *)
(* Bytes are abstracted to kinds: an app sends "raw" bytes, a splice       *)
(* produces "tls" bytes, absolute-URI forwarding produces "abs" bytes.     *)
(* The app-bound direction is the module TcpRelay's.                       *)
(***************************************************************************)
EXTENDS Naturals, FiniteSets

CONSTANTS
    Flows,      \* connections the apps may make
    pairOf,     \* flow -> the (uid, server address) pair pins are kept for
    Known,      \* flows whose uid Android could tell (uid >= 0)
    Kinds,      \* what each server port may be: subset of PortKinds
    MaxFlows,   \* max_flows
    MaxUnits,   \* bound on the segments of data an app sends on a flow
    MaxCommands, \* bound on the live configuration changes
    HsTimeout,  \* PROXY_HS_TIMEOUT_MS, in ticks
    SniTimeout  \* PENDING_SNI_TIMEOUT_MS, in ticks

PortKinds == {"http", "https", "dot", "other"}    \* 80, 443, 853, the rest
Hellos == {"doh", "plain", "none", "huge"}  \* the SNI: a DoH host, another host,
                                            \* none at all, beyond SNI_PEEK_CAP
Bytes == {"raw", "tls", "abs"}
\* FIN-WAIT-1 and -2 are FinWait, CLOSING is part of TimeWait.
Socks == {"none", "Listen", "SynReceived", "Established", "CloseWait", "FinWait",
          "LastAck", "TimeWait", "Closed"}
Segments == {"none", "syn", "ack", "data", "datafin", "fin", "rst"}
Splices == {"none", "dot", "doh", "inspect"}
MaxAge == SniTimeout + 1

ASSUME ConstantsAssumption ==
    /\ IsFiniteSet(Flows)
    /\ Known \subseteq Flows
    /\ DOMAIN pairOf = Flows
    /\ Kinds \subseteq PortKinds
    /\ MaxFlows \in Nat \ {0} /\ MaxUnits \in Nat /\ MaxCommands \in Nat
    /\ HsTimeout \in Nat /\ SniTimeout \in Nat /\ HsTimeout <= SniTimeout

VARIABLES
    flow,       \* Flows -> FlowRec
    mode,       \* encrypted_dns_mode
    ca,         \* the CA is loaded: tls.is_some()
    proxy,      \* the configured upstream proxy
    inspect,    \* flows whose app opted into inspection
    blocked,    \* flows whose app the firewall blocks
    servicing,  \* inside service()
    todo,       \* active flows the pass has still to relay
    answer,     \* what the packet just refused got
    cmds        \* live commands so far

vars == <<flow, mode, ca, proxy, inspect, blocked, servicing, todo, answer, cmds>>

\* A flow: its smoltcp socket (sock, the packet queued for it, unread app data)
\* and, while "up", its TcpUpstream.  The last five fields are history.
FlowRec ==
    [sock : Socks, inq : Segments, rx : 0..MaxUnits,
     up : BOOLEAN, connecting : BOOLEAN, handshake : BOOLEAN, mitm : Splices,
     over : BOOLEAN,        \* the splice has reported closed
     pending : BOOLEAN,     \* Classify::PendingSni
     buf : 0..1,            \* segments kept in it: SNI_PEEK_CAP bounds it
     fwd : BOOLEAN,         \* http_forward
     queue : SUBSET Bytes,  \* to_upstream
     write_closed : BOOLEAN, age : 0..MaxAge,
     kind : PortKinds, hello : Hellos, sent : 0..MaxUnits,
     opened : BOOLEAN,      \* the connection was ever admitted
     filtered : BOOLEAN,    \* admitted under Filter mode
     tunnelled : BOOLEAN,   \* the proxy granted the tunnel
     wire : SUBSET Bytes,   \* what was sent upstream
     rejected : BOOLEAN,    \* the app refused our leaf: the pair is pinned
     refused80 : BOOLEAN]   \* the proxy refused CONNECT to port 80

Live == {f \in Flows : flow[f].sock # "none"}

\* pinned and http_forward_80 are never unlearned.
pinned == {pairOf[f] : f \in {g \in Flows : flow[g].rejected}}
http_forward_80 == \E f \in Flows : flow[f].refused80

Pinned(f) == f \in Known /\ pairOf[f] \in pinned
app_inspects(f) == f \in Known /\ f \in inspect

Fresh(kind, hello) ==
    [sock |-> "none", inq |-> "none", rx |-> 0,
     up |-> FALSE, connecting |-> FALSE, handshake |-> FALSE, mitm |-> "none",
     over |-> FALSE, pending |-> FALSE, buf |-> 0, fwd |-> FALSE, queue |-> {},
     write_closed |-> FALSE, age |-> 0, kind |-> kind, hello |-> hello, sent |-> 0,
     opened |-> FALSE, filtered |-> FALSE, tunnelled |-> FALSE, wire |-> {},
     rejected |-> FALSE, refused80 |-> FALSE]

Init ==
    /\ flow \in [Flows -> {Fresh(k, h) : k \in Kinds, h \in Hellos}]
    /\ \A f \in Flows : flow[f].kind # "https" => flow[f].hello = "none"
    /\ mode \in {"Off", "Block", "Filter"}
    /\ ca \in BOOLEAN
    /\ proxy \in {"none", "http", "socks", "broken"}
    /\ inspect = {} /\ blocked = {}
    /\ servicing = FALSE /\ todo = {}
    /\ answer = "none"
    /\ cmds = 0

-----------------------------------------------------------------------------
(* Stack and socket helpers *)

tcp_abort(r) == [r EXCEPT !.sock = "Closed"]

tcp_close_app(r) ==
    [r EXCEPT !.sock = CASE r.sock = "Listen" -> "Closed"
                         [] r.sock \in {"SynReceived", "Established"} -> "FinWait"
                         [] r.sock = "CloseWait" -> "LastAck"
                         [] OTHER -> r.sock]

\* tcp_app_finished: judged from the TCP state, with the receive queue drained.
tcp_app_finished(r) ==
    r.sock \in {"CloseWait", "LastAck", "TimeWait", "Closed"} /\ r.rx = 0

\* The flow has no TcpUpstream any more.
teardown_tcp(r) ==
    [r EXCEPT !.up = FALSE, !.connecting = FALSE, !.handshake = FALSE, !.mitm = "none",
              !.over = FALSE, !.pending = FALSE, !.buf = 0, !.fwd = FALSE, !.queue = {},
              !.write_closed = FALSE, !.age = 0]

\* Mutant: fail_proxy leaves the app's side open.
fail_proxy_keeps_app(r) == teardown_tcp(r)

fail_proxy(r) == teardown_tcp(tcp_abort(r))

\* flush_to_upstream: nothing while connecting or in the proxy handshake; else
\* nothing, a part or all of the queue, or a write error.
flush_to_upstream(r) ==
    IF ~r.up \/ r.connecting \/ r.handshake \/ r.queue = {} THEN {r}
    ELSE {r, [r EXCEPT !.wire = r.wire \cup r.queue],
          [r EXCEPT !.wire = r.wire \cup r.queue, !.queue = {}], tcp_abort(r)}

-----------------------------------------------------------------------------
(* The TLS splice *)

\* Mutant: DNS splices are tried on pinned pairs too.
can_intercept_enc_dns_pinned(f) == ca

\* can_intercept_enc_dns
can_intercept_enc_dns(f) == ca /\ ~Pinned(f)

\* requires_enc_dns_intercept
requires_enc_dns_intercept(f) == mode = "Filter" /\ flow[f].kind = "dot"

\* new_mitm_if_intercepting: the splices it may return ("none": relay raw).
\* rustls may fail to make one.
new_mitm_if_intercepting(f) ==
    IF requires_enc_dns_intercept(f)
    THEN {"none"} \cup {s \in {"dot"} : can_intercept_enc_dns(f)}
    ELSE {"none"} \cup {s \in {"inspect"} : /\ flow[f].kind = "https" /\ app_inspects(f)
                                            /\ ~Pinned(f) /\ ca}

\* drive_mitm, once the splice reported closed: flush, close toward the app and
\* shut the upstream's write side down.
MitmClosed(r) ==
    {IF x.write_closed \/ x.connecting THEN tcp_close_app(x)
     ELSE [tcp_close_app(x) EXCEPT !.write_closed = TRUE] : x \in flush_to_upstream(r)}

\* drive_mitm: from the app's ClientHello on the splice produces TLS records for
\* the upstream, or reports closed, once and for all; the app may have refused
\* our leaf (it saw it only after its ClientHello), which pins its pair.
drive_mitm(r) ==
    IF r.sent = 0 THEN {r}
    ELSE IF r.over THEN MitmClosed(r)
    ELSE {[r EXCEPT !.queue = r.queue \cup q] : q \in {{}, {"tls"}}}
         \cup UNION {MitmClosed([r EXCEPT !.over = TRUE, !.rejected = r.rejected \/ x]) :
                       x \in {y \in BOOLEAN : y => r.sent > 1}}

-----------------------------------------------------------------------------
(* Proxy handshake *)

\* Mutant: the handshake counts as done once its request is sent.
drive_proxy_handshake_early(r) == {r, [r EXCEPT !.handshake = FALSE]}

\* drive_proxy_handshake: still running, done, or failed; a refusal of CONNECT
\* to port 80 by an HTTP proxy is remembered.
drive_proxy_handshake(r) ==
    {r, [r EXCEPT !.handshake = FALSE, !.tunnelled = TRUE], fail_proxy(r)}
    \cup {fail_proxy([r EXCEPT !.refused80 = TRUE]) :
            x \in {y \in {TRUE} : proxy = "http" /\ r.kind = "http"}}

-----------------------------------------------------------------------------
(* Classification of a deferred 443 flow *)

\* What peek_sni and the cap say of the n segments buffered so far: a
\* ClientHello is complete with the second segment, bytes that are no TLS
\* handshake are recognised in the first.
Waiting(r) == r.buf = 0 \/ (r.hello # "none" /\ r.buf < 2)

Dropped(r) == teardown_tcp(tcp_abort(r))

\* Mutant: a decision is taken and the flow still counts as undecided.
SettledPending(r) == [r EXCEPT !.buf = 0]

Settled(r) == [r EXCEPT !.pending = FALSE, !.buf = 0]

\* Mutant: a DoH flow that cannot be spliced falls through to the raw relay.
classify_pending_open(f, r) ==
    IF Waiting(r) THEN {r}
    ELSE {[Settled(r) EXCEPT !.queue = r.queue \cup {"raw"}]}

\* classify_pending, with the new segments already in the buffer: keep waiting,
\* filter DoH or drop it, inspect, or hand the buffer to the raw relay.
classify_pending(f, r) ==
    IF Waiting(r) THEN {r}
    ELSE IF r.hello = "doh"
    THEN {Dropped(Settled(r))}
         \cup UNION {drive_mitm([Settled(r) EXCEPT !.mitm = s]) :
                       s \in {x \in {"doh"} : can_intercept_enc_dns(f)}}
    ELSE {[Settled(r) EXCEPT !.queue = r.queue \cup {"raw"}]}
         \cup UNION {drive_mitm([Settled(r) EXCEPT !.mitm = s]) :
                       s \in {x \in {"inspect"} : app_inspects(f) /\ ~Pinned(f) /\ ca}}

\* An app that half-closes before its SNI is known never will reveal it.
AbandonedPending(r) ==
    IF r.up /\ r.pending /\ tcp_app_finished(r) THEN tcp_abort(r) ELSE r

-----------------------------------------------------------------------------
(* service(): one flow of the pass *)

Take(r) == [r EXCEPT !.rx = 0]

\* Mutant: the half-close is propagated while bytes are still queued.
half_close_early(r) ==
    IF r.up /\ tcp_app_finished(r) /\ ~r.write_closed /\ ~r.connecting
    THEN [r EXCEPT !.write_closed = TRUE] ELSE r

half_close(r) ==
    IF r.up /\ tcp_app_finished(r) /\ r.queue = {} /\ ~r.write_closed /\ ~r.connecting
    THEN [r EXCEPT !.write_closed = TRUE] ELSE r

FlushAndHalfClose(S) == {half_close(x) : x \in UNION {flush_to_upstream(y) : y \in S}}

\* What was read joins the bytes classify_pending looks at.
Buffered(r) == [Take(r) EXCEPT !.buf = r.buf + r.rx]

\* The branches of the loop body, in the code's order.
relay(f, r) ==
    IF ~r.up THEN {Take(r)}
    ELSE IF r.connecting THEN {r}
    ELSE IF r.handshake THEN drive_proxy_handshake(r)
    ELSE IF r.pending
    THEN {AbandonedPending(x) :
            x \in UNION {flush_to_upstream(y) :
                    y \in classify_pending(f, Buffered(r))}}
    ELSE IF r.mitm # "none" THEN FlushAndHalfClose(drive_mitm(Take(r)))
    ELSE IF r.fwd /\ r.rx > 0
    THEN {fail_proxy(Take(r))}
         \cup FlushAndHalfClose({[Take(r) EXCEPT !.queue = r.queue \cup {"abs"}]})
    ELSE IF r.rx > 0
    THEN FlushAndHalfClose({[Take(r) EXCEPT !.queue = r.queue \cup {"raw"}]})
    ELSE FlushAndHalfClose({r})

\* smoltcp delivers the packet queued for the flow; TIME-WAIT lasts one pass.
Delivered(r) ==
    LET fin == r.inq \in {"datafin", "fin"}
        dat == r.inq \in {"data", "datafin"}
    IN  IF r.sock = "TimeWait" THEN [r EXCEPT !.inq = "none", !.sock = "Closed"]
        ELSE IF r.sock = "Closed" \/ r.inq = "none" THEN [r EXCEPT !.inq = "none"]
        ELSE [r EXCEPT
          !.inq = "none",
          !.rx = IF dat /\ r.sock \in {"SynReceived", "Established", "FinWait"} /\ r.rx < MaxUnits
                 THEN r.rx + 1 ELSE r.rx,
          !.sock = CASE r.inq = "rst" -> (IF r.sock \in {"Listen", "SynReceived"}
                                          THEN "Listen" ELSE "Closed")
                     [] r.sock = "Listen" -> (IF r.inq = "syn" THEN "SynReceived" ELSE "Listen")
                     [] r.sock = "SynReceived" -> (IF fin THEN "CloseWait" ELSE
                                                   IF r.inq = "syn" THEN "SynReceived"
                                                   ELSE "Established")
                     [] r.sock = "Established" -> (IF fin THEN "CloseWait" ELSE "Established")
                     [] r.sock = "FinWait" -> (IF fin THEN "TimeWait" ELSE "FinWait")
                     [] r.sock = "LastAck" -> (IF r.inq = "ack" THEN "Closed" ELSE "LastAck")
                     [] OTHER -> r.sock]

\* The outcome.closed sweep: teardown_tcp, then remove_flow.
Removed(r) == [teardown_tcp(r) EXCEPT !.sock = "none", !.rx = 0, !.inq = "none"]

\* service() starts: poll, then the flows found Closed are removed.
ServiceStart ==
    /\ ~servicing
    /\ servicing' = TRUE
    /\ LET d == [f \in Flows |-> Delivered(flow[f])]
           gone == {f \in Live : d[f].sock = "Closed"}
       IN  /\ flow' = [f \in Flows |-> IF f \in gone THEN Removed(d[f]) ELSE d[f]]
           /\ todo' = Live \ gone
    /\ answer' = "none"
    /\ UNCHANGED <<mode, ca, proxy, inspect, blocked, cmds>>

\* The pass visits the active flows in the HashMap's order, which is any.
Relay(f) ==
    /\ servicing /\ f \in todo
    /\ todo' = todo \ {f}
    /\ \E r \in relay(f, flow[f]) : flow' = [flow EXCEPT ![f] = r]
    /\ answer' = "none"
    /\ UNCHANGED <<mode, ca, proxy, inspect, blocked, servicing, cmds>>

\* Mutant: the reaper is missing.
NoReaper(r) == r

reap_proxy_handshakes(r) ==
    IF r.up /\ r.handshake /\ r.age > HsTimeout THEN fail_proxy(r) ELSE r

reap_pending_sni(r) ==
    IF r.up /\ r.pending /\ r.age > SniTimeout THEN tcp_abort(r) ELSE r

ServiceEnd ==
    /\ servicing /\ todo = {}
    /\ servicing' = FALSE
    /\ flow' = [f \in Flows |-> reap_pending_sni(reap_proxy_handshakes(flow[f]))]
    /\ answer' = "none"
    /\ UNCHANGED <<mode, ca, proxy, inspect, blocked, todo, cmds>>

-----------------------------------------------------------------------------
(* on_tun_packet, TCP *)

\* The firewall, a broken proxy, and DoT that is to be blocked or cannot be
\* intercepted; asked of every packet of the flow.
Refused(f) ==
    \/ f \in blocked
    \/ proxy = "broken"
    \/ /\ flow[f].kind = "dot" /\ mode # "Off"
       /\ ~(mode = "Filter" /\ can_intercept_enc_dns(f))

\* open_tcp: the flow is deferred, spliced or raw, and dials the proxy or the
\* server; or it is aborted, because a splice it needs or the dial failed.
open_tcp(f, r) ==
    LET defer == mode = "Filter" /\ r.kind = "https"
        fwd == http_forward_80 /\ r.kind = "http" /\ proxy = "http"
    IN  {tcp_abort(r)} \cup
        {[r EXCEPT !.up = TRUE, !.connecting = TRUE, !.mitm = m, !.pending = defer,
                   !.fwd = fwd, !.handshake = proxy \in {"http", "socks"} /\ ~fwd] :
           m \in {x \in IF defer THEN {"none"} ELSE new_mitm_if_intercepting(f) :
                    ~requires_enc_dns_intercept(f) \/ x # "none"}}

AtCap == Cardinality(Live) >= MaxFlows

\* A SYN: refused with a RST, dropped at the cap, or the flow is created and
\* opened in the same call.
OnSyn(f) ==
    /\ ~servicing
    /\ ~flow[f].opened
    /\ \/ /\ Refused(f)
          /\ answer' = "rst"
          /\ UNCHANGED flow
       \/ /\ ~Refused(f) /\ ~AtCap
          /\ \E r \in open_tcp(f, [flow[f] EXCEPT !.sock = "Listen", !.inq = "syn",
                                      !.opened = TRUE, !.filtered = mode = "Filter"]) :
               flow' = [flow EXCEPT ![f] = r]
          /\ answer' = "none"
    /\ UNCHANGED <<mode, ca, proxy, inspect, blocked, servicing, todo, cmds>>

\* What the app may send in each state of its connection.
MaySend(r, seg) ==
    \/ seg = "ack" /\ r.sock \in {"SynReceived", "LastAck"}
    \/ seg \in {"data", "datafin"} /\ r.sent < MaxUnits
       /\ r.sock \in {"SynReceived", "Established", "FinWait"}
    \/ seg = "fin" /\ r.sock \in {"SynReceived", "Established", "FinWait"}
    \/ seg = "rst" /\ r.sock \notin {"none", "Listen", "Closed"}

\* Any later packet: refused without an answer (reset_for_syn answers SYNs
\* only), or queued for the next poll.
OnPacket(f, seg) ==
    /\ ~servicing
    /\ flow[f].inq = "none"
    /\ MaySend(flow[f], seg)
    /\ \/ /\ Refused(f)
          /\ answer' = "silent"
          /\ UNCHANGED flow
       \/ /\ ~Refused(f)
          /\ flow' = [flow EXCEPT
               ![f].inq = seg,
               ![f].sent = IF seg \in {"data", "datafin"} THEN flow[f].sent + 1 ELSE flow[f].sent]
          /\ answer' = "none"
    /\ UNCHANGED <<mode, ca, proxy, inspect, blocked, servicing, todo, cmds>>

-----------------------------------------------------------------------------
(* on_ready for a TCP route *)

\* Connected at last: drive the handshake, or flush and read.  The read may
\* end the app's side (EOF or read-closed) or fail.
ready(r) ==
    IF r.handshake THEN drive_proxy_handshake(r)
    ELSE UNION {IF y.mitm # "none"
                THEN {y} \cup drive_mitm(y) \cup {tcp_close_app(z) : z \in drive_mitm(y)}
                ELSE {y, tcp_close_app(y), tcp_abort(y)} : y \in flush_to_upstream(r)}

\* The first writable event of a dial tells whether it succeeded.
OnReady(f) ==
    /\ ~servicing
    /\ flow[f].up
    /\ \E r \in IF flow[f].connecting
                THEN {tcp_abort([flow[f] EXCEPT !.connecting = FALSE])}
                     \cup ready([flow[f] EXCEPT !.connecting = FALSE])
                ELSE ready(flow[f]) :
         flow' = [flow EXCEPT ![f] = r]
    /\ answer' = "none"
    /\ UNCHANGED <<mode, ca, proxy, inspect, blocked, servicing, todo, cmds>>

-----------------------------------------------------------------------------
(* Commands and time *)

Command ==
    /\ ~servicing
    /\ cmds < MaxCommands
    /\ cmds' = cmds + 1
    /\ answer' = "none"
    /\ UNCHANGED <<flow, ca, proxy, servicing, todo>>

set_encrypted_dns_mode(m) == Command /\ mode' = m /\ UNCHANGED <<inspect, blocked>>

set_firewall(i, b) == Command /\ inspect' = i /\ blocked' = b /\ UNCHANGED mode

Tick ==
    /\ flow' = [f \in Flows |-> IF flow[f].up /\ flow[f].age < MaxAge
                                THEN [flow[f] EXCEPT !.age = flow[f].age + 1] ELSE flow[f]]
    /\ UNCHANGED <<mode, ca, proxy, inspect, blocked, servicing, todo, answer, cmds>>

Next ==
    \/ \E f \in Flows : OnSyn(f) \/ OnReady(f) \/ Relay(f)
    \/ \E f \in Flows, seg \in Segments : OnPacket(f, seg)
    \/ \E m \in {"Off", "Block", "Filter"} : set_encrypted_dns_mode(m)
    \/ \E i, b \in SUBSET Flows : set_firewall(i, b)
    \/ ServiceStart \/ ServiceEnd
    \/ Tick

\* The loop services after every round of events, and time passes.
Fairness ==
    /\ WF_vars(ServiceStart) /\ WF_vars(ServiceEnd) /\ WF_vars(Tick)
    /\ \A f \in Flows : WF_vars(Relay(f))

Spec == Init /\ [][Next]_vars /\ Fairness

\* Apps that close their side once the tunnel closed its own.  Strong: the loop
\* reads the TUN between passes only, so a packet is possible again and again.
FairApps == \A f \in Flows : SF_vars(flow[f].sock = "FinWait" /\ OnPacket(f, "fin"))
                             /\ SF_vars(flow[f].sock = "LastAck" /\ OnPacket(f, "ack"))

SpecFairApps == Spec /\ FairApps

-----------------------------------------------------------------------------
\* Every variable keeps its shape.
TypeOK ==
    /\ flow \in [Flows -> FlowRec]
    /\ mode \in {"Off", "Block", "Filter"}
    /\ ca \in BOOLEAN
    /\ proxy \in {"none", "http", "socks", "broken"}
    /\ inspect \subseteq Flows /\ blocked \subseteq Flows
    /\ servicing \in BOOLEAN /\ todo \subseteq Flows
    /\ answer \in {"none", "rst", "silent"}
    /\ cmds \in 0..MaxCommands

\* No flow is left behind: whoever tears an upstream down has closed the app's
\* socket too, so the next poll removes the flow; and no upstream outlives it.
NoOrphans ==
    \A f \in Flows : LET r == flow[f] IN
        /\ r.up => r.sock # "none"
        /\ r.sock # "none" /\ ~r.up => r.sock = "Closed"

\* Encrypted DNS fails closed: of a DoT flow, or a 443 flow whose ClientHello
\* names a DoH host, admitted under Filter, no byte of the app goes upstream
\* unfiltered, whatever happens to mode, rules and pins meanwhile.
NoUnfilteredDns ==
    \A f \in Flows : LET r == flow[f] IN
        r.filtered /\ (r.kind = "dot" \/ r.hello = "doh") => "raw" \notin r.wire \cup r.queue

\* While a flow's classification is open nothing of it is on its way upstream.
PendingHoldsBack ==
    \A f \in Flows : flow[f].pending =>
        flow[f].wire = {} /\ flow[f].queue = {} /\ flow[f].mitm = "none"

\* With a proxy configured no byte of an app leaves before the proxy granted
\* the tunnel, except in absolute-URI form.
TunnelFirst ==
    \A f \in Flows : LET r == flow[f] IN
        proxy \in {"http", "socks"} /\ ~r.tunnelled => r.wire \subseteq {"abs"}

\* The half-close is passed on only after all the app sent was, and never on a
\* socket still connecting: shutdown() there would reset it.
HalfCloseDrained ==
    \A f \in Flows : LET r == flow[f] IN
        r.write_closed => ~r.connecting /\ ~r.handshake
                          /\ (r.mitm = "none" => r.queue = {} /\ r.rx = 0)

\* A pair that rejected our leaf is not spliced again, whichever flow it was.
PinnedNotSpliced ==
    [][\A f \in Flows : flow[f].mitm = "none" /\ flow'[f].mitm # "none" => ~Pinned(f)]_vars

\* A deferred flow is decided or dropped: it cannot hold its slot for ever.
PendingDecided == \A f \in Flows : flow[f].pending ~> ~flow[f].pending

\* A proxy handshake completes or fails closed, also against a silent proxy.
HandshakeDecided == \A f \in Flows : flow[f].handshake ~> ~flow[f].handshake

\* forward.rs: "on completion/failure tear the flow down": a finished splice
\* leads to the end of its flow, with apps that close their side in turn.
SpliceTornDown == \A f \in Flows : flow[f].over ~> ~flow[f].up

\* forward.rs: "RST the app so it fails fast instead of timing out": a packet
\* the firewall refuses is answered.
RefusalAnswered == answer # "silent"

\* forward.rs: "For a MITM'd flow the splice's close_notify already sits in
\* to_upstream": once the write side is shut, a running splice owes the
\* upstream nothing.
SpliceHalfCloseDrained ==
    \A f \in Flows : LET r == flow[f] IN
        r.write_closed /\ r.mitm # "none" /\ ~r.over => r.queue = {}
=============================================================================
