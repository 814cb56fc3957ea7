# Adwarden in TLA+

Adwarden is an Android ad blocker and firewall. A VPN service (Kotlin) builds a
TUN device and hands its descriptor to a native core (Rust), which terminates
the apps' TCP connections in a userspace stack, decides which app and which name
may talk, and relays what may over sockets, proxies and DNS transports of its
own. These modules model that core and the service that drives it. TLC checks
them on small instances, TLAPS proves theorems about them for every value of
their constants.

* `X.tla` models a component. `MCX.tla` gives it values for TLC, `MCX*.cfg` are
  the runs. `XProofs.tla` holds the theorems about it; those about `VerdictCache`
  are in `NetStackProofs`.
* `PROJECT.json` maps every definition to the lines it stands for, lists the
  runs, and for each checked property one mutant: a plausible bug in a
  definition (`..._early`, `...Keeping`, "Mutant:" in its comment) under which
  TLC finds the property violated.
* Paths: `RT` is `src/rust/core/src/runtime.rs`, `RW` is
  `src/rust/tls/src/rewriter.rs`, `FW` is `src/rust/core/src/forward.rs`, `ST` is
  `src/rust/netstack/src/stack.rs`, `VS` is
  `src/app/src/main/java/io/github/sylirre/adwarden/vpn/AdwardenVpnService.kt`.

## 1. Inventory

```
 apps --TUN--> NetStack (ST) --events--> Forwarder (FW) --sockets--> proxies,
                  ^   |                    |    |   |                servers,
                  |   v                    |    |   +-- TLS splice   resolvers
               device queues        verdict cache  +-- DNS jobs, UDP sessions
 VpnService (VS) --handle, commands--> Session / run_loop (runtime.rs)
      |  <-------- telemetry events (event.rs, NativeEventCodec.kt) --------+
 settings, rules, filter lists, network monitor (repositories)
```

| component | state | operations | hard part | what makes it correct | module |
|---|---|---|---|---|---|
| Firewall verdict cache: `Forwarder::verdict`, `flow_table.rs` | LRU map 5-tuple -> (uid, verdict), rules, transport | decide a packet, set rules, transport, log mode | cached decisions against changing inputs; eviction at the cap; a failing uid lookup | every decision is what the current policy says for the uid that was looked up; the table is an LRU cache | `VerdictCache`, `LruCache` |
| Userspace TCP stack: ST, `device.rs` | flow map, 4-tuple index, socket set, next id, device queue | SYN admission, poll, abort, close, removal | sockets close in many ways, between polls; slots and ids | map, index and socket set agree; ids never name another connection; a flow's socket carries its connection | `NetStack` |
| TCP control plane: FW `on_tun_packet`, `open_tcp`, `classify_pending`, `drive_mitm`, `drive_proxy_handshake`, reapers | per flow: upstream, handshake, splice, classification, queue, half-close; global: mode, rules, pins | packet, readiness event, service pass, command, timeouts | every handler can tear down; mode, rules and pins change in mid-flow | encrypted DNS fails closed; nothing precedes tunnel or classification; half-close last; nothing orphaned or stuck | `TcpFlows` |
| TCP data plane: `flush_*`, `pump_*` | `to_upstream`, `to_app`, socket buffers, FIN flags | flush, pump, half-close, close | edge-triggered readiness under backpressure | no loss, repetition or reordering; FIN last; what the app sends arrives, unless the server resets or closes | `TcpRelay` |
| UDP and DNS paths: `forward_udp*`, `forward_dns_*` | NAT sessions, SOCKS5 associations, DNS jobs, tokens, resolver configuration | datagram, readiness, reaper, live change | one timestamp, several reapers; a refused association; a live change under open sessions | sockets and routes match; a datagram goes where and how the configuration it was taken under says; it leaves once and its answers go to who asked; jobs and sessions end | `UdpPaths` |
| VPN service and session handle: VS, `NativeSessionHolder.kt`, `ffi.rs` | `nativeHandle`, `running`, scope, lock, descriptors | start, stop, revoke, destroy, rebuild, observers | main thread and pool share the handle without a lock | one session; its descriptor has an owner; the tunnel follows the network; a rebuilt session gets its rules | `VpnSession` |
| Proxy handshake codecs: `proxy.rs` | bytes buffered, phase, bound address | step with any segment, drive, write | segmentation, bytes behind the reply, a close behind it, a socket that takes the message later or in part, a connection that breaks | replies are recognised however they are cut; the proxy is told each message once; the origin's first bytes are kept | `ProxyHandshake`, `ProxyStream` |
| HTTP forward-proxy rewriter: `http_forward.rs` | head buffer, what remains of the body | push | pipelining, bodies that look like heads, anomalies | each request once, rewritten; fails closed; segmentation does not matter | `HttpForward`, `ProxyStream` |
| Datapath thread: RT, `event.rs`, `bridge.rs` | command queue, stop flag, batch, coarse windows, key log, capture | send, poll, turn, flush, stop and join | a stop against commands and a capture; early ends and a panic; what is held past the loop | commands in order; events told once; a descriptor has one owner; secrets before what they decrypt; a stop ends | `Runtime` |
| TLS splice: `mitm.rs`, `rewriter.rs`, `har.rs` | two sessions, the tap, the rewriter, what crosses | pump, cross, fail, finish | two parsers of one stream in any segmentation; whose failure it was | what crosses is exact but for the blob; transactions are paired; only the app's refusal pins | `TlsMitm`, `HttpTap`, `HttpRewriter` |
| DNS streams: `dns.rs`, `h2.rs` | DoT buffer; protocol, HTTP/2 streams, pending queue | app data, upstream data | partial frames, interleaved streams, answers made here between others | each question is answered whole and with its own answer | `DnsStream`, `H2Server` |
| Telemetry to the app: `CaptureRepository`, `StatsRepository` | deltas, windows, aggregates | emit, flush | dropped deltas, failing inserts | totals are conserved | planned |
| Filter lists: `FilterRepository`, `FilterSyncWorker` | list files, ETags, compiled cache | sync, compile, load | concurrent workers, crashes | a cache matches the lists; a partial list is fetched again | planned |
| Captures and exports: `PcapSessionManager`, `HarExportManager` | latch, descriptor | start, stop | a descriptor queued for an ended loop | no latch without a capture | native end: `Runtime` |
| Tunnel routes: `TunRoutes.kt` | none | complement of ranges as CIDRs | boundaries | exact complement | planned |
| Parsers, UI, storage, build | - | - | byte formats, screens, single values | - | not modelled |

Interaction. One native thread runs `run_loop`: it applies commands, reads the
TUN into `on_tun_packet`, hands readiness events to `on_ready`, calls `service`.
Everything in `Forwarder` and `NetStack` happens on it, so the actions of these
modules are its calls and they interleave as the loop, the apps, the servers and
the clock order them. The codecs (`ProxyHandshake`, `HttpForward`, `HttpTap`,
`HttpRewriter`, `H2Server`, `DnsStream`) have no thread and no clock: they are
functions from a state and a segment of bytes, and `ProxyStream` and `TlsMitm`
are the parts of the forwarder that feed them. `TcpFlows` and `UdpPaths` take what
a codec decides (pending, granted, refused; crossed, failed, closed) as a choice. The service's threads reach it only through the handle and
the command queue, which `VpnSession` models.

The hazards of this code, each at the line where it bites, are in
`PROJECT.json`, with the properties that cover them.

## 2. Modules

### VerdictCache and LruCache

`map`, `tick` are `FlowTable`'s; `firewall`, `transport`, `log_open` the
forwarder's; `owner` is the truth Android would tell, `last` the verdict of the
packet in hand. `VerdictHit` and `VerdictMiss` are the two ways through
`Forwarder::verdict`; a miss asks for the uid and may get -1, stores the entry
and evicts the least recently used at the cap. `VerdictBypass` is its early
return when nothing is to be decided or logged. `SetFirewall`, `SetTransport`
and `SetLogOpen` are the commands, `Rebind` a 5-tuple passing to another app.
`LruCache` is the abstract cache: keys in the order of their last use, no stamps
and no clock. `VerdictCache` implements it (`ImplementsLru`) under the mapping
of stamps to the order they induce.

### NetStack

`flows`, `by_tuple`, `next_id`, `sockets`, `inbound` are the fields of
`NetStack`; smoltcp's `SocketSet` and its TCP states are external and modelled
as the stack uses them (first free slot, first socket that accepts, listening
sockets that take any app port). `OnTcpPacket` is the admission of a packet,
`PollStart`/`Ingress`/`PollEnd` the poll, one queued packet at a time, with the
removal of ended flows as its end. `Abort` and `CloseApp` are the forwarder's.

### TcpFlows

One record per flow holds its smoltcp socket and its `TcpUpstream`. A handler is
an operator from a record to the set of records it may leave (`open_tcp`,
`classify_pending`, `drive_mitm`, `drive_proxy_handshake`, `half_close`,
`teardown_tcp`, ...), named as in FW; the actions are what calls them: `OnSyn`
and `OnPacket` (`on_tun_packet`), `OnReady` (`on_ready`), `ServiceStart`,
`Relay`, `ServiceEnd` (`service`: poll, one step per active flow, reapers),
`Command`, and `Tick`. Every flow has a server of its own; the sharing of
listening sockets is `NetStack`'s subject. smoltcp's CLOSING is part of
TimeWait. Bytes are kinds (raw, TLS, absolute-URI); the app-bound direction is
left to `TcpRelay`.

### TcpRelay

One classified flow, raw or spliced: numbered segments move from the app's
kernel through the smoltcp buffer, `to_upstream` and the upstream socket to the
server, and back through the kernel, `to_app` and the smoltcp buffer. mio is
edge-triggered: `ready` becomes true when the socket changes, and `OnReady`
consumes it. `Service` is the pass with its flushes and the half-close. A flow ends in
a reset of either side or in order; at an orderly end `relay` drops `to_upstream` as the
code does (FW 1097-1100), so that `AppDataArrives` promises nothing once the server has
closed its side (`rdhup`): what is lost then is `AppDataSent`, in section 5.

### UdpPaths

`udp`, `socks`, `jobs`, `routes` are FW's tables by key and token. `OnDatagram`
chooses the path exactly as `on_tun_packet` does; `forward_udp`,
`forward_udp_socks`, `forward_dns_over_proxy`, `forward_dns_tls` open what it
needs. `OnUdp`, `OnRelay`, `OnCtrl`, `OnJob` are the readiness handlers,
`Service` the reapers, `set_dns_upstream` and `set_proxy_dns_over_tcp` the live
changes. A proxy or resolver may answer, refuse, close or stay silent, and a server may
answer what a session carries more than once: `pump_udp_reply` and `pump_socks_relay`
pass every datagram on (`MaxCopies` bounds how many come).

Two paths are meant to be other than the proxy and the transport alone would have it.
With the DNS switch off (`through`) a query goes direct even when a proxy is set (FW
1013-1016); with it on the query goes through the proxy in clear text even when DoT or
DoH is set (FW 1024-1029, 1975-1983). `Ways` says both openly. What `AsConfigured` is
about is the time between: `asked` keeps what was configured when a datagram was taken,
and what an association buffered, a job holds or a session passes on is compared with
it when it leaves, after whatever was set or refused meanwhile. A datagram that finds a session open goes
to that session's target, as the comment on `set_dns_upstream` says.

### VpnSession

The main thread (`main`) and the workers (`work`) move in steps that end where
the code blocks, suspends or touches a field another thread writes: a rebuild is
`old`, `stop`, `clear`, `establish`, `config`, `start`, `publish`, then the
suspending `first` and `push` of `reapplyNativeState`; `stopEverything` is `s1`
(up to the read of the handle), `s2` (`nativeStop`), `s3` (the handle zeroed).
`v6Mutex` is held from `old` on. The scope is a number, so that a coroutine
knows whether its scope was cancelled; cancellation takes effect where the code
suspends and nowhere else. `session`, `given` and `tunnels` are what the core
has behind the handles. The network callback owes the main thread one call after
each change. `met` is no field of the code: it says that a start has met a rebuild
of an earlier scope, which goes on until it next suspends and may take the new
session's handle away; from there on the one-session claim does not hold
(`MCVpnSessionTwo.cfg` in section 5), so `SessionsExclusive` makes it until then.
Left out: notification, tile, `setUnderlyingNetworks`, the log and engine pushes (they
take the same way as the rules), the desired-protection writes.

### Runtime

`pc` is where the datapath thread is in RT: `Starts` is `run_loop` up to its loop,
`polls` the loop's head with the drain of the queue, `applies` the commands one by
one, `drain_tun` a packet, `service`, `write_outbox`, `flushes` the rest of the turn,
`exits` what is behind the loop. `send`, `stop_begins` and `stop_joins` are the
holder of the session. `batch`, `coarse`, `told` are the way of an event to Kotlin;
`pcap`, `file`, `closed` that of a descriptor, which is named by the number of the
command that brought it, `keylog` that of the secrets of the one inspected flow. Any of the calls may fail (`Faults`): the start, the poll, a
panic anywhere in the turn, the upcall, the write to the TUN, the file. The waker is
left out, since the poll returns after a second at most.

### ProxyHandshake, HttpForward and ProxyStream

`step` and `push` are the two codecs. `ProxyStream` is `drive_proxy_handshake` in
two steps (`drive_begins`: flush and read, `drive_steps`: one turn of its loop), then the tunnel or, after a refusal of CONNECT to
port 80, the next flow in absolute form (`open_forward`, `service_forward`). The
bytes of SOCKS5 are bytes, with addresses in their length; those of HTTP are tokens.
What a proxy sends and what an app asks are chosen as the messages they mean, and
the properties are read off those, not off the bytes. What is sent to a proxy is two
halves of each message (`Halved`): `flush_handshake_out` hands the socket any number of
them and keeps the rest in `hs_out`. A connection may break at any point of the
handshake (`Breaks`); from then on a write fails, and a read fails too, but for the end
of a stream that was closed before. Each of these failures fails the flow (`fail_proxy`
at FW 1580, 1599 and 1617), also with the grant in hand, and `GrantOpens` excepts
them: a proxy that sends its whole answer and closes, and whose kernel resets what we
write then, takes its grant away. The TLS session to an HTTPS proxy, whose failure
ends in `fail_proxy` likewise (FW 1559), is left out.

### HttpTap, HttpRewriter, H2Server, DnsStream and TlsMitm

`HttpTap` is the parser of `har.rs` (heads, framing, `ChunkReader`) and the capture;
`HttpRewriter` is RW: requests ask for identity encoding, the blob goes into HTML
documents. `H2Server` and `DnsStream` are `h2.rs` and `dns.rs`. Every function of
theirs is one of the code's, from a state and a segment to the next state and what
is forwarded. `TlsMitm` is `pump_impl` with what the forwarder does around it
(`drive_mitm`, `provision_cosmetics`, `drain_mitm_transactions`); rustls is modelled
as records from the app and the server. `service`, `Breaks`, `Accepts` and
`on_readable` are the sets of what may come: any number of the app's records, a
broken session, the server's handshake, any number of bytes of its answers and its
close; an app that does not take the leaf sends its hello and an alert (`AppRecords`).
A byte is a token: the first line of a head, a header, `END`, a chunk's size,
`CRLF`, a tag of HTML.

The parsers loop over whole buffers. `Asking` is the same conversation read one byte at
a time, with no buffer and no loop, from the app's plaintext to what the server is to
get, and `Asked` what the first n bytes come to; `AsksFor` says that a script's `asked`,
which is written out by hand, is that, and `GivenUp` that the code has stopped looking
at the stream. Only the properties and the proofs use them.

## 3. What TLC checks

| run | asks | bounds and why they are enough |
|---|---|---|
| `verdict_cache` | `VerdictsFresh`, `DecisionSound`, `ImplementsLru` | three 5-tuples over a table of two (one must be evicted), two apps, two opposite rules, a clock of six; keys and uids are symmetric |
| `net_stack` | `TablesAgree`, `IdsNeverReused` | three connections, two to one server, over a cap of two: sharing, refusal at the cap and a freed slot all occur; three ids let one slot be reused |
| `tcp_flows` | `NoOrphans`, `NoUnfilteredDns`, `PendingHoldsBack`, `TunnelFirst`, `HalfCloseDrained`, `PendingDecided` | one flow to port 80, 443 or 853 (any other port takes the raw path that DoT takes under mode Off), two segments, one live change at any point, every mode, proxy and CA; flows share only pins and the cap |
| `tcp_flows_pair` | `PinnedNotSpliced`, `HandshakeDecided` | two DoT flows of one (uid, server) pair over a cap of one: what they share, pins and the cap |
| `tcp_relay` | `UpstreamExact`, `DownstreamContiguous`, `AppDataArrives`, `HalfCloseArrives` | three segments each way over buffers of one: each buffer is full, and empty, while more waits on both sides |
| `udp_paths` | `TablesExact`, `RelayedInOrder`, `AnswersExact` | three datagrams of a DNS pair and another, the second blocked; a buffer of two and a job table of one: each overflows; two answers to each, so that a second one meets a session that lives on and a job that is gone |
| `udp_paths_config` | `AsConfigured`, `AllEnd` | two datagrams around one live change, every proxy and transport; two resolvers, which are alike, so that `MCSpec` starts with the first; the invariant is proved for any number of changes |
| `vpn_session` | `SessionsExclusive`, `FdOwned`, `V6Follows`, `RulesReach` | three events of any kind in any order; a rebuild may fail at either call, both rebuilds overlap, and a stop, a restart and an old worker meet; the two invariants are proved for any number of events |
| `runtime` | `EventsExact`, `StateOwned`, `CommandsInOrder`, `SecretsFirst`, `StopJoins` | two commands of any kind before, during and behind a stop (so a capture replaces a capture, and a descriptor waits in a queue nobody drains); two packets, so that a record can follow the reply; a capture of four blocks, which two packets and the secrets fill; a batch of two; every fault; the four invariants are proved for any number of commands, packets and blocks |
| `proxy_stream` | `TunnelExact`, `ConversationExact`, `ForwardExact`, `GrantOpens` | fifteen proxies (grants with and without a body behind them, refusals, every address type, a password asked and not, nonsense, a head without an end) and five request streams, cut anywhere; heads of eight tokens, so that one is too large; each message in two halves, and a break anywhere; the invariants are proved for any answer and any requests |
| `tls_splice` | `PinMeansRefusal`, `AskedExact`, `ShownExact`, `HarExact`, `AnswersMatch` | twelve conversations cut anywhere, with what is to come of each written out by hand (and compared with `Asked`, by `AskedAssumption`, but for an upload in chunks and HTTP/2); heads, bodies kept and the search for a tag are capped so that a document of five tokens is past the cap and one of four is not |
| `tls_held` | `NeverDrops`, which the code does not keep (section 5) | the one page that shows it |

Types are part of what is checked in every module with variables: `TypeOK` is proved for
`NetStack` and `TcpFlows`, `CacheTypeOK` for `VerdictCache`, and `TypeOK` is a conjunct of `UpstreamExact`,
`TablesExact`, `SessionsExclusive` and `StateOwned`, proved too, elsewhere; in `ProxyStream`
the types are in the proofs' `IInv` (`Sequences`, `Driver`), and in `TlsMitm` the exact
properties pin the values and no type is stated.
`VpnSession`, `Runtime`, `ProxyStream` and `TlsMitm` may stop: a service without
events, a stopped session, a flow that has ended rest, so their runs say
`CHECK_DEADLOCK FALSE`.

Counters the code leaves open are bounded by constants named in each module
(`MaxTick`, `MaxId`, `MaxUnits`, `MaxPackets`, `MaxCommands`, `MaxUp`, `MaxDown`,
`MaxData`, `MaxCopies`, `MaxChanges`, `MaxEvents`); the code's own caps (`HANDSHAKE_BUF_CAP`,
`MAX_HEAD`, `MAX_HEADER_BYTES`, `MAX_BODY_CAPTURE`, `MAX_ANCHOR_SCAN`,
`MAX_STREAM_BYTES`, `MAX_FRAME`, `MAX_PENDING`, `MAX_BATCH`) count tokens, and are
small so that they are reached; timeouts are ticks, kept in the order the code's
values have. No bound reaches a guard the code does not have except to stop new
input.

### Fairness

* The datapath loop calls `service` on each pass and wakes at least every poll
  timeout: weak fairness of the service and poll steps, and of the clock.
* `TcpRelay`: what has been sent arrives (weak fairness of the kernel's
  deliveries); the app and the server need not send, close or read more than the
  property says.
* Nobody else owes anything: no proxy, server, resolver or app is assumed to
  answer. `PendingDecided`, `HandshakeDecided` and `AllEnd` rest on the reapers
  alone.
* `Runtime`: the thread runs (its poll returns after a second at most) and the join
  returns once the thread has ended. `StopJoins` needs no more: not that the queue
  ends, nor that a call succeeds.
* `ProxyStream`: the flow is driven on each service pass (weak fairness), and a socket
  that is not broken takes what is queued in the end (strong fairness of the flush that
  empties it, since others come between). The proxy owes nothing: `GrantOpens` starts
  when its whole answer has been sent, and ends in a tunnel or in a break.
* `SpecFairApps` (for `SpliceTornDown` only) adds apps that close their side
  once the tunnel has closed its own. It is strong, since the loop reads the TUN
  between passes only.
* `VpnSession`: some thread that has work is run. That is less than fairness of
  each thread, and enough, because every thread's work ends. `V6Follows` and
  `RulesReach` are therefore of the form "always again": events are finite, so
  they say what holds once the service rests.

## 4. What is proved

| module | theorem | argument |
|---|---|---|
| `NetStackProofs`, of `VerdictCache` | `CacheTypeCorrect`, `CacheCorrect`, `LruRefinement`, `DecisionsSound` | `CacheSafety`: types, freshness of the stored verdicts, the cap, and stamps that are distinct and never ahead of the clock. The last is what makes the eviction deterministic whatever order the HashMap iterates in, and what the step simulation of `LruCache` rests on |
| `NetStackProofs` | `TypeCorrect`, `TablesConsistent`, `IdsNotReused` | `IInv`: types, `Tables` and the cap. A step either leaves the tables alone, creates one flow in a free slot, moves one socket or removes ended flows; each keeps `Tables`. `IdsFresh` is the strengthening: without it a new flow could overwrite an old one |
| `TcpFlowsProofs` | `TypeCorrect`, `FailsClosed`, `TunnelComesFirst`, `NoneOrphaned`, `PendingHolds`, `HalfCloseLast`, `PinsHold` | `IInv`: every flow's record satisfies `RecInv`. One lemma per handler operator shows that it keeps `RecInv`, and `StepInv` lifts them to the actions. `RecInv` adds to the properties what the handlers rely on: a flow without an upstream has nothing of one left (`Down`), a filtered DNS flow is spliced or undecided (`Held`), one before its tunnel is in the handshake with nothing queued (`Gated`). `PinsHold` needs it for the types only: no operator but `open_tcp` and `classify_pending` splices a flow (`UnsplicedStays` and one lemma per handler), and those two ask `Pinned` in the state the step starts from |
| `TcpRelayProofs` | `UpstreamIsExact`, `DownstreamIsContiguous` | `IInv`: types, and `Fits`, which puts the queues end to end: what the server read, its kernel buffer, `to_upstream`, the receive buffer and what the app holds make up the app's stream, and the write side is shut only behind all of it. Each of the code's flushes takes the front of one queue to the end of the next (`Split`); the handlers are composed of them, one lemma each, and `HandlerStep` lifts them to the service pass and to a readiness event. For the way to the app `DownInv` adds `Feeds`: a queue of numbered segments is a run (`Runs`), and what the app has, the socket's buffer, `to_app` and the kernel's buffer are consecutive runs that end at the server's last segment (`Ahead`) while our side is open; a segment dropped before the app's handshake was over only moves the start of the run (`Dropped`), and once our side is closed only what the socket holds counts (`Shut`) |
| `VpnSessionProofs` | `SessionsAreExclusive`, `DescriptorsOwned` | `IInv`: types, `FdOwned`, that a tunnel being built into a session is nobody else's (`Apart`), that one rebuild at most is past the lock (`Alone`), and `Exclusive`: for each point of a rebuild of the scope that lasts, which session of the scope is live and what the handle holds (`Phase`). Without `Phase` nothing says that the handle a rebuild reads is the live session's. Each step of a rebuild is first reduced to what it does to its record (`Begins` to `Stops`) |
| `UdpPathsProofs` | `TablesStayExact`, `GoesAsConfigured`, `RelayKeepsOrder`, `AnswersAreExact` | Every action is first reduced to one of ten kinds of step (`Steps`): nothing moves, a datagram takes its path, an association is granted, a job's query goes out, entries go with their routes. Each theorem adds a layer that the ten kinds keep: `Tables` (types, `Routed`, caps; a token's route names its owner, so that no two owners share one); `Clean` (what waits for an association or is held by a job may leave by it, whatever is configured by then); `Orderly` (a token that has still to speak is silent on the wire, what waits is rising); `Targeted` (all a token has sent went to its session's target, and while it is silent that is the target of the datagram at the front of its buffer, or of its job's query); `Answering` (what a session sent is its own pair's; what is buffered or held by a job has not left, and a job's query is nobody else's and not answered) |
| `RuntimeProofs` | `CommandsSettle`, `StateIsOwned`, `ToldOnce`, `SecretsComeFirst` | Every action is first reduced to one of six kinds of step (`Steps`): nothing moves but events, the queue is drained, a command is applied, the thread ends, a command is sent, the caller joins. `Backlog` numbers the commands: what the thread drained and what is queued are the last of those sent, in order, so that `Applied` counts the rest. Over the commands applied, `Owned` says that each descriptor is closed once or is the capture's, and `Settled` that rules, log and capture are those of the last one of their sort. `Telling` puts the events end to end: every packet read is in one window, one batch or one upcall (`Accounted`), and these are rising runs, one behind the other (`Ordered`). `Keys` is about files: while a flow's secrets are undelivered nothing of its decrypted reply was captured (`Undecrypted`), and a capture that still takes blocks has the secrets behind a hello it has (`Keyed`); `SecretsFirst` alone does not say where the secrets are between two turns |
| `ProxyStreamProofs` | `TunnelIsExact`, `ConversationIsExact`, `ForwardIsExact` | `IInv`: types of the queues, how the driver's turn stands, and `Shaking`: while the handshake lasts, what the codec has buffered, what was read for it and what is still to come are the proxy's answer from some byte on (`At`), and what the proxy was told by then, or is queued to be, is what that place in the answer calls for (`Reached`), half for half (`Flushes`, `HalvedGrows`). `Turn` says what one step of the codec may make of such a place (`After`), phase by phase (`HttpTurn`, `StartTurn`, `GreetedTurn`, `AuthedTurn`, `RequestedTurn`): a decision is taken on the bytes it needs, all of which have come, so that it is the one the whole answer calls for. For the next flow `FInv` gives the rewriter a `Place` in the app's stream: it is behind the head of request k, w of that request's body is still to pass, and its head buffer and what is still to come are w and what follows the first k requests; what went out and w are the first k requests in absolute form. `HeadFound` says that in the start of a stream of requests `find_head_end` finds the end of the first head, once it is there, and nothing before; `Rewritten` what `rewrite_head` makes of a head; `BodyTurn`, `HeldTurn` and `WholeTurn` that a turn of `push` leads from place to place, and `OnceReaches` that each takes a token at least, so that `push` ends with nothing of its input left |
| `TlsMitmProofs` | `SpliceCorrect`, `PinsMeanRefusal`, `AsksAreExact` | `SpliceInv`: some number m of the app's records has been taken; the sessions are as those m make them (`Sessions`), and what handles the plaintext holds what their bytes come to read one by one (`Looks`: what is held of a head or a message, what is to come of a body, what went out), or has given the stream up for good (`LooksNot`). The code reads a segment at a time and loops over its buffer. `AskedSound` and `OutGrows` are about the byte-by-byte reading, `Held` and `MessageRead` about a stretch of it that decides nothing until its last byte; one lemma per loop says that a turn leads from one place of that reading to a later one (*One turn of a loop*), and those under *The loops* that the last turn has read all there is. `Rounds` unfolds the recursive functions. What the server answers meanwhile cannot move the place (`ResponseCross`, `DotCross`, `DohCross`): the bodies' lemmas (`Hears`) say that the half of the rewriter that reads responses keeps its types, whatever the answer, and touches nothing of the other half. `PinsMeanRefusal` needs m: while a session is not yet open no record but the hello has been taken |

`DecisionsSound` adds the verdict of the packet in hand to `CacheSafety`; `TablesConsistent` states the agreement of the tables and that ids are
fresh.

The assumptions are the modules' named `ASSUME`s, which TLC evaluates on every
run: finite sets, positive caps, sentinels outside the types, the order of the
two TCP timeouts. `StreamAssumption` says of each answer of a proxy what it means as
a whole: whether it grants, where the origin's bytes begin, what the proxy is to be
told. It is written on the whole bytes, with quantifiers, and shares nothing with
the codecs but the names of the messages. Of an app's requests it says that no line
or header is an empty line, and that a body is as long as its headers say, where that
parses and the request is no anomaly; a length that does not parse is left out of
`ForwardExact`, since there the code does what `JunkFailsClosed` shows (section 5).

`AsksAreExact` is about the scripts for which `AsksFor` holds, which are all that send no
HTTP/2 and whose DoT lengths are octets, with `asked` what their plaintext comes to, and
about a splice that still looks at its plaintext: a chunked upload and an upgrade are
passed on as they come, and what was read before them was exact. `SpliceCorrect` says
that the giving up is for good. Neither assumes anything of the server's answers.

Model-checked only:

* every liveness property. Liveness under fairness, and anything with `ENABLED`, are out
  of the prover's reach;
* `ShownExact`, `HarExact` and `AnswersMatch` of `TlsMitm`. What the app is shown depends
  on how the response was cut (the search for a tag ends at `MAX_ANCHOR_SCAN`, in a buffer
  or at a segment's end), so that no byte-by-byte reading stands for the loops as it does
  for the requests; what is logged depends on the order in which the two directions were
  read, and what is answered over HTTP/2 on the streams' state. Each would need its own
  reading of the server's bytes, under a guarantee about the server that the code does not
  have;
* `AskedExact` over HTTP/2, and for uploads in chunks up to where they give up;
* the counterexamples of section 5.

The library's induction theorems cannot be used; where a proof needs an induction over a
length, a place or a depth of recursion, it takes the least counterexample instead (`Least`).

## 5. Where the code departs from its comments

A run that TLC finds violated, with the line quoted in `PROJECT.json`:

* `tls_held`: an HTML response that the connection's close delimits, with no `<head>`
  or `<body>` in what is searched, is held with its head for the end of the body; no
  end is ever signalled for such a body, and the close drops it. RW says of itself that
  "It never drops or reorders bytes".

### Further counterexamples

The same modules state more of the comments. `tlc -config <file> <module>.tla`,
with the module of the run that the file is named after, shows how each fails:

| file | property | comment |
|---|---|---|
| `MCNetStackShared.cfg` | `FlowCarriesItsTuple` | ST: "for each new outbound connection we create a TCP socket"; a listening socket takes a SYN from any app port, so the SYN of an aborted flow is accepted by another flow to the same server |
| `MCTcpFlowsPin.cfg` | `SpliceTornDown` | FW: "on completion/failure tear the flow down"; a DoT flow whose app refuses the leaf pins its own pair, its later packets are dropped without an answer, and it stays |
| `MCTcpRelayEof.cfg` (with `-continue`) | `EofMeansAll`, `NothingDropped`, `AppDataSent` | ST: "Close our side toward the app (send FIN) -- upstream reached EOF"; a read-closed event closes it although the pump stopped at a full buffer, so a truncated response ends like a complete one. ST: "the socket's send buffer applies backpressure"; what is read before the app's handshake ends is dropped. FW: "Upstream EOF -> half-close toward the app" and "Propagate the app's half-close once its data is drained"; when the app's close follows the server's, the socket is closed before the drain, and the pass that finds it so drops `to_upstream` unsent, with no reset |
| `MCVpnSessionStop.cfg` | `CoreGone` | VS: "The core is gone"; a rebuild under way when the user stops builds and publishes one that nobody stops |
| `MCVpnSessionTwo.cfg` | `OneSession` | VS: "Stop the native session, rebuild the TUN"; with a start, a network change, a proxy edit and a second start, a rebuild of the first scope zeroes the second one's handle, whose own rebuild then finds none to stop (some minutes) |
| `MCRuntimeStop.cfg` | `DescriptorsClosed` | `ffi.rs`: the datapath thread closes the descriptor of an export; one queued behind the last drain is closed by nobody |
| `MCProxyStreamJunk.cfg` | `JunkFailsClosed` | `http_forward.rs`: an anomaly fails the flow; a Content-Length that does not parse counts as none, and the body is taken for a request |
| `MCVerdictReuse.cfg` | `AttributionCurrent` | `flow_table.rs`: the verdict is cached so that "the upcall happens once per connection"; the table is keyed by a 5-tuple that another app may use next |
| `MCNetStackCap.cfg` | `CapAnswersRst` | FW: the cap "makes smoltcp RST new connections"; the stack drops the SYN |
| `MCTcpFlowsRefuse.cfg` | `RefusalAnswered` | FW: "RST the app so it fails fast instead of timing out"; only SYNs are answered |
| `MCTcpFlowsSplice.cfg` | `SpliceHalfCloseDrained` | FW: "the splice's close_notify already sits in to_upstream"; the write side may be shut with it still there |
| `MCTcpRelayStall.cfg` | `ServerDataArrives` | FW: "app-bound buffer full; wait for it to drain"; nothing resumes the read |
| `MCUdpPathsAssociate.cfg` (with `-continue`) | `AssociateTimely`, `DeadAssociationGone` | FW: a handshake that "hasn't completed within this is failed closed"; each datagram restarts an association's time. FW: the association lives as long as its control connection; a grant and a close in one edge leave it |
| `MCVpnSessionSettings.cfg` | `SettingsPushed` | VS: settings are "pushed live"; one stored during a rebuild is dropped |
| `MCVpnSessionRules.cfg` | `RulesPushed` | VS: "whenever they change"; a rebuild may push older rules over newer ones |
| `MCVpnSessionFreed.cfg` | `NoUseAfterStop` | `NativeCore.kt`: the handle is the session's pointer; an observer may use it after a rebuild stopped the session |

### Seen, not modelled as properties

* `mitm.rs`: "an app abort while our server session is still handshaking means the app
  refused our leaf"; a splice that fails because the app named no server is attributed
  to the app too, and pins the pair though no leaf was offered. `PinMeansRefusal` allows
  for it (`~script.sni`), and the conversation `Nameless` shows it.
* FW: "existing UDP sessions to the old upstream drain via their reapers": a NAT session
  in use is never idle, and keeps the resolver it was opened with.
* RW: a chunked upload turns the rewriter off; a response it holds at that moment for
  a place to inject is dropped. A document with the marker already in it is injected
  again when a segment ends behind its `<head>`.
* `h2.rs`: a GOAWAY in the same read drops requests that were complete before it.
* `dns.rs`: an interim response (1xx) is taken for the final one. An answer made here
  goes to the app at once, over DoT and HTTP/1.1 also between two parts of the
  resolver's; `AnswersMatch` over DoT is checked for a resolver that sends each answer in one
  piece, which is what `whole` says. Over HTTP/1.1 a blocked question behind an allowed
  one is answered first, where the protocol wants the answers in the order of the
  questions; the conversation `DohOverH1` has the blocked one in front. The pass-through of DoT cannot be reached: its
  bound is above what a length of two bytes can say.
* `proxy.rs`: a reply's head with more than 8 KiB behind it in the same read is taken
  for one that is too large.

## 6. Plan

Order, most important behaviour first. Done: 1-8, 10 and 11.

1. `VerdictCache`, `LruCache`; proofs.
2. `NetStack`; proofs.
3. `TcpFlows`; proofs.
4. `TcpRelay`; proofs of both directions.
5. `UdpPaths`; proofs.
6. `VpnSession`; proofs.
7. Proofs: `FdOwned` and `SessionsExclusive` of `VpnSession`, `TablesExact`, `AsConfigured`,
   `RelayedInOrder` and `AnswersExact` of `UdpPaths`, `DownstreamContiguous` of `TcpRelay`,
   `PinnedNotSpliced` of `TcpFlows`.
8. `Runtime`: command queue, poll loop, stop, coarse telemetry, captures; proofs of
   its four invariants.
9. `Datapath`: `TcpFlows` over `NetStack` (shared servers), with `TcpFlows`'
   socket events implemented by the stack's; `Runtime`'s queue under `VpnSession`'s
   handle.
10. `ProxyHandshake` and `HttpForward`, fed by `ProxyStream`; proofs of what the proxy
    is told, of the tunnel and of the absolute form.
11. `TlsMitm` over `HttpTap`, `HttpRewriter`, `DnsStream`, `H2Server`.
12. `FilterSync`, `Stats`: crashes between files, concurrent workers, totals.
13. `TunRoutes`: the complement against its definition.

Not modelled and not planned: byte formats (DNS names, HPACK, pcap blocks, HAR JSON,
rules blob, filter syntax, certificates, SNI), screens, dependency injection, build
files.
