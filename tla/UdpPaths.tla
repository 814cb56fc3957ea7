------------------------------ MODULE UdpPaths ------------------------------
(***************************************************************************)
(* The UDP side of rust/core/src/forward.rs: the path an app's datagram    *)
(* takes once the firewall has passed it (VerdictCache models that), and   *)
(* the four kinds of session behind the paths: a NAT session (UdpSession), *)
(* a SOCKS5 UDP association (Socks5UdpSession) and one-shot DNS jobs over  *)
(* the proxy or over TLS (DnsTcpJob, DnsTlsJob).                           *)
(*                                                                         *)
(* The datagram n is the n-th one taken; what is in it is only whether it  *)
(* is a DNS query whose name the filter blocks.                            *)
(***************************************************************************)
EXTENDS Naturals, Sequences, FiniteSets, Functions

CONSTANTS
    Keys,        \* UdpKey: (app source, destination) pairs
    Dns,         \* those to a DNS port
    Blocked,     \* the datagrams whose name, if a query, the engine blocks
    Resolvers,   \* the resolvers that may be configured
    Proxies,     \* the proxies a session may start with
    PendingCap,  \* SOCKS_UDP_PENDING_CAP
    JobCap,      \* DNS_TCP_MAX_JOBS, DNS_TLS_MAX_JOBS
    Idle,        \* UDP_IDLE_MS, in ticks
    HsTimeout,   \* PROXY_HS_TIMEOUT_MS
    JobTimeout,  \* DNS_TCP_TIMEOUT_MS, DNS_TLS_TIMEOUT_MS, by kind of job
    MaxData,     \* bound on the datagrams
    MaxCopies,   \* bound on the answers one datagram is given
    MaxChanges   \* bound on the live changes of configuration

ASSUME UdpAssumption ==
    /\ Dns \subseteq Keys /\ Blocked \subseteq Nat /\ Resolvers # {}
    /\ Proxies \subseteq {"none", "broken", "http", "socks5"}
    /\ {JobCap, Idle, HsTimeout, MaxData, MaxCopies, MaxChanges} \subseteq Nat
    /\ PendingCap \in Nat \ {0}
    /\ JobTimeout \in [{"tcp", "tls"} -> Nat]
    /\ HsTimeout < Idle

VARIABLES
    proxy,        \* proxy.kind, or "broken" for proxy_broken
    through,      \* proxy_dns_over_tcp: the "route DNS through the proxy" switch
    dns,          \* dns_transport and dns_override; a "tls" one may lack its host
    unsupported,  \* socks_udp_unsupported
    udp, socks,   \* the sessions, by key
    jobs,         \* the jobs, by token
    routes,       \* token -> the session or job it belongs to
    next_token,
    asked,        \* history: the datagrams taken, with the configuration then
    wire,         \* history: what was sent, in order
    answers,      \* history: what was injected toward the apps
    changes,      \* the live changes so far
    served        \* a pass has run since the last tick

config == <<proxy, through, dns, changes>>
tables == <<unsupported, udp, socks, jobs, routes, next_token>>
vars == <<config, tables, asked, wire, answers, served>>

Transports == {"plain", "tls", "hostless"}

Init ==
    /\ proxy \in Proxies /\ through \in BOOLEAN
    /\ dns \in [transport : Transports, resolver : Resolvers]
    /\ unsupported = FALSE
    /\ udp = <<>> /\ socks = <<>> /\ jobs = <<>> /\ routes = <<>> /\ next_token = 1
    /\ asked = <<>> /\ wire = <<>> /\ answers = <<>>
    /\ changes = 0 /\ served = TRUE

Put(f, k, v) == [x \in DOMAIN f \union {k} |-> IF x = k THEN v ELSE f[x]]
Without(f, S) == Restrict(f, DOMAIN f \ S)

Sent(n, tok, via, to) == <<[n |-> n, token |-> tok, via |-> via, to |-> to]>>

-----------------------------------------------------------------------------
(* The paths of one datagram n of key k *)

\* The NAT session's socket stays connected where the first datagram went.
\* Opening one may fail (protect(), connect()): the datagram is dropped.
forward_udp(k, n, to) ==
    /\ UNCHANGED <<unsupported, socks, jobs>>
    /\ \/ /\ k \in DOMAIN udp
          /\ udp' = [udp EXCEPT ![k].idle = 0]
          /\ wire' = wire \o Sent(n, udp[k].token, "direct", udp[k].to)
          /\ UNCHANGED <<routes, next_token>>
       \/ /\ k \notin DOMAIN udp
          /\ udp' = Put(udp, k, [token |-> next_token, to |-> to, idle |-> 0])
          /\ routes' = Put(routes, next_token, [kind |-> "udp", key |-> k])
          /\ next_token' = next_token + 1
          /\ wire' = wire \o Sent(n, next_token, "direct", to)
       \/ /\ k \notin DOMAIN udp
          /\ UNCHANGED <<udp, wire, routes, next_token>>

\* A datagram for an association still handshaking waits, up to the cap.  A new
\* one takes two sockets; if the second fails the first goes too.
forward_udp_socks(k, n, to) ==
    /\ UNCHANGED <<unsupported, udp, jobs>>
    /\ \/ /\ k \in DOMAIN socks
          /\ UNCHANGED <<routes, next_token>>
          /\ IF socks[k].hs
             THEN /\ socks' = [socks EXCEPT ![k].idle = 0, ![k].pending =
                                 IF Len(@) < PendingCap THEN Append(@, n) ELSE @]
                  /\ UNCHANGED wire
             ELSE /\ socks' = [socks EXCEPT ![k].idle = 0]
                  /\ wire' = wire \o Sent(n, socks[k].relay, "relay", socks[k].to)
       \/ /\ k \notin DOMAIN socks
          /\ socks' = Put(socks, k,
                [ctrl |-> next_token, relay |-> next_token + 1, to |-> to, idle |-> 0,
                 age |-> 0, connecting |-> TRUE, hs |-> TRUE, pending |-> <<n>>,
                 reply |-> "none", closed |-> FALSE, event |-> FALSE])
          /\ routes' = Put(Put(routes, next_token, [kind |-> "ctrl", key |-> k]),
                           next_token + 1, [kind |-> "relay", key |-> k])
          /\ next_token' = next_token + 2
          /\ UNCHANGED wire
       \/ /\ k \notin DOMAIN socks
          /\ next_token' \in {next_token, next_token + 1}
          /\ UNCHANGED <<socks, routes, wire>>

Capped(kind) == Cardinality({t \in DOMAIN jobs : jobs[t].kind = kind}) >= JobCap

StartJob(k, n, kind) ==
    /\ UNCHANGED <<unsupported, udp, socks, wire>>
    /\ \/ /\ ~Capped(kind)
          /\ jobs' = Put(jobs, next_token,
                [kind |-> kind, key |-> k, n |-> n, to |-> dns.resolver,
                 stage |-> "Connecting", age |-> 0])
          /\ routes' = Put(routes, next_token, [kind |-> kind, key |-> k])
          /\ next_token' = next_token + 1
       \/ UNCHANGED <<jobs, routes, next_token>>   \* over the cap, or a failed dial

forward_dns_over_proxy(k, n) == StartJob(k, n, "tcp")

Dropped == UNCHANGED <<tables, wire>>

\* Without a server name to verify the query is dropped.
forward_dns_tls(k, n) ==
    IF dns.transport = "hostless" THEN Dropped ELSE StartJob(k, n, "tls")

ThroughProxy(k) == k \in Dns /\ proxy # "none" /\ through

forward(k, n) ==
    IF ThroughProxy(k) THEN
        IF proxy = "socks5" /\ ~unsupported THEN forward_udp_socks(k, n, dns.resolver)
        ELSE forward_dns_over_proxy(k, n)
    ELSE IF k \in Dns THEN
        IF dns.transport = "plain" THEN forward_udp(k, n, dns.resolver)
        ELSE forward_dns_tls(k, n)
    ELSE IF proxy = "socks5" THEN forward_udp_socks(k, n, "origin")
    ELSE forward_udp(k, n, "origin")

Inject(k, n) == answers' = Append(answers, [key |-> k, n |-> n])

\* on_tun_packet's UDP arm and handle_dns, which sinkholes a blocked name.
OnDatagram(k) ==
    LET n == Len(asked) + 1 IN
    /\ n <= MaxData
    /\ asked' = Append(asked, [key |-> k, through |-> ThroughProxy(k),
                               transport |-> dns.transport, resolver |-> dns.resolver])
    /\ UNCHANGED <<config, served>>
    /\ \/ /\ proxy = "broken" \/ (proxy = "http" /\ k \notin Dns)
          /\ Dropped /\ UNCHANGED answers
       \/ /\ proxy # "broken" /\ k \in Dns /\ n \in Blocked
          /\ Dropped /\ Inject(k, n)
       \/ /\ proxy # "broken" /\ ~(proxy = "http" /\ k \notin Dns)
          /\ ~(k \in Dns /\ n \in Blocked)
          /\ forward(k, n) /\ UNCHANGED answers

-----------------------------------------------------------------------------
(* Events of the upstream sockets, dispatched by on_ready through routes *)

\* Mutant: the relay socket keeps its route.
teardown_socks_ctrl_only(k) ==
    /\ socks' = Without(socks, {k})
    /\ routes' = Without(routes, {socks[k].ctrl})

teardown_socks(k) ==
    /\ socks' = Without(socks, {k})
    /\ routes' = Without(routes, {socks[k].ctrl, socks[k].relay})

\* Mutant: what was buffered goes out last in, first out.
FlushedReversed(s) ==
    [i \in 1..Len(s.pending) |->
        [n |-> s.pending[Len(s.pending) + 1 - i], token |-> s.relay, via |-> "relay",
         to |-> s.to]]

\* Mutant: what was buffered goes to the resolver configured by now.
FlushedAnew(s) ==
    [i \in 1..Len(s.pending) |->
        [n |-> s.pending[i], token |-> s.relay, via |-> "relay",
         to |-> IF s.to = "origin" THEN s.to ELSE dns.resolver]]

Flushed(s) ==
    [i \in 1..Len(s.pending) |->
        [n |-> s.pending[i], token |-> s.relay, via |-> "relay", to |-> s.to]]

socks_associate_ready(k) ==
    /\ socks' = [socks EXCEPT ![k].hs = FALSE, ![k].pending = <<>>, ![k].event = FALSE,
                              ![k].age = 0]
    /\ wire' = wire \o Flushed(socks[k])
    /\ UNCHANGED routes

\* The reply is read before the end of the stream is looked at.  Any failure of
\* the handshake but that of the dial is remembered as "no UDP here".
drive_socks_ctrl(k) ==
    LET s == socks[k]
        refused == s.reply = "refused" \/ (s.reply = "none" /\ s.closed)
    IN  \/ /\ s.connecting /\ s.closed
           /\ teardown_socks(k) /\ UNCHANGED <<wire, unsupported>>
        \/ /\ ~(s.connecting /\ s.closed) /\ refused
           /\ teardown_socks(k) /\ unsupported' = TRUE /\ UNCHANGED wire
        \/ /\ s.reply = "unusable"
           /\ teardown_socks(k) /\ UNCHANGED <<wire, unsupported>>
        \/ /\ s.reply = "granted"
           /\ socks_associate_ready(k) /\ UNCHANGED unsupported
        \/ /\ s.reply = "none" /\ ~s.closed
           /\ socks' = [socks EXCEPT ![k].connecting = FALSE, ![k].event = FALSE]
           /\ UNCHANGED <<routes, wire, unsupported>>

OnCtrl(k) ==
    /\ \E t \in DOMAIN routes : routes[t] = [kind |-> "ctrl", key |-> k]
    /\ k \in DOMAIN socks /\ socks[k].event
    /\ IF socks[k].hs THEN drive_socks_ctrl(k)
       ELSE /\ IF socks[k].closed THEN teardown_socks(k)
               ELSE socks' = [socks EXCEPT ![k].event = FALSE] /\ UNCHANGED routes
            /\ UNCHANGED <<wire, unsupported>>
    /\ UNCHANGED <<config, udp, jobs, next_token, asked, answers, served>>

SentOn(tok, n) == \E i \in DOMAIN wire : wire[i].token = tok /\ wire[i].n = n
Copies(n) == Cardinality({i \in DOMAIN answers : answers[i].n = n})

\* pump_socks_relay: whatever comes in on the relay socket is passed on, a second
\* answer to the same datagram included.
OnRelay(k, n) ==
    /\ \E t \in DOMAIN routes : routes[t] = [kind |-> "relay", key |-> k]
    /\ k \in DOMAIN socks /\ SentOn(socks[k].relay, n) /\ Copies(n) < MaxCopies
    /\ socks' = [socks EXCEPT ![k].idle = 0]
    /\ Inject(k, n)
    /\ UNCHANGED <<config, unsupported, udp, jobs, routes, next_token, asked, wire, served>>

\* pump_udp_reply, likewise.
OnUdp(k, n) ==
    /\ \E t \in DOMAIN routes : routes[t] = [kind |-> "udp", key |-> k]
    /\ k \in DOMAIN udp /\ SentOn(udp[k].token, n) /\ Copies(n) < MaxCopies
    /\ udp' = [udp EXCEPT ![k].idle = 0]
    /\ Inject(k, n)
    /\ UNCHANGED <<config, unsupported, socks, jobs, routes, next_token, asked, wire, served>>

Stages == <<"Connecting", "Tunnel", "Query", "Answer">>
Rank(st) == CHOOSE i \in DOMAIN Stages : Stages[i] = st

\* Mutant: an answered job stays until its timeout.
FinishKeeping(t) == UNCHANGED <<jobs, routes>>

\* teardown_dns_tcp, teardown_dns_tls
Finish(t) == jobs' = Without(jobs, {t}) /\ routes' = Without(routes, {t})

\* One event takes a job as far as its socket allows (the query is out once
\* the stage is Answer), answers the app, or finds the socket failed.
drive_job(t) ==
    LET j == jobs[t] IN
    \/ \E st \in {Stages[i] : i \in Rank(j.stage)..4} :
         /\ st # j.stage
         /\ jobs' = [jobs EXCEPT ![t].stage = st]
         /\ wire' = IF st = "Answer" THEN wire \o Sent(j.n, t, j.kind, j.to) ELSE wire
         /\ UNCHANGED <<routes, answers>>
    \/ j.stage = "Answer" /\ Finish(t) /\ Inject(j.key, j.n) /\ UNCHANGED wire
    \/ Finish(t) /\ UNCHANGED <<answers, wire>>

OnJob(t) ==
    /\ t \in DOMAIN routes /\ t \in DOMAIN jobs
    /\ drive_job(t)
    /\ UNCHANGED <<config, unsupported, udp, socks, next_token, asked, served>>

-----------------------------------------------------------------------------
(* The reapers of service() *)

Tokens(U, S) == {udp[k].token : k \in U} \union UNION {{socks[k].ctrl, socks[k].relay} : k \in S}

\* reap_proxy_handshakes: timed from the last datagram.
Stuck == {k \in DOMAIN socks : socks[k].hs /\ socks[k].idle > HsTimeout}

\* Mutant: jobs are not timed out.
LateNever == {}

Late == {t \in DOMAIN jobs : jobs[t].age > JobTimeout[jobs[t].kind]}

IdleUdp == {k \in DOMAIN udp : udp[k].idle > Idle}

Service ==
    LET idle == {k \in DOMAIN socks : socks[k].idle > Idle}
        gone == idle \union Stuck
    IN  /\ udp' = Without(udp, IdleUdp)
        /\ socks' = Without(socks, gone)
        /\ jobs' = Without(jobs, Late)
        /\ routes' = Without(routes, Tokens(IdleUdp, gone) \union Late)
        /\ unsupported' = (unsupported \/ Stuck \ idle # {})
        /\ served' = TRUE
        /\ UNCHANGED <<config, next_token, asked, wire, answers>>

-----------------------------------------------------------------------------
(* The proxy's control connections, the clock, live commands *)

Still == <<config, unsupported, udp, jobs, routes, next_token, asked, wire, answers, served>>

\* The dial succeeds; or the proxy refuses it, or later closes the connection.
CtrlConnects(k) ==
    /\ k \in DOMAIN socks /\ socks[k].connecting /\ ~socks[k].closed
    /\ socks' = [socks EXCEPT ![k].event = TRUE]
    /\ UNCHANGED Still

CtrlCloses(k) ==
    /\ k \in DOMAIN socks /\ ~socks[k].closed
    /\ socks' = [socks EXCEPT ![k].closed = TRUE, ![k].event = TRUE]
    /\ UNCHANGED Still

\* "unusable": granted, with a relay address that cannot be connected to.
CtrlReplies(k, r) ==
    /\ k \in DOMAIN socks /\ socks[k].hs /\ ~socks[k].connecting
    /\ ~socks[k].closed /\ socks[k].reply = "none"
    /\ socks' = [socks EXCEPT ![k].reply = r, ![k].event = TRUE]
    /\ UNCHANGED Still

AtMost(n, cap) == IF n < cap THEN n ELSE cap

\* Ages stop one past the longest timeout; an association's is that of its handshake.
\* The loop runs at least one pass per tick: its poll times out well within a second.
Tick ==
    /\ served /\ served' = FALSE
    /\ udp' = [k \in DOMAIN udp |-> [udp[k] EXCEPT !.idle = AtMost(@ + 1, Idle + 1)]]
    /\ socks' = [k \in DOMAIN socks |-> [socks[k] EXCEPT
                    !.idle = AtMost(@ + 1, Idle + 1),
                    !.age = IF socks[k].hs THEN AtMost(@ + 1, HsTimeout + 2) ELSE 0]]
    /\ jobs' = [t \in DOMAIN jobs |-> [jobs[t] EXCEPT
                    !.age = AtMost(@ + 1, JobTimeout[jobs[t].kind] + 1)]]
    /\ UNCHANGED <<config, unsupported, routes, next_token, asked, wire, answers>>

set_dns_upstream ==
    /\ changes < MaxChanges /\ changes' = changes + 1
    /\ dns' \in [transport : Transports, resolver : Resolvers] \ {dns}
    /\ UNCHANGED <<proxy, through, tables, asked, wire, answers, served>>

set_proxy_dns_over_tcp ==
    /\ changes < MaxChanges /\ changes' = changes + 1
    /\ through' = ~through
    /\ UNCHANGED <<proxy, dns, tables, asked, wire, answers, served>>

Next ==
    \/ \E k \in Keys : OnDatagram(k) \/ OnCtrl(k) \/ CtrlConnects(k) \/ CtrlCloses(k)
    \/ \E k \in Keys, n \in 1..Len(asked) : OnRelay(k, n) \/ OnUdp(k, n)
    \/ \E k \in Keys, r \in {"granted", "refused", "unusable"} : CtrlReplies(k, r)
    \/ \E t \in DOMAIN jobs : OnJob(t)
    \/ Service \/ Tick \/ set_dns_upstream \/ set_proxy_dns_over_tcp

\* Passes keep coming and time goes on; nobody owes an answer.
Fairness == WF_vars(Service) /\ WF_vars(Tick)

Spec == Init /\ [][Next]_vars /\ Fairness

-----------------------------------------------------------------------------
Naming == 1..next_token

TypeOK ==
    /\ proxy \in Proxies /\ through \in BOOLEAN /\ unsupported \in BOOLEAN
    /\ dns \in [transport : Transports, resolver : Resolvers]
    /\ DOMAIN udp \subseteq Keys /\ DOMAIN socks \subseteq Keys /\ DOMAIN jobs \subseteq Naming
    /\ \A k \in DOMAIN udp : udp[k] \in
         [token : Naming, to : Resolvers \union {"origin"}, idle : 0..Idle + 1]
    /\ \A k \in DOMAIN socks :
         /\ socks[k].idle \in 0..Idle + 1
         /\ Len(socks[k].pending) <= PendingCap
         /\ socks[k].reply \in {"none", "granted", "refused", "unusable"}
    /\ \A kind \in {"tcp", "tls"} : Cardinality({t \in DOMAIN jobs : jobs[t].kind = kind}) <= JobCap
    /\ Len(asked) <= MaxData /\ changes \in 0..MaxChanges

\* Every registered socket's token leads to the session or job that owns it, and
\* to no other: no event is lost, none reaches another app's session.
RoutesExact ==
    /\ \A k \in DOMAIN udp : udp[k].token \in DOMAIN routes
                             /\ routes[udp[k].token] = [kind |-> "udp", key |-> k]
    /\ \A k \in DOMAIN socks :
         /\ {socks[k].ctrl, socks[k].relay} \subseteq DOMAIN routes
         /\ routes[socks[k].ctrl] = [kind |-> "ctrl", key |-> k]
         /\ routes[socks[k].relay] = [kind |-> "relay", key |-> k]
    /\ \A t \in DOMAIN jobs : t \in DOMAIN routes
                              /\ routes[t] = [kind |-> jobs[t].kind, key |-> jobs[t].key]
    /\ DOMAIN routes = Tokens(DOMAIN udp, DOMAIN socks) \union DOMAIN jobs

\* The tables as a whole: sessions, jobs and routes keep their shape and their caps
\* (SOCKS_UDP_PENDING_CAP, DNS_TCP_MAX_JOBS) and stay matched through every teardown.
TablesExact == TypeOK /\ RoutesExact

\* Where a datagram was to go, and the ways it might, when it was taken.  With the DNS
\* switch off queries go direct, even under a proxy; with it on they go through the
\* proxy in clear text, even when DoT or DoH is configured: both as the code means it.
Target(a) == IF a.key \in Dns THEN a.resolver ELSE "origin"
Ways(p, a) ==
    IF p = "broken" THEN {}
    ELSE IF a.key \in Dns THEN
        IF a.through THEN {"relay", "tcp"}
        ELSE IF a.transport = "plain" THEN {"direct"} ELSE {"tls"}
    ELSE [none |-> {"direct"}, socks5 |-> {"relay"}, http |-> {}][p]

\* set_dns_upstream: "Takes effect on the next DNS query; in-flight jobs and existing
\* UDP sessions to the old upstream drain".  A socket keeps one target, that of the
\* datagram it was opened for, taken when that datagram was, however long it then
\* waited for the proxy and whatever was set meanwhile; and every datagram leaves by a
\* way the switch, the transport and the proxy allowed when it was taken.
AsConfigured ==
    \A i \in DOMAIN wire :
      /\ \A j \in DOMAIN wire : wire[j].token = wire[i].token => wire[j].to = wire[i].to
      /\ (\A j \in 1..(i - 1) : wire[j].token # wire[i].token)
           => wire[i].to = Target(asked[wire[i].n])
      /\ wire[i].via \in Ways(proxy, asked[wire[i].n])

\* What an association relays goes out in the order the app sent it, buffered
\* datagrams first, and none before the proxy has granted it.
RelayedInOrder ==
    /\ \A i, j \in DOMAIN wire :
         i < j /\ wire[i].token = wire[j].token => wire[i].n < wire[j].n
    /\ \A k \in DOMAIN socks :
         IF socks[k].hs THEN \A i \in DOMAIN wire : wire[i].token # socks[k].relay
         ELSE socks[k].pending = <<>>

BySession(n) == \E i \in DOMAIN wire : wire[i].n = n /\ wire[i].via \in {"direct", "relay"}

\* An answer goes to the pair that asked, whichever table held the query by then.  No
\* datagram leaves twice, through whatever buffers, jobs and fallbacks it went; so only
\* the servers repeat answers, to what a session carries: a query that was sinkholed or
\* given to a one-shot job has one answer at most.
AnswersExact ==
    /\ \A i \in DOMAIN answers : answers[i].key = asked[answers[i].n].key
    /\ \A i, j \in DOMAIN wire : wire[i].n = wire[j].n => i = j
    /\ \A i, j \in DOMAIN answers :
         i # j /\ answers[i].n = answers[j].n => BySession(answers[i].n)

\* A one-shot DNS job ends, whatever the proxy and the resolver do.
JobsEnd == \A t \in 1..(2 * MaxData - 1) : t \in DOMAIN jobs ~> t \notin DOMAIN jobs

\* An idle NAT session goes, and gives its socket back.
SessionsEnd == \A k \in Keys : k \in DOMAIN udp ~> k \notin DOMAIN udp

\* Nothing is held for good: the reapers end every job and every idle NAT session,
\* whatever the proxy and the resolver do or fail to do.
AllEnd == JobsEnd /\ SessionsEnd

\* forward.rs: "A proxy handshake (TCP CONNECT, HTTPS-proxy TLS, or SOCKS5
\* ASSOCIATE) that hasn't completed within this is failed closed": no association
\* is still handshaking a pass after the timeout.
AssociateTimely == \A k \in DOMAIN socks : socks[k].hs => socks[k].age <= HsTimeout + 1

\* forward.rs: "the association lives only as long as" its control connection: none
\* outlives one whose close has been reported.
DeadAssociationGone ==
    \A k \in DOMAIN socks : socks[k].closed /\ ~socks[k].event => socks[k].hs
=============================================================================
