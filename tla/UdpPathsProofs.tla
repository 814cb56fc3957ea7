--------------------------- MODULE UdpPathsProofs ---------------------------
(***************************************************************************)
(* Proofs about UdpPaths for any keys, proxies, caps and timeouts: its     *)
(* tables stay matched, what a session sends keeps its order and its       *)
(* target, no datagram leaves twice, and answers go to who asked.          *)
(***************************************************************************)
EXTENDS UdpPaths, FiniteSetTheorems, TLAPS

-----------------------------------------------------------------------------
(* Types *)

Targets == Resolvers \union {"origin"}
UdpRec == [token : Nat, to : Targets, idle : 0..Idle + 1]
SocksRec == [ctrl : Nat, relay : Nat, to : Targets, idle : 0..Idle + 1, age : Nat,
             connecting : BOOLEAN, hs : BOOLEAN, pending : Seq(Nat),
             reply : {"none", "granted", "refused", "unusable"}, closed : BOOLEAN,
             event : BOOLEAN]
StageSet == {"Connecting", "Tunnel", "Query", "Answer"}
JobRec == [kind : {"tcp", "tls"}, key : Keys, n : Nat, to : Resolvers, stage : StageSet,
           age : Nat]
Route == [kind : {"udp", "ctrl", "relay", "tcp", "tls"}, key : Keys]
Asked == [key : Keys, through : BOOLEAN, transport : Transports, resolver : Resolvers]
Packet == [n : Nat, token : Nat, via : {"direct", "relay", "tcp", "tls"}, to : Targets]
Answer == [key : Keys, n : Nat]

ConfigOK ==
    /\ proxy \in Proxies /\ through \in BOOLEAN /\ unsupported \in BOOLEAN
    /\ dns \in [transport : Transports, resolver : Resolvers]
    /\ changes \in 0..MaxChanges
UdpOK == DOMAIN udp \subseteq Keys /\ udp \in [DOMAIN udp -> UdpRec]
SocksOK ==
    /\ DOMAIN socks \subseteq Keys /\ socks \in [DOMAIN socks -> SocksRec]
    /\ \A k \in DOMAIN socks : Len(socks[k].pending) <= PendingCap
JobsOK == jobs \in [DOMAIN jobs -> JobRec]
RoutesOK ==
    /\ next_token \in Nat \ {0} /\ DOMAIN routes \subseteq 1..(next_token - 1)
    /\ routes \in [DOMAIN routes -> Route]
HistoryOK ==
    /\ asked \in Seq(Asked) /\ Len(asked) <= MaxData
    /\ wire \in Seq(Packet) /\ answers \in Seq(Answer)

Typed == ConfigOK /\ UdpOK /\ SocksOK /\ JobsOK /\ RoutesOK /\ HistoryOK

-----------------------------------------------------------------------------
(* The helpers on tables *)

LEMMA PutIn ==
    ASSUME NEW S, NEW f, f \in [DOMAIN f -> S], NEW k, NEW v \in S
    PROVE  Put(f, k, v) \in [DOMAIN Put(f, k, v) -> S]
  BY DEF Put

LEMMA OneMore ==
    ASSUME NEW S, NEW w \in Seq(S), NEW e \in S, NEW s, s = <<e>>
    PROVE  /\ w \o s \in Seq(S) /\ Len(w \o s) = Len(w) + 1
           /\ \A i \in 1..Len(w) : (w \o s)[i] = w[i]
           /\ (w \o s)[Len(w) + 1] = e
  OBVIOUS

LEMMA FlushedIs ==
    ASSUME NEW s \in SocksRec
    PROVE  /\ Flushed(s) \in Seq(Packet) /\ Len(Flushed(s)) = Len(s.pending)
           /\ \A i \in 1..Len(s.pending) :
                /\ Flushed(s)[i].n = s.pending[i] /\ Flushed(s)[i].token = s.relay
                /\ Flushed(s)[i].via = "relay" /\ Flushed(s)[i].to = s.to
  BY DEF Flushed, SocksRec, Packet

-----------------------------------------------------------------------------
(* The ways a datagram can take *)

\* Where a datagram of key k goes by the configuration of now.
Goal(k) == IF k \in Dns THEN dns.resolver ELSE "origin"

\* What OnDatagram always does.
Taken(k) ==
    /\ Len(asked) < MaxData
    /\ asked' = Append(asked, [key |-> k, through |-> ThroughProxy(k),
                               transport |-> dns.transport, resolver |-> dns.resolver])
    /\ UNCHANGED <<config, served>>

LEMMA ForwardCases ==
    ASSUME Typed, NEW k \in Keys, NEW n, forward(k, n)
    PROVE  \/ /\ proxy = "socks5" /\ (k \in Dns => ThroughProxy(k))
              /\ forward_udp_socks(k, n, Goal(k))
           \/ k \in Dns /\ ThroughProxy(k) /\ StartJob(k, n, "tcp")
           \/ k \in Dns /\ ~ThroughProxy(k) /\ dns.transport # "plain" /\ StartJob(k, n, "tls")
           \/ Dropped
           \/ /\ ~ThroughProxy(k) /\ (k \in Dns => dns.transport = "plain")
              /\ k \notin Dns => proxy # "socks5"
              /\ forward_udp(k, n, Goal(k))
  <1>2. CASE ThroughProxy(k)
    BY <1>2 DEF forward, ThroughProxy, forward_dns_over_proxy, Goal
  <1>3. CASE ~ThroughProxy(k) /\ k \in Dns
    BY <1>3 DEF forward, forward_dns_tls, Goal
  <1>4. CASE ~ThroughProxy(k) /\ k \notin Dns
    BY <1>4 DEF forward, Goal
  <1> QED
    BY <1>2, <1>3, <1>4

LEMMA DatagramCases ==
    ASSUME Typed, NEW k \in Keys, OnDatagram(k)
    PROVE  /\ Taken(k)
           /\ LET n == Len(asked) + 1 IN
              \/ Dropped /\ UNCHANGED answers
              \/ Dropped /\ Inject(k, n)
              \/ /\ proxy # "broken" /\ (k \notin Dns => proxy # "http") /\ UNCHANGED answers
                 /\ \/ /\ proxy = "socks5" /\ (k \in Dns => ThroughProxy(k))
                       /\ forward_udp_socks(k, n, Goal(k))
                    \/ k \in Dns /\ ThroughProxy(k) /\ StartJob(k, n, "tcp")
                    \/ k \in Dns /\ ~ThroughProxy(k) /\ dns.transport # "plain" /\ StartJob(k, n, "tls")
                    \/ /\ ~ThroughProxy(k) /\ (k \in Dns => dns.transport = "plain")
                       /\ k \notin Dns => proxy # "socks5"
                       /\ forward_udp(k, n, Goal(k))
  <1> DEFINE n == Len(asked) + 1
  <1>1. Taken(k)
    <2>1. Len(asked) \in Nat /\ MaxData \in Nat
      BY UdpAssumption DEF Typed, HistoryOK
    <2> QED
      BY <2>1 DEF OnDatagram, Taken
  <1>2. \/ Dropped /\ UNCHANGED answers
        \/ Dropped /\ Inject(k, n)
        \/ /\ proxy # "broken" /\ (k \notin Dns => proxy # "http")
           /\ forward(k, n) /\ UNCHANGED answers
    BY DEF OnDatagram
  <1> QED
    BY <1>1, <1>2, ForwardCases

\* The datagram just taken, as it is recorded.
JustTaken(k) ==
    /\ Len(asked) + 1 \in 1..Len(asked')
    /\ asked'[Len(asked) + 1].key = k
    /\ asked'[Len(asked) + 1].through <=> ThroughProxy(k)
    /\ asked'[Len(asked) + 1].transport = dns.transport
    /\ Target(asked'[Len(asked) + 1]) = Goal(k)

LEMMA AskedGrows ==
    ASSUME Typed, NEW k \in Keys, Taken(k)
    PROVE  /\ asked' \in Seq(Asked) /\ Len(asked') = Len(asked) + 1 /\ Len(asked') <= MaxData
           /\ Len(asked) \in Nat
           /\ \A i \in 1..Len(asked) : asked'[i] = asked[i]
           /\ JustTaken(k)
  <1>1. ThroughProxy(k) \in BOOLEAN
    BY DEF Typed, ConfigOK, ThroughProxy
  <1>2. PICK a : a = [key |-> k, through |-> ThroughProxy(k), transport |-> dns.transport,
                      resolver |-> dns.resolver]
    OBVIOUS
  <1>3. dns.transport \in Transports /\ dns.resolver \in Resolvers
    BY DEF Typed, ConfigOK
  <1>4. a \in Asked
    BY <1>1, <1>2, <1>3, Zenon DEF Asked
  <1>5. asked' = Append(asked, a) /\ Len(asked) < MaxData /\ asked \in Seq(Asked)
    BY <1>2 DEF Taken, Typed, HistoryOK
  <1>6. /\ asked' \in Seq(Asked) /\ Len(asked') = Len(asked) + 1 /\ Len(asked) \in Nat
        /\ \A i \in 1..Len(asked) : asked'[i] = asked[i]
        /\ asked'[Len(asked) + 1] = a /\ Len(asked) + 1 \in 1..Len(asked')
    BY <1>4, <1>5
  <1>7. Len(asked') <= MaxData
    BY <1>5, <1>6, UdpAssumption
  <1>8. a.key = k /\ (a.through <=> ThroughProxy(k)) /\ a.transport = dns.transport
        /\ a.resolver = dns.resolver
    BY <1>1, <1>2, Zenon
  <1>9. Target(a) = Goal(k)
    BY <1>8 DEF Target, Goal
  <1>10. JustTaken(k)
    BY <1>6, <1>8, <1>9, Zenon DEF JustTaken
  <1> QED
    BY <1>6, <1>7, <1>10

LEMMA GoalIs ==
    ASSUME Typed, NEW k
    PROVE  Goal(k) \in Targets
  BY DEF Typed, ConfigOK, Targets, Goal

-----------------------------------------------------------------------------
(* The steps, each by what it does to the tables and the history *)

\* One packet more is on the wire.
SentOut(n, tok, via, to) ==
    /\ wire' \in Seq(Packet) /\ Len(wire') = Len(wire) + 1
    /\ \A i \in 1..Len(wire) : wire'[i] = wire[i]
    /\ wire'[Len(wire) + 1].n = n /\ wire'[Len(wire) + 1].token = tok
    /\ wire'[Len(wire) + 1].via = via /\ wire'[Len(wire) + 1].to = to

LEMMA SendsOut ==
    ASSUME Typed, NEW n \in Nat, NEW tok \in Nat, NEW via \in {"direct", "relay", "tcp", "tls"},
           NEW to \in Targets, wire' = wire \o Sent(n, tok, via, to)
    PROVE  SentOut(n, tok, via, to)
  <1>1. PICK e : e = [n |-> n, token |-> tok, via |-> via, to |-> to]
    OBVIOUS
  <1>2. e \in Packet /\ e.n = n /\ e.token = tok /\ e.via = via /\ e.to = to
    BY <1>1 DEF Packet
  <1>3. PICK s : s = <<e>>
    OBVIOUS
  <1>4. wire \in Seq(Packet) /\ wire' = wire \o s
    BY <1>1, <1>3 DEF Typed, HistoryOK, Sent
  <1>5. e \in Packet
    BY <1>2
  <1>6. wire' \in Seq(Packet) /\ Len(wire') = Len(wire) + 1
        /\ (\A i \in 1..Len(wire) : wire'[i] = wire[i]) /\ wire'[Len(wire) + 1] = e
    BY <1>3, <1>4, <1>5, OneMore
  <1> QED
    BY <1>2, <1>6 DEF SentOut

\* The tables keep their sockets.
UdpSame ==
    /\ UdpOK' /\ DOMAIN udp' = DOMAIN udp
    /\ \A k \in DOMAIN udp : udp'[k].token = udp[k].token /\ udp'[k].to = udp[k].to
SocksSame ==
    /\ SocksOK' /\ DOMAIN socks' = DOMAIN socks
    /\ \A k \in DOMAIN socks : /\ socks'[k].ctrl = socks[k].ctrl /\ socks'[k].relay = socks[k].relay
                               /\ socks'[k].to = socks[k].to
JobsSame ==
    /\ JobsOK' /\ DOMAIN jobs' = DOMAIN jobs
    /\ \A t \in DOMAIN jobs : /\ jobs'[t].kind = jobs[t].kind /\ jobs'[t].key = jobs[t].key
                              /\ jobs'[t].n = jobs[t].n /\ jobs'[t].to = jobs[t].to
\* One entry more.
UdpAdds(k) ==
    /\ UdpOK' /\ k \notin DOMAIN udp /\ DOMAIN udp' = DOMAIN udp \union {k}
    /\ udp'[k].token = next_token /\ udp'[k].to = Goal(k)
    /\ \A j \in DOMAIN udp : udp'[j] = udp[j]
    /\ RoutesOK' /\ next_token' = next_token + 1
    /\ DOMAIN routes' = DOMAIN routes \union {next_token}
    /\ routes'[next_token] = [kind |-> "udp", key |-> k]
    /\ \A t \in DOMAIN routes : routes'[t] = routes[t]
SocksAdds(k, n) ==
    /\ SocksOK' /\ k \notin DOMAIN socks /\ DOMAIN socks' = DOMAIN socks \union {k}
    /\ socks'[k].ctrl = next_token /\ socks'[k].relay = next_token + 1
    /\ socks'[k].hs /\ socks'[k].pending = <<n>> /\ socks'[k].to = Goal(k)
    /\ \A j \in DOMAIN socks : socks'[j] = socks[j]
    /\ RoutesOK' /\ next_token' = next_token + 2
    /\ DOMAIN routes' = DOMAIN routes \union {next_token, next_token + 1}
    /\ routes'[next_token] = [kind |-> "ctrl", key |-> k]
    /\ routes'[next_token + 1] = [kind |-> "relay", key |-> k]
    /\ \A t \in DOMAIN routes : routes'[t] = routes[t]
JobAdds(k, n, kind) ==
    /\ JobsOK' /\ next_token \notin DOMAIN jobs /\ DOMAIN jobs' = DOMAIN jobs \union {next_token}
    /\ jobs'[next_token].kind = kind /\ jobs'[next_token].key = k /\ jobs'[next_token].n = n
    /\ jobs'[next_token].stage # "Answer" /\ jobs'[next_token].to = dns.resolver
    /\ \A t \in DOMAIN jobs : jobs'[t] = jobs[t]
    /\ RoutesOK' /\ next_token' = next_token + 1
    /\ DOMAIN routes' = DOMAIN routes \union {next_token}
    /\ routes'[next_token] = [kind |-> kind, key |-> k]
    /\ \A t \in DOMAIN routes : routes'[t] = routes[t]

\* A fresh token names nothing yet.
LEMMA FreshToken ==
    ASSUME Typed
    PROVE  next_token \in Nat \ {0} /\ next_token \notin DOMAIN routes
           /\ next_token + 1 \notin DOMAIN routes
  BY DEF Typed, RoutesOK

LEMMA UdpForwarded ==
    ASSUME Typed, NEW k \in Keys, NEW n \in Nat, forward_udp(k, n, Goal(k))
    PROVE  /\ UNCHANGED <<unsupported, socks, jobs>>
           /\ \/ /\ k \in DOMAIN udp /\ UdpSame /\ UNCHANGED <<routes, next_token>>
                 /\ SentOut(n, udp[k].token, "direct", udp[k].to)
              \/ UdpAdds(k) /\ SentOut(n, next_token, "direct", Goal(k))
              \/ UNCHANGED <<udp, routes, next_token, wire>>
  <1>0. PICK to \in Targets : to = Goal(k)
    BY GoalIs
  <1>1. next_token \in Nat \ {0} /\ udp \in [DOMAIN udp -> UdpRec] /\ DOMAIN udp \subseteq Keys
    BY FreshToken DEF Typed, UdpOK
  <1>2. CASE k \in DOMAIN udp /\ udp' = [udp EXCEPT ![k].idle = 0] /\ UNCHANGED <<routes, next_token>>
             /\ wire' = wire \o Sent(n, udp[k].token, "direct", udp[k].to)
    <2>1. udp[k] \in UdpRec /\ udp[k].token \in Nat /\ udp[k].to \in Targets
      BY <1>1, <1>2 DEF UdpRec
    <2>2. [udp[k] EXCEPT !.idle = 0] \in UdpRec
      BY <2>1, UdpAssumption DEF UdpRec
    <2>3. UdpSame
      BY <1>1, <1>2, <2>1, <2>2 DEF UdpSame, UdpOK, UdpRec
    <2>4. SentOut(n, udp[k].token, "direct", udp[k].to)
      BY <1>2, <2>1, SendsOut
    <2> QED
      BY <1>2, <2>3, <2>4 DEF forward_udp
  <1>3. CASE /\ k \notin DOMAIN udp
             /\ udp' = Put(udp, k, [token |-> next_token, to |-> to, idle |-> 0])
             /\ routes' = Put(routes, next_token, [kind |-> "udp", key |-> k])
             /\ next_token' = next_token + 1
             /\ wire' = wire \o Sent(n, next_token, "direct", to)
    <2>0. PICK u : u = [token |-> next_token, to |-> to, idle |-> 0]
      OBVIOUS
    <2>1. u \in UdpRec /\ u.token = next_token /\ u.to = to
      BY <1>1, <2>0, UdpAssumption DEF UdpRec
    <2>2. /\ UdpOK' /\ DOMAIN udp' = DOMAIN udp \union {k} /\ udp'[k].token = next_token
          /\ udp'[k].to = to
          /\ \A j \in DOMAIN udp : udp'[j] = udp[j]
      <3>1. udp' = Put(udp, k, u)
        BY <1>3, <2>0
      <3>2. udp' \in [DOMAIN udp' -> UdpRec]
        BY <1>1, <2>1, <3>1, PutIn
      <3>3. /\ DOMAIN udp' = DOMAIN udp \union {k} /\ udp'[k] = u
            /\ \A j \in DOMAIN udp : udp'[j] = udp[j]
        BY <1>3, <3>1 DEF Put
      <3> QED
        BY <1>1, <2>1, <3>2, <3>3 DEF UdpOK
    <2>3. next_token \notin DOMAIN routes /\ routes \in [DOMAIN routes -> Route]
      BY FreshToken DEF Typed, RoutesOK
    <2>4. PICK r : r = [kind |-> "udp", key |-> k]
      OBVIOUS
    <2>5. r \in Route /\ routes' = Put(routes, next_token, r)
      BY <1>3, <2>4 DEF Route
    <2>6. /\ DOMAIN routes' = DOMAIN routes \union {next_token}
          /\ routes'[next_token] = [kind |-> "udp", key |-> k]
          /\ \A t \in DOMAIN routes : routes'[t] = routes[t]
          /\ routes' \in [DOMAIN routes' -> Route]
      BY <2>3, <2>4, <2>5 DEF Put
    <2>7. RoutesOK'
      BY <1>1, <1>3, <2>6 DEF RoutesOK, Typed
    <2>8. UdpAdds(k)
      BY <1>0, <1>3, <2>2, <2>6, <2>7 DEF UdpAdds
    <2>9. SentOut(n, next_token, "direct", to)
      BY <1>1, <1>3, SendsOut
    <2> QED
      BY <1>0, <1>3, <2>8, <2>9 DEF forward_udp
  <1> QED
    BY <1>0, <1>2, <1>3 DEF forward_udp

LEMMA JobStarted ==
    ASSUME Typed, DOMAIN jobs \subseteq DOMAIN routes,
           NEW k \in Keys, NEW n \in Nat, NEW kind \in {"tcp", "tls"}, StartJob(k, n, kind)
    PROVE  /\ UNCHANGED <<unsupported, udp, socks, wire>>
           /\ \/ JobAdds(k, n, kind) /\ ~Capped(kind)
              \/ UNCHANGED <<jobs, routes, next_token>>
  <1>1. next_token \in Nat \ {0} /\ jobs \in [DOMAIN jobs -> JobRec] /\ next_token \notin DOMAIN jobs
    BY FreshToken DEF Typed, JobsOK
  <1>2. CASE /\ ~Capped(kind)
             /\ jobs' = Put(jobs, next_token,
                   [kind |-> kind, key |-> k, n |-> n, to |-> dns.resolver,
                    stage |-> "Connecting", age |-> 0])
             /\ routes' = Put(routes, next_token, [kind |-> kind, key |-> k])
             /\ next_token' = next_token + 1
    <2>1. dns.resolver \in Resolvers
      BY DEF Typed, ConfigOK
    <2>2. PICK j : j = [kind |-> kind, key |-> k, n |-> n, to |-> dns.resolver,
                        stage |-> "Connecting", age |-> 0]
      OBVIOUS
    <2>3. j \in JobRec /\ j.kind = kind /\ j.key = k /\ j.n = n /\ j.stage # "Answer"
          /\ j.to = dns.resolver
      BY <2>1, <2>2 DEF JobRec, StageSet
    <2>4. jobs' = Put(jobs, next_token, j)
      BY <1>2, <2>2
    <2>5. /\ JobsOK' /\ DOMAIN jobs' = DOMAIN jobs \union {next_token} /\ jobs'[next_token] = j
          /\ \A t \in DOMAIN jobs : jobs'[t] = jobs[t]
      <3>1. jobs' \in [DOMAIN jobs' -> JobRec]
        BY <1>1, <2>3, <2>4, PutIn
      <3> QED
        BY <1>1, <2>4, <3>1 DEF JobsOK, Put
    <2>6. next_token \notin DOMAIN routes /\ routes \in [DOMAIN routes -> Route]
      BY FreshToken DEF Typed, RoutesOK
    <2>7. PICK r : r = [kind |-> kind, key |-> k]
      OBVIOUS
    <2>8. r \in Route /\ routes' = Put(routes, next_token, r)
      BY <1>2, <2>7 DEF Route
    <2>9. /\ DOMAIN routes' = DOMAIN routes \union {next_token}
          /\ routes'[next_token] = [kind |-> kind, key |-> k]
          /\ \A t \in DOMAIN routes : routes'[t] = routes[t]
          /\ routes' \in [DOMAIN routes' -> Route]
      BY <2>6, <2>7, <2>8 DEF Put
    <2>10. RoutesOK'
      BY <1>1, <1>2, <2>9 DEF RoutesOK, Typed
    <2>11. JobAdds(k, n, kind)
      BY <1>1, <1>2, <2>3, <2>5, <2>9, <2>10 DEF JobAdds
    <2> QED
      BY <1>2, <2>11 DEF StartJob
  <1> QED
    BY <1>2 DEF StartJob

\* No association's handshake moves, and nothing is buffered.
SocksKept ==
    /\ SocksSame
    /\ \A k \in DOMAIN socks : socks'[k].hs = socks[k].hs /\ socks'[k].pending = socks[k].pending

\* A datagram waits for association k.
Waits(k, n) ==
    /\ SocksSame /\ k \in DOMAIN socks /\ socks[k].hs /\ socks'[k].hs
    /\ socks'[k].pending = Append(socks[k].pending, n)
    /\ \A j \in DOMAIN socks \ {k} : socks'[j] = socks[j]

LEMMA SocksForwarded ==
    ASSUME Typed, NEW k \in Keys, NEW n \in Nat, forward_udp_socks(k, n, Goal(k))
    PROVE  /\ UNCHANGED <<unsupported, udp, jobs>>
           /\ \/ Waits(k, n) /\ UNCHANGED <<routes, next_token, wire>>
              \/ SocksKept /\ UNCHANGED <<routes, next_token, wire>>
              \/ /\ k \in DOMAIN socks /\ ~socks[k].hs /\ SocksKept
                 /\ UNCHANGED <<routes, next_token>>
                 /\ SentOut(n, socks[k].relay, "relay", socks[k].to)
              \/ SocksAdds(k, n) /\ UNCHANGED wire
              \/ UNCHANGED <<socks, routes, wire>> /\ next_token' \in {next_token, next_token + 1}
  <1>0. UNCHANGED <<unsupported, udp, jobs>>
    BY DEF forward_udp_socks
  <1>5. PICK to \in Targets : to = Goal(k)
    BY GoalIs
  <1>1. /\ next_token \in Nat \ {0} /\ socks \in [DOMAIN socks -> SocksRec]
        /\ DOMAIN socks \subseteq Keys
        /\ \A j \in DOMAIN socks : Len(socks[j].pending) <= PendingCap
    BY FreshToken DEF Typed, SocksOK
  <1>2. CASE k \in DOMAIN socks /\ UNCHANGED <<routes, next_token>>
    <2>0. 0 \in 0..Idle + 1
      BY UdpAssumption
    <2>1. /\ socks[k] \in SocksRec /\ socks[k].relay \in Nat /\ socks[k].to \in Targets
          /\ socks[k].pending \in Seq(Nat) /\ Len(socks[k].pending) \in Nat
      BY <1>1, <1>2 DEF SocksRec
    <2>2. CASE /\ socks[k].hs /\ Len(socks[k].pending) < PendingCap /\ UNCHANGED wire
               /\ socks' = [socks EXCEPT ![k].idle = 0, ![k].pending = Append(@, n)]
      <3>1. PICK p : p = Append(socks[k].pending, n)
        OBVIOUS
      <3>2. p \in Seq(Nat) /\ Len(p) = Len(socks[k].pending) + 1 /\ Len(p) <= PendingCap
        BY <2>1, <2>2, <3>1, UdpAssumption
      <3>3. [socks[k] EXCEPT !.idle = 0, !.pending = p] \in SocksRec
        BY <2>0, <2>1, <3>2 DEF SocksRec
      <3>4. socks' = [socks EXCEPT ![k] = [socks[k] EXCEPT !.idle = 0, !.pending = p]]
        BY <2>1, <2>2, <3>1, <1>1
      <3>5. /\ DOMAIN socks' = DOMAIN socks /\ socks' \in [DOMAIN socks' -> SocksRec]
            /\ socks'[k] = [socks[k] EXCEPT !.idle = 0, !.pending = p]
            /\ \A j \in DOMAIN socks \ {k} : socks'[j] = socks[j]
        BY <1>1, <1>2, <3>3, <3>4
      <3>6. /\ socks'[k].pending = p /\ socks'[k].hs = socks[k].hs
            /\ socks'[k].ctrl = socks[k].ctrl /\ socks'[k].relay = socks[k].relay
            /\ socks'[k].to = socks[k].to
        BY <2>1, <3>5 DEF SocksRec
      <3>7. SocksOK'
        BY <1>1, <3>2, <3>5, <3>6 DEF SocksOK
      <3>8. SocksSame
        BY <3>5, <3>6, <3>7 DEF SocksSame
      <3> QED
        BY <1>0, <1>2, <2>2, <3>1, <3>5, <3>6, <3>8 DEF Waits
    <2>3. ASSUME socks' = [socks EXCEPT ![k].idle = 0]
          PROVE  SocksKept
      <3>1. [socks[k] EXCEPT !.idle = 0] \in SocksRec
        BY <2>0, <2>1 DEF SocksRec
      <3>2. /\ DOMAIN socks' = DOMAIN socks /\ socks' \in [DOMAIN socks' -> SocksRec]
            /\ socks'[k] = [socks[k] EXCEPT !.idle = 0]
            /\ \A j \in DOMAIN socks \ {k} : socks'[j] = socks[j]
        BY <1>1, <1>2, <2>3, <3>1
      <3>3. /\ socks'[k].pending = socks[k].pending /\ socks'[k].hs = socks[k].hs
            /\ socks'[k].ctrl = socks[k].ctrl /\ socks'[k].relay = socks[k].relay
            /\ socks'[k].to = socks[k].to
        BY <2>1, <3>2 DEF SocksRec
      <3> QED
        BY <1>1, <3>2, <3>3 DEF SocksKept, SocksSame, SocksOK
    <2>4. CASE /\ socks[k].hs /\ ~(Len(socks[k].pending) < PendingCap) /\ UNCHANGED wire
               /\ socks' = [socks EXCEPT ![k].idle = 0, ![k].pending = socks[k].pending]
      <3>1. socks' = [socks EXCEPT ![k].idle = 0]
        BY <1>1, <2>1, <2>4 DEF SocksRec
      <3> QED
        BY <1>0, <1>2, <2>3, <2>4, <3>1
    <2>5. CASE /\ ~socks[k].hs /\ socks' = [socks EXCEPT ![k].idle = 0]
               /\ wire' = wire \o Sent(n, socks[k].relay, "relay", socks[k].to)
      <3>1. SentOut(n, socks[k].relay, "relay", socks[k].to)
        BY <2>1, <2>5, SendsOut
      <3> QED
        BY <1>0, <1>2, <2>3, <2>5, <3>1
    <2> QED
      BY <1>2, <2>2, <2>4, <2>5 DEF forward_udp_socks
  <1>3. CASE /\ k \notin DOMAIN socks
             /\ socks' = Put(socks, k,
                   [ctrl |-> next_token, relay |-> next_token + 1, to |-> to, idle |-> 0,
                    age |-> 0, connecting |-> TRUE, hs |-> TRUE, pending |-> <<n>>,
                    reply |-> "none", closed |-> FALSE, event |-> FALSE])
             /\ routes' = Put(Put(routes, next_token, [kind |-> "ctrl", key |-> k]),
                              next_token + 1, [kind |-> "relay", key |-> k])
             /\ next_token' = next_token + 2
             /\ UNCHANGED wire
    <2>1. PICK p : p = <<n>>
      OBVIOUS
    <2>2. p \in Seq(Nat) /\ Len(p) = 1
      BY <2>1
    <2>3. PICK s : s = [ctrl |-> next_token, relay |-> next_token + 1, to |-> to, idle |-> 0,
                        age |-> 0, connecting |-> TRUE, hs |-> TRUE, pending |-> p,
                        reply |-> "none", closed |-> FALSE, event |-> FALSE]
      OBVIOUS
    <2>4. s \in SocksRec
      BY <1>1, <2>2, <2>3, UdpAssumption DEF SocksRec
    <2>5. /\ s.ctrl = next_token /\ s.relay = next_token + 1 /\ s.hs /\ s.pending = p /\ s.to = to
      BY <2>3
    <2>6. socks' = Put(socks, k, s)
      BY <1>3, <2>1, <2>3
    <2>7. /\ DOMAIN socks' = DOMAIN socks \union {k} /\ socks' \in [DOMAIN socks' -> SocksRec]
          /\ socks'[k] = s
          /\ \A j \in DOMAIN socks : socks'[j] = socks[j]
      BY <1>1, <1>3, <2>4, <2>6 DEF Put
    <2>8. SocksOK'
      <3>1. Len(socks'[k].pending) <= PendingCap
        <4>1. socks'[k].pending = p /\ Len(p) = 1
          BY <2>2, <2>5, <2>7
        <4>2. PendingCap >= 1
          BY UdpAssumption
        <4> QED
          BY <4>1, <4>2
      <3>2. \A j \in DOMAIN socks : Len(socks'[j].pending) <= PendingCap
        BY <1>1, <2>7
      <3>3. \A j \in DOMAIN socks' : Len(socks'[j].pending) <= PendingCap
        BY <2>7, <3>1, <3>2, Zenon
      <3> QED
        BY <1>1, <2>7, <3>3 DEF SocksOK
    <2>9. /\ routes \in [DOMAIN routes -> Route] /\ DOMAIN routes \subseteq 1..(next_token - 1)
          /\ next_token \notin DOMAIN routes /\ next_token + 1 \notin DOMAIN routes
      BY FreshToken DEF Typed, RoutesOK
    <2>10. PICK c : c = [kind |-> "ctrl", key |-> k]
      OBVIOUS
    <2>11. PICK r : r = [kind |-> "relay", key |-> k]
      OBVIOUS
    <2>12. c \in Route /\ r \in Route
      BY <2>10, <2>11 DEF Route
    <2>13. routes' = Put(Put(routes, next_token, c), next_token + 1, r)
      BY <1>3, <2>10, <2>11
    <2>14. /\ DOMAIN routes' = DOMAIN routes \union {next_token, next_token + 1}
           /\ routes' \in [DOMAIN routes' -> Route]
           /\ routes'[next_token] = c /\ routes'[next_token + 1] = r
           /\ \A t \in DOMAIN routes : routes'[t] = routes[t]
      BY <1>1, <2>9, <2>12, <2>13 DEF Put
    <2>15. RoutesOK'
      BY <1>1, <1>3, <2>9, <2>14 DEF RoutesOK
    <2> QED
      BY <1>0, <1>3, <1>5, <2>1, <2>5, <2>7, <2>8, <2>10, <2>11, <2>14, <2>15 DEF SocksAdds
  <1>4. CASE UNCHANGED <<socks, routes, wire>> /\ next_token' \in {next_token, next_token + 1}
    BY <1>0, <1>4
  <1> QED
    BY <1>2, <1>3, <1>4, <1>5 DEF forward_udp_socks

-----------------------------------------------------------------------------
(* The rest of the steps *)

\* No job comes nearer to sending its query.
JobsKept ==
    /\ JobsSame
    /\ \A t \in DOMAIN jobs : jobs'[t].stage # "Answer" => jobs[t].stage # "Answer"

\* Nothing comes, goes or moves.
Kept ==
    /\ UdpSame /\ SocksKept /\ JobsKept
    /\ RoutesOK' /\ routes' = routes /\ next_token' >= next_token

LEMMA UdpStays ==
    ASSUME Typed, UNCHANGED udp PROVE UdpSame
  BY DEF Typed, UdpOK, UdpSame

LEMMA SocksStay ==
    ASSUME Typed, UNCHANGED socks PROVE SocksKept
  BY DEF Typed, SocksOK, SocksSame, SocksKept

LEMMA JobsStay ==
    ASSUME Typed, UNCHANGED jobs PROVE JobsKept
  BY DEF Typed, JobsOK, JobsSame, JobsKept

LEMMA RoutesStay ==
    ASSUME Typed, UNCHANGED routes, next_token' \in {next_token, next_token + 1}
    PROVE  RoutesOK' /\ routes' = routes /\ next_token' >= next_token
  BY DEF Typed, RoutesOK

\* A field or two of one association change, but not its handshake.
LEMMA SocksTouched ==
    ASSUME Typed, NEW k \in DOMAIN socks, NEW s, s \in SocksRec,
           s.ctrl = socks[k].ctrl, s.relay = socks[k].relay, s.hs = socks[k].hs,
           s.pending = socks[k].pending, s.to = socks[k].to, socks' = [socks EXCEPT ![k] = s]
    PROVE  SocksKept
  <1>1. /\ socks \in [DOMAIN socks -> SocksRec] /\ DOMAIN socks \subseteq Keys
        /\ \A j \in DOMAIN socks : Len(socks[j].pending) <= PendingCap
    BY DEF Typed, SocksOK
  <1>2. /\ DOMAIN socks' = DOMAIN socks /\ socks' \in [DOMAIN socks' -> SocksRec]
        /\ socks'[k] = s /\ \A j \in DOMAIN socks \ {k} : socks'[j] = socks[j]
    BY <1>1
  <1>3. \A j \in DOMAIN socks : /\ socks'[j].pending = socks[j].pending /\ socks'[j].hs = socks[j].hs
                                /\ socks'[j].ctrl = socks[j].ctrl /\ socks'[j].relay = socks[j].relay
                                /\ socks'[j].to = socks[j].to
    BY <1>2
  <1> QED
    BY <1>1, <1>2, <1>3 DEF SocksKept, SocksSame, SocksOK

\* Sessions and jobs go, with the routes to them.
Removes(U, S, J) ==
    /\ U \subseteq DOMAIN udp /\ S \subseteq DOMAIN socks /\ J \subseteq DOMAIN jobs
    /\ UdpOK' /\ SocksOK' /\ JobsOK' /\ RoutesOK' /\ next_token' = next_token
    /\ DOMAIN udp' = DOMAIN udp \ U /\ \A k \in DOMAIN udp' : udp'[k] = udp[k]
    /\ DOMAIN socks' = DOMAIN socks \ S /\ \A k \in DOMAIN socks' : socks'[k] = socks[k]
    /\ DOMAIN jobs' = DOMAIN jobs \ J /\ \A t \in DOMAIN jobs' : jobs'[t] = jobs[t]
    /\ DOMAIN routes' = DOMAIN routes \ (Tokens(U, S) \union J)
    /\ \A t \in DOMAIN routes' : routes'[t] = routes[t]

LEMMA Removal ==
    ASSUME Typed, NEW U \in SUBSET DOMAIN udp, NEW S \in SUBSET DOMAIN socks,
           NEW J \in SUBSET DOMAIN jobs,
           udp' = Without(udp, U), socks' = Without(socks, S), jobs' = Without(jobs, J),
           routes' = Without(routes, Tokens(U, S) \union J), next_token' = next_token
    PROVE  Removes(U, S, J)
  <1>1. /\ DOMAIN udp' = DOMAIN udp \ U /\ \A k \in DOMAIN udp' : udp'[k] = udp[k]
        /\ udp' \in [DOMAIN udp' -> UdpRec]
    BY DEF Typed, UdpOK, Without, Restrict
  <1>2. /\ DOMAIN socks' = DOMAIN socks \ S /\ \A k \in DOMAIN socks' : socks'[k] = socks[k]
        /\ socks' \in [DOMAIN socks' -> SocksRec]
    BY DEF Typed, SocksOK, Without, Restrict
  <1>3. /\ DOMAIN jobs' = DOMAIN jobs \ J /\ \A t \in DOMAIN jobs' : jobs'[t] = jobs[t]
        /\ jobs' \in [DOMAIN jobs' -> JobRec]
    BY DEF Typed, JobsOK, Without, Restrict
  <1>4. /\ DOMAIN routes' = DOMAIN routes \ (Tokens(U, S) \union J)
        /\ \A t \in DOMAIN routes' : routes'[t] = routes[t]
        /\ routes' \in [DOMAIN routes' -> Route]
    <2>1. PICK R : R = Tokens(U, S) \union J
      OBVIOUS
    <2>2. routes' = Without(routes, R) /\ routes \in [DOMAIN routes -> Route]
      BY <2>1 DEF Typed, RoutesOK
    <2> QED
      BY <2>1, <2>2 DEF Without, Restrict
  <1>5. UdpOK' /\ JobsOK' /\ RoutesOK'
    BY <1>1, <1>3, <1>4 DEF UdpOK, JobsOK, RoutesOK, Typed
  <1>6. SocksOK'
    BY <1>2 DEF SocksOK, Typed
  <1> QED
    BY <1>1, <1>2, <1>3, <1>4, <1>5, <1>6 DEF Removes

\* The proxy grants association k, and what waited goes out.
Ready(k) ==
    /\ SocksSame /\ k \in DOMAIN socks /\ socks[k].hs
    /\ ~socks'[k].hs /\ socks'[k].pending = <<>>
    /\ \A j \in DOMAIN socks \ {k} : socks'[j] = socks[j]
    /\ wire' \in Seq(Packet) /\ Len(wire') = Len(wire) + Len(socks[k].pending)
    /\ \A i \in 1..Len(wire) : wire'[i] = wire[i]
    /\ \A i \in 1..Len(socks[k].pending) :
         /\ wire'[Len(wire) + i].n = socks[k].pending[i]
         /\ wire'[Len(wire) + i].token = socks[k].relay
         /\ wire'[Len(wire) + i].via = "relay"
         /\ wire'[Len(wire) + i].to = socks[k].to

LEMMA BecomesReady ==
    ASSUME Typed, NEW k \in DOMAIN socks, socks[k].hs, socks_associate_ready(k)
    PROVE  Ready(k)
  <1>1. /\ socks \in [DOMAIN socks -> SocksRec] /\ DOMAIN socks \subseteq Keys
        /\ \A j \in DOMAIN socks : Len(socks[j].pending) <= PendingCap
        /\ wire \in Seq(Packet)
    BY DEF Typed, SocksOK, HistoryOK
  <1>2. PICK s : s = [socks[k] EXCEPT !.hs = FALSE, !.pending = <<>>, !.event = FALSE, !.age = 0]
    OBVIOUS
  <1>3. socks[k] \in SocksRec
    BY <1>1
  <1>4. <<>> \in Seq(Nat) /\ FALSE \in BOOLEAN
    OBVIOUS
  <1>5. /\ s \in SocksRec /\ ~s.hs /\ s.pending = <<>>
        /\ s.ctrl = socks[k].ctrl /\ s.relay = socks[k].relay /\ s.to = socks[k].to
    BY <1>2, <1>3, <1>4 DEF SocksRec
  <1>6. socks' = [socks EXCEPT ![k] = s]
    BY <1>1, <1>2, <1>3 DEF socks_associate_ready, SocksRec
  <1>7. /\ DOMAIN socks' = DOMAIN socks /\ socks' \in [DOMAIN socks' -> SocksRec]
        /\ socks'[k] = s /\ \A j \in DOMAIN socks \ {k} : socks'[j] = socks[j]
    BY <1>1, <1>5, <1>6
  <1>8. Len(s.pending) <= PendingCap
    <2>1. Len(s.pending) = 0
      BY <1>5
    <2> QED
      BY <2>1, UdpAssumption
  <1>9. SocksOK'
    BY <1>1, <1>7, <1>8 DEF SocksOK
  <1>10. SocksSame
    BY <1>5, <1>7, <1>9 DEF SocksSame
  <1>11. PICK w : w = Flushed(socks[k])
    OBVIOUS
  <1>12. /\ w \in Seq(Packet) /\ Len(w) = Len(socks[k].pending)
         /\ \A i \in 1..Len(w) : /\ w[i].n = socks[k].pending[i]
                                 /\ w[i].token = socks[k].relay /\ w[i].via = "relay"
                                 /\ w[i].to = socks[k].to
    <2>1. PICK r : r = socks[k]
      OBVIOUS
    <2>2. r \in SocksRec /\ w = Flushed(r)
      BY <1>3, <1>11, <2>1
    <2>3. /\ w \in Seq(Packet) /\ Len(w) = Len(r.pending)
          /\ \A i \in 1..Len(r.pending) :
               /\ w[i].n = r.pending[i] /\ w[i].token = r.relay /\ w[i].via = "relay"
               /\ w[i].to = r.to
      BY <2>2, FlushedIs
    <2> QED
      BY <2>1, <2>3, Zenon
  <1>13. wire' = wire \o w
    BY <1>11 DEF socks_associate_ready
  <1>14. /\ wire' \in Seq(Packet) /\ Len(wire') = Len(wire) + Len(w)
         /\ \A i \in 1..Len(wire) : wire'[i] = wire[i]
         /\ \A i \in 1..Len(w) : wire'[Len(wire) + i] = w[i]
    <2>1. w \in Seq(Packet) /\ wire \in Seq(Packet)
      BY <1>1, <1>12
    <2> QED
      BY <1>13, <2>1
  <1> QED
    BY <1>5, <1>7, <1>10, <1>12, <1>14 DEF Ready

\* One job's query goes out.
JobSends(t) ==
    /\ JobsSame /\ t \in DOMAIN jobs /\ t \in DOMAIN routes
    /\ jobs[t].stage # "Answer" /\ jobs'[t].stage = "Answer"
    /\ \A u \in DOMAIN jobs \ {t} : jobs'[u] = jobs[u]
    /\ SentOut(jobs[t].n, t, jobs[t].kind, jobs[t].to)

LEMMA RankIs ==
    Rank("Connecting") = 1 /\ Rank("Tunnel") = 2 /\ Rank("Query") = 3 /\ Rank("Answer") = 4
  <1>1. \A i \in 1..4 : \A st \in StageSet : Stages[i] = st =>
          i = IF st = "Connecting" THEN 1 ELSE IF st = "Tunnel" THEN 2
              ELSE IF st = "Query" THEN 3 ELSE 4
    BY DEF Stages, StageSet
  <1>2. DOMAIN Stages = 1..4
    BY DEF Stages
  <1>3. Stages[1] = "Connecting" /\ Stages[2] = "Tunnel" /\ Stages[3] = "Query" /\ Stages[4] = "Answer"
    BY DEF Stages
  <1> QED
    BY <1>1, <1>2, <1>3 DEF Rank, StageSet

LEMMA JobDriven ==
    ASSUME Typed, NEW t \in DOMAIN jobs, t \in DOMAIN routes, drive_job(t),
           UNCHANGED <<udp, socks, next_token>>
    PROVE  \/ JobsKept /\ UNCHANGED <<routes, wire, answers>>
           \/ JobSends(t) /\ UNCHANGED <<routes, answers>>
           \/ /\ Removes({}, {}, {t}) /\ UNCHANGED wire
              /\ answers' = answers \/ (jobs[t].stage = "Answer" /\ Inject(jobs[t].key, jobs[t].n))
  <1>1. jobs \in [DOMAIN jobs -> JobRec] /\ jobs[t] \in JobRec
    BY DEF Typed, JobsOK
  <1>2. ASSUME NEW st, st \in {Stages[i] : i \in Rank(jobs[t].stage)..4}, st # jobs[t].stage,
               jobs' = [jobs EXCEPT ![t].stage = st]
        PROVE  st \in StageSet /\ jobs[t].stage # "Answer"
    <2>1. PICK i \in Rank(jobs[t].stage)..4 : st = Stages[i]
      BY <1>2
    <2>2. jobs[t].stage \in StageSet
      BY <1>1 DEF JobRec
    <2>3. Rank(jobs[t].stage) \in 1..4 /\ (jobs[t].stage = "Answer" => Rank(jobs[t].stage) = 4)
      BY <2>2, RankIs DEF StageSet
    <2>4. i \in 1..4 /\ (jobs[t].stage = "Answer" => i = 4)
      BY <2>1, <2>3
    <2> QED
      BY <1>2, <2>1, <2>4 DEF Stages, StageSet
  <1>3. ASSUME NEW st \in StageSet, jobs' = [jobs EXCEPT ![t].stage = st]
        PROVE  /\ JobsSame /\ jobs'[t].stage = st
               /\ \A u \in DOMAIN jobs \ {t} : jobs'[u] = jobs[u]
    <2>1. PICK j : j = [jobs[t] EXCEPT !.stage = st]
      OBVIOUS
    <2>2. /\ j \in JobRec /\ j.stage = st /\ j.kind = jobs[t].kind /\ j.key = jobs[t].key
          /\ j.n = jobs[t].n /\ j.to = jobs[t].to
      BY <1>1, <2>1 DEF JobRec
    <2>3. jobs' = [jobs EXCEPT ![t] = j]
      BY <1>1, <1>3, <2>1 DEF JobRec
    <2>4. /\ DOMAIN jobs' = DOMAIN jobs /\ jobs' \in [DOMAIN jobs' -> JobRec]
          /\ jobs'[t] = j /\ \A u \in DOMAIN jobs \ {t} : jobs'[u] = jobs[u]
      BY <1>1, <2>2, <2>3
    <2> QED
      BY <2>2, <2>4 DEF JobsSame, JobsOK
  <1>4. CASE /\ UNCHANGED <<routes, answers>>
             /\ \E st \in {Stages[i] : i \in Rank(jobs[t].stage)..4} :
                  /\ st # jobs[t].stage
                  /\ jobs' = [jobs EXCEPT ![t].stage = st]
                  /\ wire' = IF st = "Answer" THEN wire \o Sent(jobs[t].n, t, jobs[t].kind, jobs[t].to)
                             ELSE wire
    <2>1. PICK st \in {Stages[i] : i \in Rank(jobs[t].stage)..4} :
            /\ st # jobs[t].stage
            /\ jobs' = [jobs EXCEPT ![t].stage = st]
            /\ wire' = IF st = "Answer" THEN wire \o Sent(jobs[t].n, t, jobs[t].kind, jobs[t].to)
                       ELSE wire
      BY <1>4
    <2>2. st \in StageSet /\ jobs[t].stage # "Answer"
      BY <1>2, <2>1
    <2>3. JobsSame /\ jobs'[t].stage = st /\ \A u \in DOMAIN jobs \ {t} : jobs'[u] = jobs[u]
      BY <1>3, <2>1, <2>2
    <2>4. CASE st = "Answer"
      <3>1. t \in Nat
        BY DEF Typed, RoutesOK
      <3>2. /\ jobs[t].n \in Nat /\ jobs[t].kind \in {"direct", "relay", "tcp", "tls"}
            /\ jobs[t].to \in Targets
        BY <1>1 DEF JobRec, Targets
      <3>3. SentOut(jobs[t].n, t, jobs[t].kind, jobs[t].to)
        BY <2>1, <2>4, <3>1, <3>2, SendsOut
      <3> QED
        BY <1>4, <2>2, <2>3, <2>4, <3>3 DEF JobSends
    <2>5. CASE st # "Answer"
      <3>1. JobsKept
        BY <2>2, <2>3 DEF JobsKept
      <3> QED
        BY <1>4, <2>1, <2>5, <3>1
    <2> QED
      BY <2>4, <2>5
  <1>5. ASSUME Finish(t)
        PROVE  Removes({}, {}, {t})
    <2>1. /\ \A S : Without(udp, {}) = udp /\ Without(socks, {}) = socks
      BY DEF Without, Restrict, Typed, UdpOK, SocksOK
    <2>2. Tokens({}, {}) \union {t} = {t}
      BY DEF Tokens
    <2>3. /\ udp' = Without(udp, {}) /\ socks' = Without(socks, {}) /\ jobs' = Without(jobs, {t})
          /\ routes' = Without(routes, Tokens({}, {}) \union {t})
      BY <1>5, <2>1, <2>2 DEF Finish
    <2>4. /\ {} \in SUBSET DOMAIN udp /\ {} \in SUBSET DOMAIN jobs /\ {} \in SUBSET DOMAIN socks
      OBVIOUS
    <2>5. {t} \in SUBSET DOMAIN jobs
      OBVIOUS
    <2> QED
      BY <2>3, <2>4, <2>5, Removal
  <1> QED
    BY <1>4, <1>5 DEF drive_job

LEMMA CtrlDriven ==
    ASSUME Typed, NEW k \in Keys, OnCtrl(k)
    PROVE  \/ SocksKept /\ UNCHANGED <<routes, wire>>
           \/ Ready(k) /\ UNCHANGED routes
           \/ Removes({}, {k}, {}) /\ UNCHANGED wire
  <1>1. /\ k \in DOMAIN socks /\ socks[k] \in SocksRec /\ UNCHANGED <<udp, jobs, next_token>>
    BY DEF OnCtrl, Typed, SocksOK
  <1>2. ASSUME teardown_socks(k)
        PROVE  Removes({}, {k}, {})
    <2>1. Without(udp, {}) = udp /\ Without(jobs, {}) = jobs
      BY DEF Without, Restrict, Typed, UdpOK, JobsOK
    <2>2. Tokens({}, {k}) \union {} = {socks[k].ctrl, socks[k].relay}
      BY DEF Tokens
    <2>3. /\ udp' = Without(udp, {}) /\ socks' = Without(socks, {k}) /\ jobs' = Without(jobs, {})
          /\ routes' = Without(routes, Tokens({}, {k}) \union {}) /\ next_token' = next_token
      BY <1>1, <1>2, <2>1, <2>2 DEF teardown_socks
    <2>4. /\ {} \in SUBSET DOMAIN udp /\ {} \in SUBSET DOMAIN jobs /\ {} \in SUBSET DOMAIN socks
      OBVIOUS
    <2>5. {k} \in SUBSET DOMAIN socks
      BY <1>1
    <2> QED
      BY <2>3, <2>4, <2>5, Removal
  <1>3. ASSUME socks' = [socks EXCEPT ![k].event = FALSE]
        PROVE  SocksKept
    <2>1. PICK s : s = [socks[k] EXCEPT !.event = FALSE]
      OBVIOUS
    <2>2. /\ s \in SocksRec /\ s.ctrl = socks[k].ctrl /\ s.relay = socks[k].relay
          /\ s.hs = socks[k].hs /\ s.pending = socks[k].pending /\ s.to = socks[k].to
      BY <1>1, <2>1 DEF SocksRec
    <2>3. socks' = [socks EXCEPT ![k] = s]
      BY <1>1, <1>3, <2>1 DEF Typed, SocksOK, SocksRec
    <2> QED
      BY <1>1, <2>2, <2>3, SocksTouched
  <1>4. ASSUME socks' = [socks EXCEPT ![k].connecting = FALSE, ![k].event = FALSE]
        PROVE  SocksKept
    <2>1. PICK s : s = [socks[k] EXCEPT !.connecting = FALSE, !.event = FALSE]
      OBVIOUS
    <2>2. /\ s \in SocksRec /\ s.ctrl = socks[k].ctrl /\ s.relay = socks[k].relay
          /\ s.hs = socks[k].hs /\ s.pending = socks[k].pending /\ s.to = socks[k].to
      BY <1>1, <2>1 DEF SocksRec
    <2>3. socks' = [socks EXCEPT ![k] = s]
      BY <1>1, <1>4, <2>1 DEF Typed, SocksOK, SocksRec
    <2> QED
      BY <1>1, <2>2, <2>3, SocksTouched
  <1>5. CASE socks[k].hs
    <2>1. drive_socks_ctrl(k)
      BY <1>5 DEF OnCtrl
    <2>2. \/ teardown_socks(k) /\ UNCHANGED wire
          \/ socks_associate_ready(k)
          \/ /\ socks' = [socks EXCEPT ![k].connecting = FALSE, ![k].event = FALSE]
             /\ UNCHANGED <<routes, wire>>
      BY <2>1 DEF drive_socks_ctrl
    <2> QED
      BY <1>1, <1>2, <1>4, <1>5, <2>2, BecomesReady DEF socks_associate_ready
  <1>6. CASE ~socks[k].hs
    BY <1>2, <1>3, <1>6 DEF OnCtrl
  <1> QED
    BY <1>5, <1>6

LEMMA SocksRecTicks ==
    ASSUME NEW s \in SocksRec
    PROVE  /\ [s EXCEPT !.idle = AtMost(@ + 1, Idle + 1),
                        !.age = IF s.hs THEN AtMost(@ + 1, HsTimeout + 2) ELSE 0] \in SocksRec
           /\ \A r : r = [s EXCEPT !.idle = AtMost(@ + 1, Idle + 1),
                                   !.age = IF s.hs THEN AtMost(@ + 1, HsTimeout + 2) ELSE 0]
                => /\ r.ctrl = s.ctrl /\ r.relay = s.relay /\ r.hs = s.hs /\ r.pending = s.pending
                   /\ r.to = s.to
  <1>1. s.idle \in 0..Idle + 1 /\ s.age \in Nat
    BY DEF SocksRec
  <1>2. /\ AtMost(s.idle + 1, Idle + 1) \in 0..Idle + 1
        /\ (IF s.hs THEN AtMost(s.age + 1, HsTimeout + 2) ELSE 0) \in Nat
    BY <1>1, UdpAssumption DEF AtMost
  <1>3. PICK a : a = AtMost(s.idle + 1, Idle + 1)
    OBVIOUS
  <1>4. PICK b : b = IF s.hs THEN AtMost(s.age + 1, HsTimeout + 2) ELSE 0
    OBVIOUS
  <1>5. [s EXCEPT !.idle = a, !.age = b] \in SocksRec
    BY <1>2, <1>3, <1>4 DEF SocksRec
  <1> QED
    BY <1>3, <1>4, <1>5 DEF SocksRec

LEMMA Ticks ==
    ASSUME Typed, Tick
    PROVE  Kept
  <1>1. UdpSame
    <2>1. udp \in [DOMAIN udp -> UdpRec] /\ DOMAIN udp \subseteq Keys
      BY DEF Typed, UdpOK
    <2>2. \A k \in DOMAIN udp : /\ AtMost(udp[k].idle + 1, Idle + 1) \in 0..Idle + 1
                                /\ [udp[k] EXCEPT !.idle = AtMost(@ + 1, Idle + 1)] \in UdpRec
                                /\ [udp[k] EXCEPT !.idle = AtMost(@ + 1, Idle + 1)].token = udp[k].token
                                /\ [udp[k] EXCEPT !.idle = AtMost(@ + 1, Idle + 1)].to = udp[k].to
      BY <2>1, UdpAssumption DEF UdpRec, AtMost
    <2>3. udp' = [k \in DOMAIN udp |-> [udp[k] EXCEPT !.idle = AtMost(@ + 1, Idle + 1)]]
      BY DEF Tick
    <2> QED
      BY <2>1, <2>2, <2>3 DEF UdpSame, UdpOK
  <1>2. SocksKept
    <2>1. /\ socks \in [DOMAIN socks -> SocksRec] /\ DOMAIN socks \subseteq Keys
          /\ \A k \in DOMAIN socks : Len(socks[k].pending) <= PendingCap
      BY DEF Typed, SocksOK
    <2>2. socks' = [k \in DOMAIN socks |-> [socks[k] EXCEPT
                      !.idle = AtMost(@ + 1, Idle + 1),
                      !.age = IF socks[k].hs THEN AtMost(@ + 1, HsTimeout + 2) ELSE 0]]
      BY DEF Tick
    <2>3. DOMAIN socks' = DOMAIN socks
      BY <2>2
    <2>4. ASSUME NEW k \in DOMAIN socks
          PROVE  /\ socks'[k] \in SocksRec
                 /\ socks'[k].ctrl = socks[k].ctrl /\ socks'[k].relay = socks[k].relay
                 /\ socks'[k].hs = socks[k].hs /\ socks'[k].pending = socks[k].pending
                 /\ socks'[k].to = socks[k].to
      <3>1. PICK s : s = socks[k]
        OBVIOUS
      <3>2. s \in SocksRec
        BY <2>1, <3>1
      <3>3. socks'[k] = [s EXCEPT !.idle = AtMost(@ + 1, Idle + 1),
                                  !.age = IF s.hs THEN AtMost(@ + 1, HsTimeout + 2) ELSE 0]
        BY <2>2, <3>1
      <3>4. PICK r : r = socks'[k]
        OBVIOUS
      <3>5. r \in SocksRec /\ r.ctrl = s.ctrl /\ r.relay = s.relay /\ r.hs = s.hs
            /\ r.pending = s.pending /\ r.to = s.to
        BY <3>2, <3>3, <3>4, SocksRecTicks
      <3> QED
        BY <3>1, <3>4, <3>5
    <2>5. socks' \in [DOMAIN socks' -> SocksRec]
      BY <2>2, <2>3, <2>4
    <2>6. SocksOK'
      BY <2>1, <2>3, <2>4, <2>5 DEF SocksOK
    <2> QED
      BY <2>3, <2>4, <2>6 DEF SocksKept, SocksSame
  <1>3. JobsKept
    <2>1. jobs \in [DOMAIN jobs -> JobRec]
      BY DEF Typed, JobsOK
    <2>2. ASSUME NEW t \in DOMAIN jobs, NEW a \in Nat, NEW j, j = [jobs[t] EXCEPT !.age = a]
          PROVE  j \in JobRec /\ j.kind = jobs[t].kind /\ j.key = jobs[t].key /\ j.n = jobs[t].n
                 /\ j.stage = jobs[t].stage /\ j.to = jobs[t].to
      BY <2>1, <2>2 DEF JobRec
    <2>3. \A t \in DOMAIN jobs : AtMost(jobs[t].age + 1, JobTimeout[jobs[t].kind] + 1) \in Nat
      BY <2>1, UdpAssumption DEF JobRec, AtMost
    <2>4. jobs' = [t \in DOMAIN jobs |-> [jobs[t] EXCEPT
                     !.age = AtMost(@ + 1, JobTimeout[jobs[t].kind] + 1)]]
      BY DEF Tick
    <2>5. DOMAIN jobs' = DOMAIN jobs
          /\ \A t \in DOMAIN jobs : /\ jobs'[t] \in JobRec /\ jobs'[t].kind = jobs[t].kind
                                    /\ jobs'[t].key = jobs[t].key /\ jobs'[t].n = jobs[t].n
                                    /\ jobs'[t].stage = jobs[t].stage /\ jobs'[t].to = jobs[t].to
      BY <2>2, <2>3, <2>4
    <2>6. jobs' \in [DOMAIN jobs' -> JobRec]
      BY <2>4, <2>5
    <2> QED
      BY <2>5, <2>6 DEF JobsKept, JobsSame, JobsOK
  <1>4. RoutesOK' /\ routes' = routes /\ next_token' >= next_token
    BY RoutesStay DEF Tick
  <1> QED
    BY <1>1, <1>2, <1>3, <1>4 DEF Kept

LEMMA CtrlEvents ==
    ASSUME Typed, NEW k \in Keys,
           \/ CtrlConnects(k) \/ CtrlCloses(k)
           \/ \E r \in {"granted", "refused", "unusable"} : CtrlReplies(k, r)
    PROVE  Kept
  <1>1. k \in DOMAIN socks /\ socks[k] \in SocksRec /\ socks \in [DOMAIN socks -> SocksRec]
    BY DEF Typed, SocksOK, CtrlConnects, CtrlCloses, CtrlReplies
  <1>2. PICK c \in BOOLEAN, r \in {"none", "granted", "refused", "unusable"} :
          socks' = [socks EXCEPT ![k] = [socks[k] EXCEPT !.closed = c, !.reply = r, !.event = TRUE]]
    <2>1. CASE CtrlConnects(k)
      <3>1. socks' = [socks EXCEPT ![k] = [socks[k] EXCEPT !.closed = socks[k].closed,
                                             !.reply = socks[k].reply, !.event = TRUE]]
        BY <1>1, <2>1 DEF CtrlConnects, SocksRec
      <3>2. socks[k].closed \in BOOLEAN
            /\ socks[k].reply \in {"none", "granted", "refused", "unusable"}
        BY <1>1 DEF SocksRec
      <3> QED
        BY <3>1, <3>2
    <2>2. CASE CtrlCloses(k)
      <3>1. socks' = [socks EXCEPT ![k] = [socks[k] EXCEPT !.closed = TRUE,
                                             !.reply = socks[k].reply, !.event = TRUE]]
        BY <1>1, <2>2 DEF CtrlCloses, SocksRec
      <3>2. socks[k].reply \in {"none", "granted", "refused", "unusable"}
        BY <1>1 DEF SocksRec
      <3> QED
        BY <3>1, <3>2
    <2>3. ASSUME NEW r \in {"granted", "refused", "unusable"}, CtrlReplies(k, r)
          PROVE  \E c \in BOOLEAN, q \in {"none", "granted", "refused", "unusable"} :
                   socks' = [socks EXCEPT ![k] = [socks[k] EXCEPT !.closed = c, !.reply = q,
                                                                  !.event = TRUE]]
      <3>1. socks' = [socks EXCEPT ![k] = [socks[k] EXCEPT !.closed = socks[k].closed,
                                             !.reply = r, !.event = TRUE]]
        BY <1>1, <2>3 DEF CtrlReplies, SocksRec
      <3>2. socks[k].closed \in BOOLEAN
        BY <1>1 DEF SocksRec
      <3> QED
        BY <3>1, <3>2
    <2> QED
      BY <2>1, <2>2, <2>3
  <1>3. PICK s : s = [socks[k] EXCEPT !.closed = c, !.reply = r, !.event = TRUE]
    OBVIOUS
  <1>4. /\ s \in SocksRec /\ s.ctrl = socks[k].ctrl /\ s.relay = socks[k].relay
        /\ s.hs = socks[k].hs /\ s.pending = socks[k].pending /\ s.to = socks[k].to
    BY <1>1, <1>3 DEF SocksRec
  <1>5. SocksKept
    BY <1>1, <1>2, <1>3, <1>4, SocksTouched
  <1>6. UNCHANGED <<udp, jobs, routes, next_token>>
    BY DEF CtrlConnects, CtrlCloses, CtrlReplies, Still
  <1> QED
    BY <1>5, <1>6, UdpStays, JobsStay, RoutesStay DEF Kept

-----------------------------------------------------------------------------
(* What a step of the system is *)

RoutesKept == RoutesOK' /\ routes' = routes /\ next_token' >= next_token

\* Datagram n of those asked is one of key k and may leave by via, under proxy p.
May(p, ask, k, n, via) == n \in 1..Len(ask) /\ ask[n].key = k /\ via \in Ways(p, ask[n])

\* The datagram just taken may.
Way(k, via) == May(proxy, asked', k, Len(asked) + 1, via)

LEMMA WaysTaken ==
    ASSUME Typed, NEW k \in Keys, Taken(k), proxy # "broken", k \notin Dns => proxy # "http"
    PROVE  /\ proxy = "socks5" /\ (k \in Dns => ThroughProxy(k)) => Way(k, "relay")
           /\ k \in Dns /\ ThroughProxy(k) => Way(k, "tcp")
           /\ k \in Dns /\ ~ThroughProxy(k) /\ dns.transport # "plain" => Way(k, "tls")
           /\ ~ThroughProxy(k) /\ (k \in Dns => dns.transport = "plain")
              /\ (k \notin Dns => proxy # "socks5") => Way(k, "direct")
  <1>1. PICK a : a = asked'[Len(asked) + 1]
    OBVIOUS
  <1>2. /\ Len(asked) + 1 \in 1..Len(asked') /\ a.key = k
        /\ (a.through <=> ThroughProxy(k)) /\ a.transport = dns.transport
    BY <1>1, AskedGrows, Zenon DEF JustTaken
  <1>3. \A via : via \in Ways(proxy, a) => Way(k, via)
    BY <1>1, <1>2 DEF Way, May
  <1>4. k \notin Dns => proxy \in {"none", "socks5"}
    BY UdpAssumption DEF Typed, ConfigOK
  <1>5. CASE k \in Dns /\ ThroughProxy(k)
    <2>1. Ways(proxy, a) = {"relay", "tcp"}
      BY <1>2, <1>5 DEF Ways
    <2> QED
      BY <1>3, <1>5, <2>1
  <1>6. CASE k \in Dns /\ ~ThroughProxy(k)
    <2>1. Ways(proxy, a) = IF dns.transport = "plain" THEN {"direct"} ELSE {"tls"}
      BY <1>2, <1>6 DEF Ways
    <2> QED
      BY <1>3, <1>6, <2>1
  <1>7. CASE k \notin Dns
    <2>1. Ways(proxy, a) = [none |-> {"direct"}, socks5 |-> {"relay"}, http |-> {}][proxy]
      BY <1>2, <1>7 DEF Ways
    <2>2. /\ proxy = "none" => "direct" \in Ways(proxy, a)
          /\ proxy = "socks5" => "relay" \in Ways(proxy, a)
      BY <2>1
    <2> QED
      BY <1>3, <1>4, <1>7, <2>2
  <1> QED
    BY <1>5, <1>6, <1>7

\* Only DNS queries become jobs.
LEMMA OnlyQueries ==
    ASSUME Typed, NEW k \in Keys, Taken(k), NEW kind \in {"tcp", "tls"}, Way(k, kind)
    PROVE  k \in Dns
  <1>1. PICK a : a = asked'[Len(asked) + 1]
    OBVIOUS
  <1>2. a.key = k
    BY <1>1, AskedGrows DEF JustTaken
  <1>3. kind \in Ways(proxy, a)
    BY <1>1 DEF Way, May
  <1>4. proxy = "broken" \/ proxy \in {"none", "socks5", "http"}
    BY UdpAssumption DEF Typed, ConfigOK
  <1>5. CASE k \notin Dns /\ proxy # "broken"
    <2>1. Ways(proxy, a) = [none |-> {"direct"}, socks5 |-> {"relay"}, http |-> {}][proxy]
      BY <1>2, <1>5 DEF Ways
    <2>2. Ways(proxy, a) \subseteq {"direct", "relay"}
      BY <1>4, <1>5, <2>1
    <2> QED
      BY <1>3, <2>2
  <1>6. CASE proxy = "broken"
    BY <1>3, <1>6 DEF Ways
  <1> QED
    BY <1>5, <1>6

\* A datagram of key k takes its path.
DatagramStep(k) ==
    LET n == Len(asked) + 1 IN
    /\ Taken(k)
    /\ \/ Kept /\ UNCHANGED wire /\ (UNCHANGED answers \/ Inject(k, n))
       \/ /\ Way(k, "relay") /\ UNCHANGED answers /\ UdpSame /\ JobsKept
          /\ \/ Waits(k, n) /\ RoutesKept /\ UNCHANGED wire
             \/ /\ k \in DOMAIN socks /\ ~socks[k].hs /\ SocksKept /\ RoutesKept
                /\ SentOut(n, socks[k].relay, "relay", socks[k].to)
             \/ SocksAdds(k, n) /\ UNCHANGED wire
       \/ /\ UNCHANGED <<answers, wire>> /\ UdpSame /\ SocksKept
          /\ \E kind \in {"tcp", "tls"} : Way(k, kind) /\ JobAdds(k, n, kind) /\ ~Capped(kind)
       \/ /\ Way(k, "direct") /\ UNCHANGED answers /\ SocksKept /\ JobsKept
          /\ \/ /\ k \in DOMAIN udp /\ UdpSame /\ RoutesKept
                /\ SentOut(n, udp[k].token, "direct", udp[k].to)
             \/ UdpAdds(k) /\ SentOut(n, next_token, "direct", Goal(k))

Step ==
    \/ /\ Kept /\ UNCHANGED <<asked, wire>>
       /\ \/ UNCHANGED answers
          \/ \E k \in DOMAIN socks, n \in 1..Len(asked) :
               SentOn(socks[k].relay, n) /\ Inject(k, n)
          \/ \E k \in DOMAIN udp, n \in 1..Len(asked) :
               SentOn(udp[k].token, n) /\ Inject(k, n)
    \/ \E k \in Keys : DatagramStep(k)
    \/ \E k \in Keys : /\ Ready(k) /\ UdpSame /\ JobsKept /\ RoutesKept
                       /\ UNCHANGED <<asked, answers>>
    \/ \E t \in DOMAIN jobs : /\ JobSends(t) /\ UdpSame /\ SocksKept /\ RoutesKept
                              /\ UNCHANGED <<asked, answers>>
    \/ \E U, S, J : /\ Removes(U, S, J) /\ UNCHANGED <<asked, wire>>
                    /\ \/ UNCHANGED answers
                       \/ \E t \in DOMAIN jobs : J = {t} /\ Inject(jobs[t].key, jobs[t].n)

LEMMA Stays ==
    ASSUME Typed, UNCHANGED <<udp, socks, jobs, routes, next_token>>
    PROVE  Kept
  BY UdpStays, SocksStay, JobsStay, RoutesStay DEF Kept

LEMMA DatagramSteps ==
    ASSUME Typed, DOMAIN jobs \subseteq DOMAIN routes, NEW k \in Keys, OnDatagram(k)
    PROVE  DatagramStep(k) /\ UNCHANGED unsupported
  <1> DEFINE n == Len(asked) + 1
  <1>1. Taken(k) /\ n \in Nat
    BY DatagramCases, AskedGrows
  <1>2. CASE Dropped /\ (UNCHANGED answers \/ Inject(k, n))
    BY <1>1, <1>2, Stays DEF Dropped, tables, DatagramStep
  <1>3. ASSUME Way(k, "relay"), UNCHANGED answers, forward_udp_socks(k, n, Goal(k))
        PROVE  DatagramStep(k) /\ UNCHANGED unsupported
    <2>1. /\ UNCHANGED <<unsupported, udp, jobs>>
          /\ \/ Waits(k, n) /\ UNCHANGED <<routes, next_token, wire>>
             \/ SocksKept /\ UNCHANGED <<routes, next_token, wire>>
             \/ /\ k \in DOMAIN socks /\ ~socks[k].hs /\ SocksKept
                /\ UNCHANGED <<routes, next_token>> /\ SentOut(n, socks[k].relay, "relay", socks[k].to)
             \/ SocksAdds(k, n) /\ UNCHANGED wire
             \/ UNCHANGED <<socks, routes, wire>> /\ next_token' \in {next_token, next_token + 1}
      BY <1>1, <1>3, SocksForwarded
    <2>2. UdpSame /\ JobsKept
      BY <2>1, UdpStays, JobsStay
    <2>3. CASE UNCHANGED <<routes, next_token>>
      <3>1. RoutesKept
        BY <2>3, RoutesStay DEF RoutesKept
      <3> QED
        BY <1>1, <1>3, <2>1, <2>2, <2>3, <3>1, SocksStay DEF DatagramStep, Kept, RoutesKept
    <2>4. CASE SocksAdds(k, n) /\ UNCHANGED wire
      BY <1>1, <1>3, <2>1, <2>2, <2>4 DEF DatagramStep
    <2>5. CASE UNCHANGED <<socks, routes, wire>> /\ next_token' \in {next_token, next_token + 1}
      <3>1. Kept
        BY <2>2, <2>5, SocksStay, RoutesStay DEF Kept
      <3> QED
        BY <1>1, <1>3, <2>1, <2>5, <3>1 DEF DatagramStep
    <2> QED
      BY <2>1, <2>3, <2>4, <2>5
  <1>4. ASSUME NEW kind \in {"tcp", "tls"}, Way(k, kind), UNCHANGED answers, StartJob(k, n, kind)
        PROVE  DatagramStep(k) /\ UNCHANGED unsupported
    <2>1. /\ UNCHANGED <<unsupported, udp, socks, wire>>
          /\ \/ JobAdds(k, n, kind) /\ ~Capped(kind)
             \/ UNCHANGED <<jobs, routes, next_token>>
      BY <1>1, <1>4, JobStarted
    <2>2. CASE JobAdds(k, n, kind) /\ ~Capped(kind)
      BY <1>1, <1>4, <2>1, <2>2, UdpStays, SocksStay DEF DatagramStep
    <2>3. CASE UNCHANGED <<jobs, routes, next_token>>
      BY <1>1, <1>4, <2>1, <2>3, Stays DEF DatagramStep
    <2> QED
      BY <2>1, <2>2, <2>3
  <1>5. ASSUME Way(k, "direct"), UNCHANGED answers, forward_udp(k, n, Goal(k))
        PROVE  DatagramStep(k) /\ UNCHANGED unsupported
    <2>1. /\ UNCHANGED <<unsupported, socks, jobs>>
          /\ \/ /\ k \in DOMAIN udp /\ UdpSame /\ UNCHANGED <<routes, next_token>>
                /\ SentOut(n, udp[k].token, "direct", udp[k].to)
             \/ UdpAdds(k) /\ SentOut(n, next_token, "direct", Goal(k))
             \/ UNCHANGED <<udp, routes, next_token, wire>>
      BY <1>1, <1>5, UdpForwarded
    <2>2. SocksKept /\ JobsKept
      BY <2>1, SocksStay, JobsStay
    <2>3. CASE /\ k \in DOMAIN udp /\ UdpSame /\ UNCHANGED <<routes, next_token>>
               /\ SentOut(n, udp[k].token, "direct", udp[k].to)
      <3>1. RoutesKept
        BY <2>3, RoutesStay DEF RoutesKept
      <3> QED
        BY <1>1, <1>5, <2>1, <2>2, <2>3, <3>1 DEF DatagramStep
    <2>4. CASE UdpAdds(k) /\ SentOut(n, next_token, "direct", Goal(k))
      BY <1>1, <1>5, <2>1, <2>2, <2>4 DEF DatagramStep
    <2>5. CASE UNCHANGED <<udp, routes, next_token, wire>>
      BY <1>1, <1>5, <2>1, <2>5, Stays DEF DatagramStep
    <2> QED
      BY <2>1, <2>3, <2>4, <2>5
  <1>6. \/ Dropped /\ UNCHANGED answers
        \/ Dropped /\ Inject(k, n)
        \/ /\ proxy # "broken" /\ (k \notin Dns => proxy # "http") /\ UNCHANGED answers
           /\ \/ /\ proxy = "socks5" /\ (k \in Dns => ThroughProxy(k))
                 /\ forward_udp_socks(k, n, Goal(k))
              \/ k \in Dns /\ ThroughProxy(k) /\ StartJob(k, n, "tcp")
              \/ k \in Dns /\ ~ThroughProxy(k) /\ dns.transport # "plain" /\ StartJob(k, n, "tls")
              \/ /\ ~ThroughProxy(k) /\ (k \in Dns => dns.transport = "plain")
                 /\ k \notin Dns => proxy # "socks5"
                 /\ forward_udp(k, n, Goal(k))
    BY DatagramCases
  <1>7. Dropped => UNCHANGED unsupported
    BY DEF Dropped, tables
  <1>8. CASE Dropped /\ (UNCHANGED answers \/ Inject(k, n))
    BY <1>2, <1>7, <1>8
  <1>9. CASE proxy # "broken" /\ (k \notin Dns => proxy # "http")
    BY <1>1, <1>3, <1>4, <1>5, <1>6, <1>8, <1>9, WaysTaken
  <1> QED
    BY <1>6, <1>8, <1>9

LEMMA Steps ==
    ASSUME Typed, DOMAIN jobs \subseteq DOMAIN routes, [Next]_vars
    PROVE  Step /\ ConfigOK' /\ proxy' = proxy
  <1>0. ConfigOK
    BY DEF Typed
  <1>1. ASSUME NEW k \in Keys, OnDatagram(k)
        PROVE  Step /\ ConfigOK' /\ proxy' = proxy
    <2>1. DatagramStep(k) /\ UNCHANGED unsupported
      BY <1>1, DatagramSteps
    <2>2. UNCHANGED config
      BY <2>1 DEF DatagramStep, Taken
    <2> QED
      BY <1>0, <2>1, <2>2 DEF Step, ConfigOK, config
  <1>2. ASSUME NEW k \in Keys, OnCtrl(k)
        PROVE  Step /\ ConfigOK' /\ proxy' = proxy
    <2>1. UNCHANGED <<config, udp, jobs, next_token, asked, answers>> /\ unsupported' \in BOOLEAN
      BY <1>0, <1>2 DEF OnCtrl, drive_socks_ctrl, ConfigOK
    <2>2. UdpSame /\ JobsKept
      BY <2>1, UdpStays, JobsStay
    <2>3. UNCHANGED routes => RoutesKept
      BY <2>1, RoutesStay DEF RoutesKept
    <2>4. Step
      BY <1>2, <2>1, <2>2, <2>3, CtrlDriven DEF Step, Kept, RoutesKept
    <2> QED
      BY <1>0, <2>1, <2>4 DEF ConfigOK, config
  <1>3. ASSUME NEW k \in Keys,
               \/ CtrlConnects(k) \/ CtrlCloses(k)
               \/ \E r \in {"granted", "refused", "unusable"} : CtrlReplies(k, r)
        PROVE  Step /\ ConfigOK' /\ proxy' = proxy
    <2>1. UNCHANGED <<config, unsupported, asked, wire, answers>>
      BY <1>3 DEF CtrlConnects, CtrlCloses, CtrlReplies, Still
    <2> QED
      BY <1>0, <1>3, <2>1, CtrlEvents DEF Step, ConfigOK, config
  <1>4. ASSUME NEW k \in Keys, NEW n \in 1..Len(asked), OnRelay(k, n)
        PROVE  Step /\ ConfigOK' /\ proxy' = proxy
    <2>1. /\ k \in DOMAIN socks /\ socks[k] \in SocksRec
          /\ socks' = [socks EXCEPT ![k].idle = 0] /\ 0 \in 0..Idle + 1
      BY <1>4, UdpAssumption DEF OnRelay, Typed, SocksOK
    <2>2. PICK s : s = [socks[k] EXCEPT !.idle = 0]
      OBVIOUS
    <2>3. /\ s \in SocksRec /\ s.ctrl = socks[k].ctrl /\ s.relay = socks[k].relay
          /\ s.hs = socks[k].hs /\ s.pending = socks[k].pending /\ s.to = socks[k].to
      BY <2>1, <2>2 DEF SocksRec
    <2>4. socks' = [socks EXCEPT ![k] = s]
      BY <2>1, <2>2 DEF Typed, SocksOK, SocksRec
    <2>5. SocksKept
      BY <2>1, <2>3, <2>4, SocksTouched
    <2>6. Kept
      BY <1>4, <2>5, UdpStays, JobsStay, RoutesStay DEF OnRelay, Kept
    <2> QED
      BY <1>0, <1>4, <2>1, <2>6 DEF OnRelay, Step, ConfigOK, config
  <1>5. ASSUME NEW k \in Keys, NEW n \in 1..Len(asked), OnUdp(k, n)
        PROVE  Step /\ ConfigOK' /\ proxy' = proxy
    <2>1. /\ k \in DOMAIN udp /\ udp[k] \in UdpRec
          /\ udp' = [udp EXCEPT ![k].idle = 0] /\ 0 \in 0..Idle + 1
      BY <1>5, UdpAssumption DEF OnUdp, Typed, UdpOK
    <2>2. [udp[k] EXCEPT !.idle = 0] \in UdpRec
      BY <2>1 DEF UdpRec
    <2>3. UdpSame
      BY <2>1, <2>2 DEF UdpSame, UdpOK, UdpRec, Typed
    <2>4. Kept
      BY <1>5, <2>3, SocksStay, JobsStay, RoutesStay DEF OnUdp, Kept
    <2> QED
      BY <1>0, <1>5, <2>1, <2>4 DEF OnUdp, Step, ConfigOK, config
  <1>6. ASSUME NEW t \in DOMAIN jobs, OnJob(t)
        PROVE  Step /\ ConfigOK' /\ proxy' = proxy
    <2>1. /\ t \in DOMAIN routes /\ drive_job(t)
          /\ UNCHANGED <<config, unsupported, udp, socks, next_token, asked>>
      BY <1>6 DEF OnJob
    <2>2. UdpSame /\ SocksKept
      BY <2>1, UdpStays, SocksStay
    <2>3. UNCHANGED routes => RoutesKept
      BY <2>1, RoutesStay DEF RoutesKept
    <2>4. Step
      BY <2>1, <2>2, <2>3, JobDriven DEF Step, Kept, RoutesKept
    <2> QED
      BY <1>0, <2>1, <2>4 DEF ConfigOK, config
  <1>7. ASSUME Service
        PROVE  Step /\ ConfigOK' /\ proxy' = proxy
    <2>1. PICK gone \in SUBSET DOMAIN socks :
                      /\ udp' = Without(udp, IdleUdp)
                      /\ socks' = Without(socks, gone)
                      /\ jobs' = Without(jobs, Late)
                      /\ routes' = Without(routes, Tokens(IdleUdp, gone) \union Late)
      BY <1>7 DEF Service, Stuck
    <2>2. /\ unsupported' \in BOOLEAN /\ UNCHANGED <<config, next_token, asked, wire, answers>>
      BY <1>0, <1>7 DEF Service, ConfigOK
    <2>3. Removes(IdleUdp, gone, Late)
      <3>1. IdleUdp \in SUBSET DOMAIN udp /\ Late \in SUBSET DOMAIN jobs /\ next_token' = next_token
        BY <2>2 DEF IdleUdp, Late
      <3> QED
        BY <2>1, <3>1, Removal
    <2> QED
      BY <1>0, <2>2, <2>3 DEF Step, ConfigOK, config
  <1>8. ASSUME Tick
        PROVE  Step /\ ConfigOK' /\ proxy' = proxy
    <2>1. UNCHANGED <<config, unsupported, asked, wire, answers>>
      BY <1>8 DEF Tick
    <2> QED
      BY <1>0, <1>8, <2>1, Ticks DEF Step, ConfigOK, config
  <1>9. ASSUME set_dns_upstream \/ set_proxy_dns_over_tcp
        PROVE  Step /\ ConfigOK' /\ proxy' = proxy
    <2>1. UNCHANGED <<proxy, tables, asked, wire, answers>>
      BY <1>9 DEF set_dns_upstream, set_proxy_dns_over_tcp
    <2>2. ConfigOK'
      <3>1. changes' \in 0..MaxChanges
        BY <1>0, <1>9, UdpAssumption DEF ConfigOK, set_dns_upstream, set_proxy_dns_over_tcp
      <3> QED
        BY <1>0, <1>9, <2>1, <3>1 DEF ConfigOK, set_dns_upstream, set_proxy_dns_over_tcp, tables
    <2> QED
      BY <2>1, <2>2, Stays DEF Step, tables
  <1>10. CASE UNCHANGED vars
    BY <1>0, <1>10, Stays DEF vars, tables, config, Step, ConfigOK
  <1> QED
    BY <1>1, <1>2, <1>3, <1>4, <1>5, <1>6, <1>7, <1>8, <1>9, <1>10 DEF Next

-----------------------------------------------------------------------------
(* The tables stay matched *)

LEMMA TypedStep ==
    ASSUME Typed, Step, ConfigOK'
    PROVE  Typed'
  <1>1. UdpOK' /\ SocksOK' /\ JobsOK' /\ RoutesOK'
    BY DEF Step, DatagramStep, Kept, RoutesKept, UdpSame, SocksKept, SocksSame, JobsKept, JobsSame,
           Waits, SocksAdds, JobAdds, UdpAdds, Ready, JobSends, Removes
  <1>2. asked' \in Seq(Asked) /\ Len(asked') <= MaxData
    BY AskedGrows DEF Typed, HistoryOK, Step, DatagramStep
  <1>3. wire' \in Seq(Packet)
    BY DEF Typed, HistoryOK, Step, DatagramStep, SentOut, Ready, JobSends
  <1>4. answers' \in Seq(Answer)
    <2>1. ASSUME NEW k \in Keys, NEW n \in Nat, Inject(k, n)
          PROVE  answers' \in Seq(Answer)
      <3>1. PICK a : a = [key |-> k, n |-> n]
        OBVIOUS
      <3>2. a \in Answer /\ answers' = Append(answers, a) /\ answers \in Seq(Answer)
        BY <2>1, <3>1 DEF Answer, Inject, Typed, HistoryOK
      <3> QED
        BY <3>2
    <2>2. /\ answers \in Seq(Answer) /\ Len(asked) \in Nat
          /\ DOMAIN udp \subseteq Keys /\ DOMAIN socks \subseteq Keys
          /\ \A t \in DOMAIN jobs : jobs[t].key \in Keys /\ jobs[t].n \in Nat
      BY DEF Typed, HistoryOK, UdpOK, SocksOK, JobsOK, JobRec
    <2>3. \/ UNCHANGED answers
          \/ \E k \in DOMAIN socks, n \in 1..Len(asked) : Inject(k, n)
          \/ \E k \in DOMAIN udp, n \in 1..Len(asked) : Inject(k, n)
          \/ \E k \in Keys : Inject(k, Len(asked) + 1)
          \/ \E t \in DOMAIN jobs : Inject(jobs[t].key, jobs[t].n)
      BY DEF Step, DatagramStep
    <2>4. CASE \E k \in Keys, n \in Nat : Inject(k, n)
      BY <2>1, <2>4
    <2> QED
      BY <2>2, <2>3, <2>4
  <1> QED
    BY <1>1, <1>2, <1>3, <1>4 DEF Typed, HistoryOK

\* RoutesExact, token by token.
UdpRouted ==
    \A k \in DOMAIN udp : udp[k].token \in DOMAIN routes
                          /\ routes[udp[k].token].kind = "udp" /\ routes[udp[k].token].key = k
SocksRouted ==
    \A k \in DOMAIN socks :
      /\ socks[k].ctrl \in DOMAIN routes /\ socks[k].relay \in DOMAIN routes
      /\ routes[socks[k].ctrl].kind = "ctrl" /\ routes[socks[k].ctrl].key = k
      /\ routes[socks[k].relay].kind = "relay" /\ routes[socks[k].relay].key = k
JobsRouted ==
    \A t \in DOMAIN jobs : t \in DOMAIN routes
                           /\ routes[t].kind = jobs[t].kind /\ routes[t].key = jobs[t].key
NoStray ==
    \A t \in DOMAIN routes :
      \/ \E k \in DOMAIN udp : udp[k].token = t
      \/ \E k \in DOMAIN socks : socks[k].ctrl = t \/ socks[k].relay = t
      \/ t \in DOMAIN jobs
Routed == UdpRouted /\ SocksRouted /\ JobsRouted /\ NoStray

LEMMA InTokens ==
    ASSUME NEW U, NEW S, NEW t
    PROVE  t \in Tokens(U, S) <=> \/ \E k \in U : udp[k].token = t
                                  \/ \E k \in S : socks[k].ctrl = t \/ socks[k].relay = t
  BY DEF Tokens

LEMMA RoutedIsExact ==
    ASSUME Typed, Routed
    PROVE  RoutesExact
  <1>1. \A t \in DOMAIN routes : routes[t] \in Route
    BY DEF Typed, RoutesOK
  <1>2. \A r \in Route : r = [kind |-> r.kind, key |-> r.key]
    BY DEF Route
  <1>3. \A t \in DOMAIN routes : routes[t] = [kind |-> routes[t].kind, key |-> routes[t].key]
    BY <1>1, <1>2
  <1>4. \A k \in DOMAIN udp : udp[k].token \in DOMAIN routes
                             /\ routes[udp[k].token] = [kind |-> "udp", key |-> k]
    BY <1>3 DEF Routed, UdpRouted
  <1>5. \A k \in DOMAIN socks :
         /\ {socks[k].ctrl, socks[k].relay} \subseteq DOMAIN routes
         /\ routes[socks[k].ctrl] = [kind |-> "ctrl", key |-> k]
         /\ routes[socks[k].relay] = [kind |-> "relay", key |-> k]
    BY <1>3 DEF Routed, SocksRouted
  <1>6. \A t \in DOMAIN jobs : t \in DOMAIN routes
                              /\ routes[t] = [kind |-> jobs[t].kind, key |-> jobs[t].key]
    BY <1>3 DEF Routed, JobsRouted
  <1>7. \A t : t \in DOMAIN routes <=> t \in Tokens(DOMAIN udp, DOMAIN socks) \union DOMAIN jobs
    BY InTokens DEF Routed, UdpRouted, SocksRouted, JobsRouted, NoStray
  <1> QED
    BY <1>4, <1>5, <1>6, <1>7 DEF RoutesExact

LEMMA RoutedKept ==
    ASSUME Routed, UdpSame, SocksSame, JobsSame, routes' = routes
    PROVE  Routed'
  BY DEF Routed, UdpRouted, SocksRouted, JobsRouted, NoStray, UdpSame, SocksSame, JobsSame

LEMMA RoutedStep ==
    ASSUME Typed, Routed, Step
    PROVE  Routed'
  <1>0. next_token \notin DOMAIN routes /\ next_token + 1 \notin DOMAIN routes
    BY FreshToken
  <1>1. ASSUME NEW k \in Keys, UdpAdds(k), SocksKept, JobsKept
        PROVE  Routed'
    <2>1. UdpRouted'
      BY <1>0, <1>1 DEF Routed, UdpRouted, UdpAdds, SocksKept, SocksSame, JobsKept, JobsSame
    <2>2. SocksRouted'
      BY <1>0, <1>1 DEF Routed, SocksRouted, UdpAdds, SocksKept, SocksSame, JobsKept, JobsSame
    <2>3. JobsRouted'
      BY <1>0, <1>1 DEF Routed, JobsRouted, UdpAdds, SocksKept, SocksSame, JobsKept, JobsSame
    <2>4. NoStray'
      BY <1>0, <1>1 DEF Routed, NoStray, UdpAdds, SocksKept, SocksSame, JobsKept, JobsSame
    <2> QED
      BY <2>1, <2>2, <2>3, <2>4 DEF Routed
  <1>2. ASSUME NEW k \in Keys, NEW n, SocksAdds(k, n), UdpSame, JobsKept
        PROVE  Routed'
    <2>1. UdpRouted'
      BY <1>0, <1>2 DEF Routed, UdpRouted, SocksAdds, UdpSame, JobsKept, JobsSame
    <2>2. SocksRouted'
      BY <1>0, <1>2 DEF Routed, SocksRouted, SocksAdds, UdpSame, JobsKept, JobsSame
    <2>3. JobsRouted'
      BY <1>0, <1>2 DEF Routed, JobsRouted, SocksAdds, UdpSame, JobsKept, JobsSame
    <2>4. NoStray'
      BY <1>0, <1>2 DEF Routed, NoStray, SocksAdds, UdpSame, JobsKept, JobsSame
    <2> QED
      BY <2>1, <2>2, <2>3, <2>4 DEF Routed
  <1>3. ASSUME NEW k \in Keys, NEW n, NEW kind, JobAdds(k, n, kind), UdpSame, SocksKept
        PROVE  Routed'
    <2>1. UdpRouted'
      BY <1>0, <1>3 DEF Routed, UdpRouted, JobAdds, UdpSame, SocksKept, SocksSame
    <2>2. SocksRouted'
      BY <1>0, <1>3 DEF Routed, SocksRouted, JobAdds, UdpSame, SocksKept, SocksSame
    <2>3. JobsRouted'
      BY <1>0, <1>3 DEF Routed, JobsRouted, JobAdds, UdpSame, SocksKept, SocksSame
    <2>4. NoStray'
      BY <1>0, <1>3 DEF Routed, NoStray, JobAdds, UdpSame, SocksKept, SocksSame
    <2> QED
      BY <2>1, <2>2, <2>3, <2>4 DEF Routed
  <1>4. ASSUME NEW U, NEW S, NEW J, Removes(U, S, J)
        PROVE  Routed'
    <2>1. \A t : t \in DOMAIN routes' <=>
             t \in DOMAIN routes /\ t \notin J
             /\ (\A k \in U : udp[k].token # t)
             /\ (\A k \in S : socks[k].ctrl # t /\ socks[k].relay # t)
      BY <1>4, InTokens DEF Removes
    <2>2. \A t \in DOMAIN jobs : routes[t].kind \in {"tcp", "tls"}
      BY DEF Routed, JobsRouted, Typed, JobsOK, JobRec
    <2>3. UdpRouted'
      <3>1. SUFFICES ASSUME NEW k \in DOMAIN udp'
                     PROVE  udp'[k].token \in DOMAIN routes'
                            /\ routes'[udp'[k].token].kind = "udp" /\ routes'[udp'[k].token].key = k
        BY DEF UdpRouted
      <3>2. k \in DOMAIN udp \ U /\ udp'[k] = udp[k] /\ U \subseteq DOMAIN udp
            /\ S \subseteq DOMAIN socks /\ J \subseteq DOMAIN jobs
        BY <1>4 DEF Removes
      <3>3. udp[k].token \in DOMAIN routes'
        BY <2>1, <2>2, <3>2 DEF Routed, UdpRouted, SocksRouted, JobsRouted
      <3> QED
        BY <1>4, <3>2, <3>3 DEF Removes, Routed, UdpRouted
    <2>4. SocksRouted'
      <3>1. SUFFICES ASSUME NEW k \in DOMAIN socks'
                     PROVE  /\ socks'[k].ctrl \in DOMAIN routes' /\ socks'[k].relay \in DOMAIN routes'
                            /\ routes'[socks'[k].ctrl].kind = "ctrl" /\ routes'[socks'[k].ctrl].key = k
                            /\ routes'[socks'[k].relay].kind = "relay"
                            /\ routes'[socks'[k].relay].key = k
        BY DEF SocksRouted
      <3>2. k \in DOMAIN socks \ S /\ socks'[k] = socks[k] /\ U \subseteq DOMAIN udp
            /\ S \subseteq DOMAIN socks /\ J \subseteq DOMAIN jobs
        BY <1>4 DEF Removes
      <3>3. socks[k].ctrl \in DOMAIN routes' /\ socks[k].relay \in DOMAIN routes'
        BY <2>1, <2>2, <3>2 DEF Routed, UdpRouted, SocksRouted, JobsRouted
      <3> QED
        BY <1>4, <3>2, <3>3 DEF Removes, Routed, SocksRouted
    <2>5. JobsRouted'
      <3>1. SUFFICES ASSUME NEW t \in DOMAIN jobs'
                     PROVE  t \in DOMAIN routes' /\ routes'[t].kind = jobs'[t].kind
                            /\ routes'[t].key = jobs'[t].key
        BY DEF JobsRouted
      <3>2. t \in DOMAIN jobs \ J /\ jobs'[t] = jobs[t] /\ U \subseteq DOMAIN udp
            /\ S \subseteq DOMAIN socks
        BY <1>4 DEF Removes
      <3>3. t \in DOMAIN routes'
        BY <2>1, <2>2, <3>2 DEF Routed, UdpRouted, SocksRouted, JobsRouted
      <3> QED
        BY <1>4, <3>2, <3>3 DEF Removes, Routed, JobsRouted
    <2>6. NoStray'
      BY <1>4, <2>1 DEF Removes, Routed, NoStray
    <2> QED
      BY <2>3, <2>4, <2>5, <2>6 DEF Routed
  <1>5. \/ UdpSame /\ SocksSame /\ JobsSame /\ routes' = routes
        \/ \E k \in Keys : UdpAdds(k) /\ SocksKept /\ JobsKept
        \/ \E k \in Keys, n \in {Len(asked) + 1} : SocksAdds(k, n) /\ UdpSame /\ JobsKept
        \/ \E k \in Keys, kind \in {"tcp", "tls"} :
             JobAdds(k, Len(asked) + 1, kind) /\ UdpSame /\ SocksKept
        \/ \E U, S, J : Removes(U, S, J)
    BY DEF Step, DatagramStep, Kept, RoutesKept, SocksKept, JobsKept, Waits, Ready, JobSends
  <1> QED
    BY <1>1, <1>2, <1>3, <1>4, <1>5, RoutedKept

\* DNS_TCP_MAX_JOBS, DNS_TLS_MAX_JOBS: the cap of each kind of job.
OfKind(kind) == {t \in DOMAIN jobs : jobs[t].kind = kind}
JobsCapped == \A kind \in {"tcp", "tls"} : Cardinality(OfKind(kind)) <= JobCap

LEMMA JobsFinite ==
    ASSUME Typed, Routed, NEW kind
    PROVE  IsFiniteSet(OfKind(kind)) /\ Cardinality(OfKind(kind)) \in Nat
  <1>1. next_token - 1 \in Int /\ OfKind(kind) \subseteq 1..(next_token - 1)
    BY DEF Typed, RoutesOK, Routed, JobsRouted, OfKind
  <1>2. IsFiniteSet(1..(next_token - 1))
    BY <1>1, FS_Interval
  <1> QED
    BY <1>1, <1>2, FS_Subset, FS_CardinalityType

LEMMA CappedStep ==
    ASSUME Typed, Routed, JobsCapped, Step
    PROVE  JobsCapped'
  <1>1. SUFFICES ASSUME NEW kind \in {"tcp", "tls"}
                 PROVE  Cardinality(OfKind(kind)') <= JobCap
    BY DEF JobsCapped, OfKind
  <1>2. /\ IsFiniteSet(OfKind(kind)) /\ Cardinality(OfKind(kind)) \in Nat
        /\ Cardinality(OfKind(kind)) <= JobCap /\ JobCap \in Nat
    BY JobsFinite, UdpAssumption DEF JobsCapped
  <1>3. CASE OfKind(kind)' \subseteq OfKind(kind)
    <2>1. Cardinality(OfKind(kind)') <= Cardinality(OfKind(kind))
          /\ Cardinality(OfKind(kind)') \in Nat
      BY <1>2, <1>3, FS_Subset, FS_CardinalityType
    <2> QED
      BY <1>2, <2>1
  <1>4. ASSUME NEW k, NEW n, NEW new, JobAdds(k, n, new), ~Capped(new)
        PROVE  Cardinality(OfKind(kind)') <= JobCap
    <2>1. CASE new # kind
      <3>1. OfKind(kind)' \subseteq OfKind(kind)
        BY <1>4, <2>1 DEF JobAdds, OfKind
      <3> QED
        BY <1>3, <3>1
    <2>2. CASE new = kind
      <3>1. OfKind(kind)' = OfKind(kind) \union {next_token} /\ next_token \notin OfKind(kind)
        BY <1>4, <2>2 DEF JobAdds, OfKind
      <3>2. Cardinality(OfKind(kind)') = Cardinality(OfKind(kind)) + 1
        BY <1>2, <3>1, FS_AddElement
      <3>3. Cardinality(OfKind(kind)) < JobCap
        BY <1>2, <1>4, <2>2 DEF Capped, OfKind
      <3> QED
        BY <1>2, <3>2, <3>3
    <2> QED
      BY <2>1, <2>2
  <1>5. \/ JobsSame
        \/ \E k, n, new : JobAdds(k, n, new) /\ ~Capped(new)
        \/ \E U, S, J : Removes(U, S, J)
    BY DEF Step, DatagramStep, Kept, JobsKept, JobSends
  <1>6. JobsSame => OfKind(kind)' \subseteq OfKind(kind)
    BY DEF JobsSame, OfKind
  <1>7. ASSUME NEW U, NEW S, NEW J, Removes(U, S, J)
        PROVE  OfKind(kind)' \subseteq OfKind(kind)
    BY <1>7 DEF Removes, OfKind
  <1> QED
    BY <1>3, <1>4, <1>5, <1>6, <1>7

Tables == Typed /\ Routed /\ JobsCapped

LEMMA InitTables ==
    ASSUME Init PROVE Tables
  <1>1. /\ DOMAIN udp = {} /\ DOMAIN socks = {} /\ DOMAIN jobs = {} /\ DOMAIN routes = {}
        /\ next_token = 1 /\ asked = <<>> /\ wire = <<>> /\ answers = <<>>
    BY DEF Init
  <1>2. ConfigOK
    <2>1. /\ proxy \in Proxies /\ through \in BOOLEAN /\ unsupported = FALSE /\ changes = 0
          /\ dns \in [transport : Transports, resolver : Resolvers]
      BY DEF Init
    <2>2. changes \in 0..MaxChanges
      BY <2>1, UdpAssumption
    <2>3. unsupported \in BOOLEAN
      BY <2>1, Zenon
    <2> QED
      BY <2>1, <2>2, <2>3, Zenon DEF ConfigOK
  <1>3. UdpOK /\ SocksOK /\ JobsOK /\ RoutesOK
    BY <1>1 DEF Init, UdpOK, SocksOK, JobsOK, RoutesOK
  <1>4. HistoryOK
    BY <1>1, UdpAssumption DEF HistoryOK
  <1>5. Routed
    BY <1>1 DEF Routed, UdpRouted, SocksRouted, JobsRouted, NoStray
  <1>6. JobsCapped
    <2>1. \A kind : OfKind(kind) = {}
      BY <1>1 DEF OfKind
    <2> QED
      BY <2>1, FS_EmptySet, UdpAssumption DEF JobsCapped
  <1> QED
    BY <1>2, <1>3, <1>4, <1>5, <1>6 DEF Tables, Typed

LEMMA TablesStep ==
    ASSUME Tables, [Next]_vars
    PROVE  Tables' /\ Step /\ proxy' = proxy
  <1>1. DOMAIN jobs \subseteq DOMAIN routes
    BY DEF Tables, Routed, JobsRouted
  <1>2. Step /\ ConfigOK' /\ proxy' = proxy
    BY <1>1, Steps DEF Tables
  <1> QED
    BY <1>2, TypedStep, RoutedStep, CappedStep DEF Tables

LEMMA TablesAreExact ==
    ASSUME Tables PROVE TablesExact
  <1>1. RoutesExact
    BY RoutedIsExact DEF Tables
  <1>2. DOMAIN jobs \subseteq Naming
    BY DEF Tables, Typed, RoutesOK, Routed, JobsRouted, Naming
  <1>3. \A k \in DOMAIN udp : udp[k] \in
          [token : Naming, to : Resolvers \union {"origin"}, idle : 0..Idle + 1]
    BY DEF Tables, Typed, UdpOK, UdpRec, RoutesOK, Routed, UdpRouted, Naming, Targets
  <1>4. \A k \in DOMAIN socks :
          /\ socks[k].idle \in 0..Idle + 1
          /\ Len(socks[k].pending) <= PendingCap
          /\ socks[k].reply \in {"none", "granted", "refused", "unusable"}
    BY DEF Tables, Typed, SocksOK, SocksRec
  <1>5. \A kind \in {"tcp", "tls"} : Cardinality({t \in DOMAIN jobs : jobs[t].kind = kind}) <= JobCap
    BY DEF Tables, JobsCapped, OfKind
  <1> QED
    BY <1>1, <1>2, <1>3, <1>4, <1>5
       DEF TablesExact, TypeOK, Tables, Typed, ConfigOK, UdpOK, SocksOK, HistoryOK

\* Sessions, jobs and routes keep their shape and their caps and stay matched, however
\* many datagrams come and whatever the proxies and the resolvers do.
THEOREM TablesStayExact == Spec => []TablesExact
  <1>1. Init => Tables
    BY InitTables
  <1>2. Tables /\ [Next]_vars => Tables'
    BY TablesStep
  <1>3. Tables => TablesExact
    BY TablesAreExact
  <1> QED
    BY <1>1, <1>2, <1>3, PTL DEF Spec

-----------------------------------------------------------------------------
(* Every datagram leaves by a way it may *)

WireClean ==
    \A i \in 1..Len(wire) : /\ wire[i].n \in 1..Len(asked)
                            /\ wire[i].via \in Ways(proxy, asked[wire[i].n])
SocksClean ==
    \A k \in DOMAIN socks : \A i \in 1..Len(socks[k].pending) :
      May(proxy, asked, k, socks[k].pending[i], "relay")
JobsClean == \A t \in DOMAIN jobs : May(proxy, asked, jobs[t].key, jobs[t].n, jobs[t].kind)
Clean == WireClean /\ SocksClean /\ JobsClean

\* The record of what was asked only grows.
AskedKept ==
    /\ Len(asked) \in Nat /\ Len(asked') \in Nat /\ Len(asked) <= Len(asked')
    /\ \A n \in 1..Len(asked) : n \in 1..Len(asked') /\ asked'[n] = asked[n]

LEMMA AskedStep ==
    ASSUME Typed, Step
    PROVE  AskedKept
  <1>1. UNCHANGED asked \/ \E k \in Keys : Taken(k)
    BY DEF Step, DatagramStep
  <1>2. Len(asked) \in Nat
    BY DEF Typed, HistoryOK
  <1>3. CASE UNCHANGED asked
    BY <1>2, <1>3 DEF AskedKept
  <1>4. ASSUME NEW k \in Keys, Taken(k)
        PROVE  AskedKept
    BY <1>2, <1>4, AskedGrows DEF AskedKept
  <1> QED
    BY <1>1, <1>3, <1>4

LEMMA MayStays ==
    ASSUME AskedKept, proxy' = proxy
    PROVE  \A k, n, via : May(proxy, asked, k, n, via) => May(proxy, asked', k, n, via)
  BY DEF AskedKept, May

\* What it takes for the wire to stay clean.
LEMMA WireStays ==
    ASSUME WireClean, AskedKept, UNCHANGED <<wire, proxy>>
    PROVE  WireClean'
  BY DEF WireClean, AskedKept

LEMMA WireGrows ==
    ASSUME Typed, WireClean, AskedKept, proxy' = proxy,
           NEW k, NEW n, NEW tok, NEW via, NEW to, SentOut(n, tok, via, to),
           May(proxy, asked', k, n, via)
    PROVE  WireClean'
  <1>1. /\ Len(wire) \in Nat /\ Len(wire') = Len(wire) + 1
        /\ \A i \in 1..Len(wire) : wire'[i] = wire[i]
        /\ wire'[Len(wire) + 1].n = n /\ wire'[Len(wire) + 1].via = via
    BY DEF Typed, HistoryOK, SentOut
  <1>2. \A i \in 1..Len(wire) : /\ wire'[i].n \in 1..Len(asked')
                                /\ wire'[i].via \in Ways(proxy, asked'[wire'[i].n])
    BY <1>1 DEF WireClean, AskedKept
  <1>3. n \in 1..Len(asked') /\ via \in Ways(proxy, asked'[n])
    BY DEF May
  <1>4. \A i \in 1..Len(wire') : i \in 1..Len(wire) \/ i = Len(wire) + 1
    BY <1>1
  <1> QED
    BY <1>1, <1>2, <1>3, <1>4 DEF WireClean

LEMMA SocksCleanStays ==
    ASSUME SocksClean, AskedKept, SocksKept, proxy' = proxy
    PROVE  SocksClean'
  BY MayStays DEF SocksClean, SocksKept, SocksSame

LEMMA JobsCleanStay ==
    ASSUME JobsClean, AskedKept, JobsSame, proxy' = proxy
    PROVE  JobsClean'
  BY MayStays DEF JobsClean, JobsSame

LEMMA CleanDatagram ==
    ASSUME Typed, Clean, NEW k \in Keys, DatagramStep(k), AskedKept, proxy' = proxy
    PROVE  Clean'
  <1> DEFINE n == Len(asked) + 1
  <1>1. WireClean /\ SocksClean /\ JobsClean
    BY DEF Clean
  <1>2. CASE Kept /\ UNCHANGED wire
    BY <1>1, <1>2, WireStays, SocksCleanStays, JobsCleanStay DEF Clean, Kept, JobsKept
  <1>3. CASE /\ Way(k, "relay") /\ JobsKept
             /\ \/ Waits(k, n) /\ UNCHANGED wire
                \/ SocksKept /\ SentOut(n, socks[k].relay, "relay", socks[k].to)
                \/ SocksAdds(k, n) /\ UNCHANGED wire
    <2>1. JobsClean'
      BY <1>1, <1>3, JobsCleanStay DEF JobsKept
    <2>2. May(proxy, asked', k, n, "relay")
      BY <1>3 DEF Way
    <2>3. \A j \in DOMAIN socks : \A i \in 1..Len(socks[j].pending) :
            May(proxy, asked', j, socks[j].pending[i], "relay")
      BY <1>1, MayStays DEF SocksClean
    <2>4. CASE Waits(k, n) /\ UNCHANGED wire
      <3>1. DOMAIN socks' = DOMAIN socks /\ socks[k].pending \in Seq(Nat) /\ k \in DOMAIN socks
        BY <2>4 DEF Waits, SocksSame, Typed, SocksOK, SocksRec
      <3>2. \A i \in 1..Len(socks'[k].pending) : May(proxy, asked', k, socks'[k].pending[i], "relay")
        <4>1. PICK p : p = socks[k].pending
          OBVIOUS
        <4>2. PICK q : q = Append(p, n)
          OBVIOUS
        <4>3. p \in Seq(Nat) /\ q = Append(p, n) /\ socks'[k].pending = q
          BY <2>4, <3>1, <4>1, <4>2 DEF Waits
        <4>4. \A i \in 1..Len(q) : q[i] = n \/ (i \in 1..Len(p) /\ q[i] = p[i])
          BY <4>3
        <4>5. \A i \in 1..Len(p) : May(proxy, asked', k, p[i], "relay")
          BY <2>3, <3>1, <4>1
        <4> QED
          BY <2>2, <4>3, <4>4, <4>5
      <3>3. \A j \in DOMAIN socks \ {k} : socks'[j] = socks[j]
        BY <2>4 DEF Waits
      <3>4. SocksClean'
        BY <2>3, <3>1, <3>2, <3>3 DEF SocksClean
      <3> QED
        BY <1>1, <2>1, <2>4, <3>4, WireStays DEF Clean
    <2>5. CASE SocksKept /\ SentOut(n, socks[k].relay, "relay", socks[k].to)
      <3>1. PICK tok, to : tok = socks[k].relay /\ to = socks[k].to
        OBVIOUS
      <3>2. SentOut(n, tok, "relay", to)
        BY <2>5, <3>1
      <3>3. WireClean'
        BY <1>1, <2>2, <3>2, WireGrows
      <3> QED
        BY <1>1, <2>1, <2>5, <3>3, SocksCleanStays DEF Clean
    <2>6. CASE SocksAdds(k, n) /\ UNCHANGED wire
      <3>1. PICK p : p = <<n>>
        OBVIOUS
      <3>2. socks'[k].pending = p /\ \A i \in 1..Len(p) : p[i] = n
        BY <2>6, <3>1 DEF SocksAdds
      <3>3. \A i \in 1..Len(socks'[k].pending) : May(proxy, asked', k, socks'[k].pending[i], "relay")
        BY <2>2, <3>2
      <3>4. DOMAIN socks' = DOMAIN socks \union {k} /\ \A j \in DOMAIN socks : socks'[j] = socks[j]
        BY <2>6 DEF SocksAdds
      <3>5. SocksClean'
        BY <1>3, <2>3, <3>3, <3>4 DEF SocksClean
      <3> QED
        BY <1>1, <2>1, <2>6, <3>5, WireStays DEF Clean
    <2> QED
      BY <1>3, <2>4, <2>5, <2>6
  <1>4. ASSUME UNCHANGED wire, SocksKept, NEW kind \in {"tcp", "tls"}, Way(k, kind),
               JobAdds(k, n, kind)
        PROVE  Clean'
    <2>1. WireClean' /\ SocksClean'
      BY <1>1, <1>4, WireStays, SocksCleanStays
    <2>2. /\ jobs'[next_token].kind = kind /\ jobs'[next_token].key = k /\ jobs'[next_token].n = n
          /\ DOMAIN jobs' = DOMAIN jobs \union {next_token}
          /\ \A t \in DOMAIN jobs : jobs'[t] = jobs[t]
      BY <1>4 DEF JobAdds
    <2>3. May(proxy, asked', k, n, kind)
      BY <1>4 DEF Way
    <2>4. \A t \in DOMAIN jobs : May(proxy, asked', jobs[t].key, jobs[t].n, jobs[t].kind)
      BY <1>1, MayStays DEF JobsClean
    <2>5. JobsClean'
      BY <2>2, <2>3, <2>4 DEF JobsClean
    <2> QED
      BY <2>1, <2>5 DEF Clean
  <1>5. ASSUME Way(k, "direct"), SocksKept, JobsKept, NEW tok, NEW to,
               SentOut(n, tok, "direct", to)
        PROVE  Clean'
    <2>1. WireClean'
      BY <1>1, <1>5, WireGrows DEF Way
    <2> QED
      BY <1>1, <1>5, <2>1, SocksCleanStays, JobsCleanStay DEF Clean, JobsKept
  <1> QED
    BY <1>2, <1>3, <1>4, <1>5 DEF DatagramStep

LEMMA CleanStep ==
    ASSUME Typed, Clean, Step, proxy' = proxy
    PROVE  Clean'
  <1>1. AskedKept /\ WireClean /\ SocksClean /\ JobsClean
    BY AskedStep DEF Clean
  <1>2. CASE Kept /\ UNCHANGED wire
    BY <1>1, <1>2, WireStays, SocksCleanStays, JobsCleanStay DEF Clean, Kept, JobsKept
  <1>3. ASSUME NEW k \in Keys, DatagramStep(k)
        PROVE  Clean'
    BY <1>1, <1>3, CleanDatagram
  <1>4. ASSUME NEW k \in Keys, Ready(k), JobsKept
        PROVE  Clean'
    <2>1. JobsClean'
      BY <1>1, <1>4, JobsCleanStay DEF JobsKept
    <2>2. PICK p : p = socks[k].pending
      OBVIOUS
    <2>3. /\ Len(wire) \in Nat /\ Len(p) \in Nat /\ Len(wire') = Len(wire) + Len(p)
          /\ \A i \in 1..Len(wire) : wire'[i] = wire[i]
          /\ \A i \in 1..Len(p) : wire'[Len(wire) + i].n = p[i] /\ wire'[Len(wire) + i].via = "relay"
      BY <1>4, <2>2 DEF Ready, Typed, HistoryOK, SocksOK, SocksRec
    <2>4. \A i \in 1..Len(p) : p[i] \in 1..Len(asked') /\ "relay" \in Ways(proxy, asked'[p[i]])
      <3>1. k \in DOMAIN socks
        BY <1>4 DEF Ready
      <3>2. \A i \in 1..Len(p) : May(proxy, asked, k, p[i], "relay")
        BY <1>1, <2>2, <3>1 DEF SocksClean
      <3>3. \A i \in 1..Len(p) : May(proxy, asked', k, p[i], "relay")
        BY <1>1, <3>2, MayStays
      <3> QED
        BY <3>3 DEF May
    <2>5. \A i \in 1..Len(wire) : wire[i].n \in 1..Len(asked')
                                  /\ wire[i].via \in Ways(proxy, asked'[wire[i].n])
      BY <1>1 DEF WireClean, AskedKept
    <2>6. ASSUME NEW i \in 1..Len(wire')
          PROVE  wire'[i].n \in 1..Len(asked') /\ wire'[i].via \in Ways(proxy, asked'[wire'[i].n])
      <3>1. CASE i \in 1..Len(wire)
        BY <2>3, <2>5, <3>1
      <3>2. CASE i \notin 1..Len(wire)
        <4>1. i - Len(wire) \in 1..Len(p) /\ Len(wire) + (i - Len(wire)) = i
          BY <2>3, <3>2
        <4>2. wire'[i].n = p[i - Len(wire)] /\ wire'[i].via = "relay"
          BY <2>3, <4>1
        <4> QED
          BY <2>4, <4>1, <4>2
      <3> QED
        BY <3>1, <3>2
    <2>7. WireClean'
      BY <2>6 DEF WireClean
    <2>8. SocksClean'
      <3>1. /\ DOMAIN socks' = DOMAIN socks /\ socks'[k].pending = <<>>
            /\ \A j \in DOMAIN socks \ {k} : socks'[j] = socks[j]
        BY <1>4 DEF Ready, SocksSame
      <3> QED
        BY <1>1, <3>1, MayStays DEF SocksClean
    <2> QED
      BY <2>1, <2>7, <2>8 DEF Clean
  <1>5. ASSUME NEW t \in DOMAIN jobs, JobSends(t), SocksKept
        PROVE  Clean'
    <2>1. PICK n, via, to, k : n = jobs[t].n /\ via = jobs[t].kind /\ to = jobs[t].to /\ k = jobs[t].key
      OBVIOUS
    <2>2. May(proxy, asked', k, n, via) /\ SentOut(n, t, via, to)
      BY <1>1, <1>5, <2>1, MayStays DEF JobsClean, JobSends
    <2>3. WireClean'
      BY <1>1, <2>2, WireGrows
    <2> QED
      BY <1>1, <1>5, <2>3, SocksCleanStays, JobsCleanStay DEF Clean, JobSends
  <1>6. ASSUME NEW U, NEW S, NEW J, Removes(U, S, J), UNCHANGED wire
        PROVE  Clean'
    <2>1. WireClean'
      BY <1>1, <1>6, WireStays
    <2>2. SocksClean'
      BY <1>1, <1>6, MayStays DEF Removes, SocksClean
    <2>3. JobsClean'
      BY <1>1, <1>6, MayStays DEF Removes, JobsClean
    <2> QED
      BY <2>1, <2>2, <2>3 DEF Clean
  <1> QED
    BY <1>2, <1>3, <1>4, <1>5, <1>6 DEF Step

-----------------------------------------------------------------------------
(* What a session sends keeps its order *)

Silent(w, tok) == \A i \in 1..Len(w) : w[i].token # tok
Rising(s) == \A i, j \in 1..Len(s) : i < j => s[i] < s[j]

WireOwned ==
    \A i \in 1..Len(wire) : wire[i].token \in 1..(next_token - 1) /\ wire[i].n \in 1..Len(asked)
InOrder ==
    \A i, j \in 1..Len(wire) :
      i < j /\ wire[i].token = wire[j].token => wire[i].n < wire[j].n
SocksQuiet ==
    \A k \in DOMAIN socks :
      IF socks[k].hs
      THEN /\ Silent(wire, socks[k].relay) /\ Rising(socks[k].pending)
           /\ \A i \in 1..Len(socks[k].pending) : socks[k].pending[i] \in 1..Len(asked)
      ELSE socks[k].pending = <<>>
JobsQuiet == \A t \in DOMAIN jobs : jobs[t].stage # "Answer" => Silent(wire, t)
Orderly == WireOwned /\ InOrder /\ SocksQuiet /\ JobsQuiet

\* The datagram sent last is the n-th.
LastSent(n, tok) ==
    /\ Len(wire) \in Nat /\ Len(wire') = Len(wire) + 1
    /\ \A i \in 1..Len(wire) : wire'[i] = wire[i]
    /\ wire'[Len(wire) + 1].n = n /\ wire'[Len(wire) + 1].token = tok
    /\ \A i \in 1..Len(wire') : i \in 1..Len(wire) \/ i = Len(wire) + 1

LEMMA SentLast ==
    ASSUME Typed, NEW n, NEW tok, NEW via, NEW to, SentOut(n, tok, via, to)
    PROVE  LastSent(n, tok)
  <1>1. /\ Len(wire) \in Nat /\ Len(wire') = Len(wire) + 1
        /\ \A i \in 1..Len(wire) : wire'[i] = wire[i]
        /\ wire'[Len(wire) + 1].n = n /\ wire'[Len(wire) + 1].token = tok
    BY DEF Typed, HistoryOK, SentOut
  <1> QED
    BY <1>1 DEF LastSent

LEMMA SilentGrows ==
    ASSUME NEW n, NEW tok, LastSent(n, tok), NEW x, x # tok, Silent(wire, x)
    PROVE  Silent(wire', x)
  BY DEF LastSent, Silent

\* No token of the tables is another's, nor one yet to come.
LEMMA TokensApart ==
    ASSUME Typed, Routed
    PROVE  /\ \A k \in DOMAIN socks : socks[k].relay \in 1..(next_token - 1)
           /\ \A k \in DOMAIN udp : udp[k].token \in 1..(next_token - 1)
           /\ \A t \in DOMAIN jobs : t \in 1..(next_token - 1)
           /\ \A j, k \in DOMAIN socks : socks[j].relay = socks[k].relay => j = k
           /\ \A j, k \in DOMAIN udp : udp[j].token = udp[k].token => j = k
           /\ \A k \in DOMAIN socks, t \in DOMAIN jobs : socks[k].relay # t
           /\ \A k \in DOMAIN udp, t \in DOMAIN jobs : udp[k].token # t
           /\ \A k \in DOMAIN udp, j \in DOMAIN socks : udp[k].token # socks[j].relay
  <1>1. \A t \in DOMAIN jobs : jobs[t].kind \in {"tcp", "tls"}
    BY DEF Typed, JobsOK, JobRec
  <1> QED
    BY <1>1 DEF Typed, RoutesOK, Routed, UdpRouted, SocksRouted, JobsRouted

LEMMA Widens ==
    ASSUME NEW a \in Nat, NEW b \in Nat, b >= a
    PROVE  \A m \in 1..(a - 1) : m \in 1..(b - 1)
  OBVIOUS

LEMMA OrderStays ==
    ASSUME WireOwned, InOrder, AskedKept, UNCHANGED wire,
           next_token \in Nat, next_token' \in Nat, next_token' >= next_token
    PROVE  WireOwned' /\ InOrder'
  <1>1. \A m \in 1..(next_token - 1) : m \in 1..(next_token' - 1)
    BY Widens
  <1>2. \A m \in 1..Len(asked) : m \in 1..Len(asked')
    BY DEF AskedKept
  <1>3. WireOwned'
    BY <1>1, <1>2 DEF WireOwned
  <1> QED
    BY <1>3 DEF InOrder

LEMMA OrderlyStays ==
    ASSUME Typed, Typed', Orderly, AskedKept, SocksKept, JobsKept, UNCHANGED wire,
           next_token' >= next_token
    PROVE  Orderly'
  <1>1. next_token \in Nat /\ next_token' \in Nat
    BY DEF Typed, RoutesOK
  <1>2. WireOwned' /\ InOrder'
    BY <1>1, OrderStays DEF Orderly
  <1>3. SocksQuiet'
    BY DEF Orderly, SocksQuiet, SocksKept, SocksSame, AskedKept
  <1>4. JobsQuiet'
    BY DEF Orderly, JobsQuiet, JobsKept, JobsSame
  <1> QED
    BY <1>2, <1>3, <1>4 DEF Orderly

LEMMA OrderlySends ==
    ASSUME Typed, Typed', Orderly, AskedKept, NEW n \in 1..Len(asked'), NEW tok, NEW via,
           NEW to, SentOut(n, tok, via, to), next_token' >= next_token, tok \in 1..(next_token' - 1),
           \A i \in 1..Len(wire) : wire[i].token = tok => wire[i].n < n,
           SocksKept, \A k \in DOMAIN socks : socks[k].hs => socks[k].relay # tok,
           DOMAIN jobs' = DOMAIN jobs,
           \A t \in DOMAIN jobs : jobs'[t].stage # "Answer" => jobs[t].stage # "Answer" /\ t # tok
    PROVE  Orderly'
  <1>1. next_token \in Nat /\ next_token' \in Nat
    BY DEF Typed, RoutesOK
  <1>2. LastSent(n, tok)
    BY SentLast
  <1>3. WireOwned'
    <2>1. \A i \in 1..Len(wire) : wire[i].token \in 1..(next_token' - 1)
                                  /\ wire[i].n \in 1..Len(asked')
      BY <1>1 DEF Orderly, WireOwned, AskedKept
    <2> QED
      BY <1>2, <2>1 DEF WireOwned, LastSent
  <1>4. InOrder'
    <2>1. SUFFICES ASSUME NEW i \in 1..Len(wire'), NEW j \in 1..Len(wire'), i < j,
                          wire'[i].token = wire'[j].token
                   PROVE  wire'[i].n < wire'[j].n
      BY DEF InOrder
    <2>2. i \in 1..Len(wire) /\ wire'[i] = wire[i]
      BY <1>2, <2>1 DEF LastSent
    <2>3. CASE j \in 1..Len(wire)
      BY <1>2, <2>1, <2>2, <2>3 DEF LastSent, Orderly, InOrder
    <2>4. CASE j = Len(wire) + 1
      BY <1>2, <2>1, <2>2, <2>4 DEF LastSent
    <2> QED
      BY <1>2, <2>3, <2>4 DEF LastSent
  <1>5. SocksQuiet'
    <2>1. \A k \in DOMAIN socks : socks[k].hs => Silent(wire', socks[k].relay)
      BY <1>2, SilentGrows DEF Orderly, SocksQuiet
    <2> QED
      BY <2>1 DEF Orderly, SocksQuiet, SocksKept, SocksSame, AskedKept
  <1>6. JobsQuiet'
    BY <1>2, SilentGrows DEF Orderly, JobsQuiet
  <1> QED
    BY <1>3, <1>4, <1>5, <1>6 DEF Orderly

LEMMA OrderlyDatagram ==
    ASSUME Typed, Typed', Routed, Orderly, NEW k \in Keys, DatagramStep(k), AskedKept
    PROVE  Orderly'
  <1> DEFINE n == Len(asked) + 1
  <1>1. n \in 1..Len(asked') /\ n \in Nat /\ next_token \in Nat /\ next_token' \in Nat
    BY AskedGrows DEF DatagramStep, JustTaken, Typed, RoutesOK
  <1>2. \A i \in 1..Len(wire) : wire[i].n < n
    BY <1>1 DEF Orderly, WireOwned, AskedKept
  <1>3. CASE Kept /\ UNCHANGED wire
    BY <1>3, OrderlyStays DEF Kept
  <1>4. CASE JobsKept /\ Waits(k, n) /\ RoutesKept /\ UNCHANGED wire
    <2>1. WireOwned' /\ InOrder'
      BY <1>1, <1>4, OrderStays DEF Orderly, RoutesKept
    <2>2. JobsQuiet'
      BY <1>4 DEF Orderly, JobsQuiet, JobsKept, JobsSame
    <2>3. PICK p : p = socks[k].pending
      OBVIOUS
    <2>4. PICK q : q = Append(p, n)
      OBVIOUS
    <2>5. p \in Seq(Nat) /\ socks'[k].pending = q /\ k \in DOMAIN socks
          /\ socks[k].hs /\ socks'[k].hs /\ socks'[k].relay = socks[k].relay
      BY <1>4, <2>3, <2>4 DEF Waits, SocksSame, Typed, SocksOK, SocksRec
    <2>6. Rising(p) /\ (\A i \in 1..Len(p) : p[i] \in 1..Len(asked)) /\ Silent(wire, socks[k].relay)
      BY <2>3, <2>5 DEF Orderly, SocksQuiet
    <2>7. \A i \in 1..Len(q) : (i = Len(p) + 1 /\ q[i] = n) \/ (i \in 1..Len(p) /\ q[i] = p[i])
      BY <1>1, <2>4, <2>5
    <2>8. Rising(q)
      <3>1. Len(p) \in Nat /\ Len(asked) \in Nat
        BY <2>5 DEF AskedKept
      <3>2. SUFFICES ASSUME NEW i \in 1..Len(q), NEW j \in 1..Len(q), i < j
                     PROVE  q[i] < q[j]
        BY DEF Rising
      <3>3. i \in 1..Len(p) /\ q[i] = p[i]
        BY <2>4, <2>5, <2>7, <3>1, <3>2
      <3>4. CASE j \in 1..Len(p) /\ q[j] = p[j]
        BY <2>6, <3>2, <3>3, <3>4 DEF Rising
      <3>5. CASE q[j] = n
        BY <1>1, <2>6, <3>1, <3>3, <3>5
      <3> QED
        BY <2>7, <3>4, <3>5
    <2>9. \A i \in 1..Len(q) : q[i] \in 1..Len(asked')
      BY <1>1, <2>6, <2>7 DEF AskedKept
    <2>10. SocksQuiet'
      <3>1. DOMAIN socks' = DOMAIN socks /\ \A j \in DOMAIN socks \ {k} : socks'[j] = socks[j]
        BY <1>4 DEF Waits, SocksSame
      <3>2. \A j \in DOMAIN socks \ {k} :
              IF socks'[j].hs
              THEN /\ Silent(wire', socks'[j].relay) /\ Rising(socks'[j].pending)
                   /\ \A i \in 1..Len(socks'[j].pending) : socks'[j].pending[i] \in 1..Len(asked')
              ELSE socks'[j].pending = <<>>
        BY <1>4, <3>1 DEF Orderly, SocksQuiet, AskedKept
      <3>3. socks'[k].hs /\ Silent(wire', socks'[k].relay) /\ Rising(socks'[k].pending)
            /\ \A i \in 1..Len(socks'[k].pending) : socks'[k].pending[i] \in 1..Len(asked')
        BY <1>4, <2>5, <2>6, <2>8, <2>9
      <3> QED
        BY <3>1, <3>2, <3>3 DEF SocksQuiet
    <2> QED
      BY <2>1, <2>2, <2>10 DEF Orderly
  <1>5. CASE /\ k \in DOMAIN socks /\ ~socks[k].hs /\ SocksKept /\ JobsKept /\ RoutesKept
             /\ SentOut(n, socks[k].relay, "relay", socks[k].to)
    <2>1. PICK tok : tok = socks[k].relay
      OBVIOUS
    <2>2. tok \in 1..(next_token' - 1) /\ next_token' >= next_token
      BY <1>1, <1>5, <2>1, TokensApart DEF RoutesKept
    <2>3. \A j \in DOMAIN socks : socks[j].hs => socks[j].relay # tok
      BY <1>5, <2>1, TokensApart
    <2>4. \A t \in DOMAIN jobs : jobs'[t].stage # "Answer" => jobs[t].stage # "Answer" /\ t # tok
      BY <1>5, <2>1, TokensApart DEF JobsKept
    <2> QED
      BY <1>1, <1>2, <1>5, <2>1, <2>2, <2>3, <2>4, OrderlySends DEF JobsKept, JobsSame
  <1>6. CASE SocksAdds(k, n) /\ JobsKept /\ UNCHANGED wire
    <2>1. WireOwned' /\ InOrder'
      BY <1>1, <1>6, OrderStays DEF Orderly, SocksAdds
    <2>2. JobsQuiet'
      BY <1>6 DEF Orderly, JobsQuiet, JobsKept, JobsSame
    <2>3. Silent(wire, next_token + 1)
      BY <1>1 DEF Orderly, WireOwned, Silent
    <2>4. PICK p : p = <<n>>
      OBVIOUS
    <2>5. Rising(p) /\ \A i \in 1..Len(p) : p[i] \in 1..Len(asked')
      BY <1>1, <2>4 DEF Rising
    <2>6. /\ socks'[k].hs /\ socks'[k].pending = p /\ socks'[k].relay = next_token + 1
          /\ DOMAIN socks' = DOMAIN socks \union {k} /\ \A j \in DOMAIN socks : socks'[j] = socks[j]
      BY <1>6, <2>4 DEF SocksAdds
    <2>7. \A j \in DOMAIN socks :
              IF socks'[j].hs
              THEN /\ Silent(wire', socks'[j].relay) /\ Rising(socks'[j].pending)
                   /\ \A i \in 1..Len(socks'[j].pending) : socks'[j].pending[i] \in 1..Len(asked')
              ELSE socks'[j].pending = <<>>
      BY <1>6, <2>6 DEF Orderly, SocksQuiet, AskedKept
    <2>8. SocksQuiet'
      BY <1>6, <2>3, <2>5, <2>6, <2>7 DEF SocksQuiet
    <2> QED
      BY <2>1, <2>2, <2>8 DEF Orderly
  <1>7. ASSUME NEW kind, JobAdds(k, n, kind), SocksKept, UNCHANGED wire
        PROVE  Orderly'
    <2>1. WireOwned' /\ InOrder'
      BY <1>1, <1>7, OrderStays DEF Orderly, JobAdds
    <2>2. SocksQuiet'
      BY <1>7 DEF Orderly, SocksQuiet, SocksKept, SocksSame, AskedKept
    <2>3. Silent(wire, next_token)
      BY <1>1 DEF Orderly, WireOwned, Silent
    <2>4. JobsQuiet'
      BY <1>7, <2>3 DEF Orderly, JobsQuiet, JobAdds
    <2> QED
      BY <2>1, <2>2, <2>4 DEF Orderly
  <1>8. ASSUME SocksKept, JobsKept, k \in DOMAIN udp, RoutesKept, SentOut(n, udp[k].token, "direct", udp[k].to)
        PROVE  Orderly'
    <2>1. PICK tok : tok = udp[k].token
      OBVIOUS
    <2>2. tok \in 1..(next_token' - 1) /\ next_token' >= next_token
      BY <1>1, <1>8, <2>1, TokensApart DEF RoutesKept
    <2>3. \A j \in DOMAIN socks : socks[j].hs => socks[j].relay # tok
      BY <1>8, <2>1, TokensApart
    <2>4. \A t \in DOMAIN jobs : jobs'[t].stage # "Answer" => jobs[t].stage # "Answer" /\ t # tok
      BY <1>8, <2>1, TokensApart DEF JobsKept
    <2> QED
      BY <1>1, <1>2, <1>8, <2>1, <2>2, <2>3, <2>4, OrderlySends DEF JobsKept, JobsSame
  <1>9. ASSUME SocksKept, JobsKept, UdpAdds(k), SentOut(n, next_token, "direct", Goal(k))
        PROVE  Orderly'
    <2>1. next_token' = next_token + 1 /\ next_token \in 1..(next_token' - 1)
      BY <1>1, <1>9, FreshToken DEF UdpAdds
    <2>2. \A j \in DOMAIN socks : socks[j].hs => socks[j].relay # next_token
      BY <1>1, TokensApart
    <2>3. \A t \in DOMAIN jobs :
            jobs'[t].stage # "Answer" => jobs[t].stage # "Answer" /\ t # next_token
      BY <1>1, <1>9, TokensApart DEF JobsKept
    <2>4. PICK tok : tok = next_token
      OBVIOUS
    <2> QED
      BY <1>1, <1>2, <1>9, <2>1, <2>2, <2>3, <2>4, OrderlySends DEF JobsKept, JobsSame
  <1> QED
    BY <1>3, <1>4, <1>5, <1>6, <1>7, <1>8, <1>9 DEF DatagramStep

LEMMA OrderlyReady ==
    ASSUME Typed, Typed', Routed, Orderly, AskedKept, NEW k \in Keys, Ready(k), JobsKept, RoutesKept
    PROVE  Orderly'
  <1> DEFINE w == Len(wire)
  <1>0. PICK p : p = socks[k].pending
    OBVIOUS
  <1>1. PICK tok : tok = socks[k].relay
    OBVIOUS
  <1>2. /\ k \in DOMAIN socks /\ socks[k].hs /\ p \in Seq(Nat)
        /\ w \in Nat /\ Len(p) \in Nat /\ next_token \in Nat /\ next_token' \in Nat
        /\ next_token' >= next_token
    <2>1. k \in DOMAIN socks /\ socks[k].hs /\ next_token' >= next_token
      BY DEF Ready, RoutesKept
    <2>2. socks[k].pending \in Seq(Nat)
      BY <2>1 DEF Typed, SocksOK, SocksRec
    <2>3. w \in Nat /\ next_token \in Nat /\ next_token' \in Nat
      BY DEF Typed, HistoryOK, RoutesOK
    <2> QED
      BY <1>0, <2>1, <2>2, <2>3
  <1>3. /\ Silent(wire, tok) /\ Rising(p)
        /\ \A i \in 1..Len(p) : p[i] \in 1..Len(asked)
    BY <1>0, <1>1, <1>2 DEF Orderly, SocksQuiet
  <1>4. /\ Len(wire') = w + Len(p)
        /\ \A i \in 1..w : wire'[i] = wire[i]
        /\ \A i \in 1..Len(p) : wire'[w + i].n = p[i] /\ wire'[w + i].token = tok
    BY <1>0, <1>1 DEF Ready
  <1>5. ASSUME NEW i \in 1..Len(wire'), i \notin 1..w
        PROVE  i - w \in 1..Len(p) /\ wire'[i].n = p[i - w] /\ wire'[i].token = tok /\ i > w
    <2>1. i - w \in 1..Len(p) /\ w + (i - w) = i /\ i > w
      BY <1>2, <1>4, <1>5
    <2> QED
      BY <1>4, <2>1
  <1>6. WireOwned'
    <2>1. tok \in 1..(next_token' - 1)
      BY <1>1, <1>2, TokensApart
    <2>2. \A i \in 1..w : wire'[i].token \in 1..(next_token' - 1) /\ wire'[i].n \in 1..Len(asked')
      <3>1. \A i \in 1..w : wire[i].token \in 1..(next_token - 1) /\ wire[i].n \in 1..Len(asked)
        BY DEF Orderly, WireOwned
      <3>2. \A m \in 1..(next_token - 1) : m \in 1..(next_token' - 1)
        BY <1>2, Widens
      <3>3. \A m \in 1..Len(asked) : m \in 1..Len(asked')
        BY DEF AskedKept
      <3> QED
        BY <1>4, <3>1, <3>2, <3>3
    <2>3. \A i \in 1..Len(p) : p[i] \in 1..Len(asked')
      BY <1>3 DEF AskedKept
    <2> QED
      BY <1>5, <2>1, <2>2, <2>3 DEF WireOwned
  <1>7. InOrder'
    <2>1. SUFFICES ASSUME NEW i \in 1..Len(wire'), NEW j \in 1..Len(wire'), i < j,
                          wire'[i].token = wire'[j].token
                   PROVE  wire'[i].n < wire'[j].n
      BY DEF InOrder
    <2>2. CASE i \in 1..w /\ j \in 1..w
      BY <1>4, <2>1, <2>2 DEF Orderly, InOrder
    <2>3. CASE i \in 1..w /\ j \notin 1..w
      BY <1>3, <1>4, <1>5, <2>1, <2>3 DEF Silent
    <2>4. CASE i \notin 1..w /\ j \notin 1..w
      <3>1. i - w \in 1..Len(p) /\ j - w \in 1..Len(p) /\ i - w < j - w
        BY <1>2, <1>5, <2>1, <2>4
      <3> QED
        BY <1>3, <1>5, <2>4, <3>1 DEF Rising
    <2>5. CASE i \notin 1..w /\ j \in 1..w
      BY <1>2, <1>5, <2>1, <2>5
    <2> QED
      BY <2>2, <2>3, <2>4, <2>5
  <1>8. ASSUME NEW x, x # tok, Silent(wire, x)
        PROVE  Silent(wire', x)
    BY <1>4, <1>5, <1>8 DEF Silent
  <1>9. SocksQuiet'
    <2>1. /\ DOMAIN socks' = DOMAIN socks /\ ~socks'[k].hs /\ socks'[k].pending = <<>>
          /\ \A j \in DOMAIN socks \ {k} : socks'[j] = socks[j]
      BY DEF Ready, SocksSame
    <2>2. \A j \in DOMAIN socks \ {k} : socks[j].relay # tok
      BY <1>1, <1>2, TokensApart
    <2>3. \A j \in DOMAIN socks \ {k} :
              IF socks'[j].hs
              THEN /\ Silent(wire', socks'[j].relay) /\ Rising(socks'[j].pending)
                   /\ \A i \in 1..Len(socks'[j].pending) : socks'[j].pending[i] \in 1..Len(asked')
              ELSE socks'[j].pending = <<>>
      BY <1>8, <2>1, <2>2 DEF Orderly, SocksQuiet, AskedKept
    <2> QED
      BY <2>1, <2>3 DEF SocksQuiet
  <1>10. JobsQuiet'
    <2>1. \A t \in DOMAIN jobs : t # tok
      BY <1>1, <1>2, TokensApart
    <2> QED
      BY <1>8, <2>1 DEF Orderly, JobsQuiet, JobsKept, JobsSame
  <1> QED
    BY <1>6, <1>7, <1>9, <1>10 DEF Orderly

LEMMA OrderlyStep ==
    ASSUME Typed, Typed', Routed, Orderly, Clean, Step
    PROVE  Orderly'
  <1>1. AskedKept
    BY AskedStep
  <1>2. CASE Kept /\ UNCHANGED wire
    BY <1>1, <1>2, OrderlyStays DEF Kept
  <1>3. ASSUME NEW k \in Keys, DatagramStep(k)
        PROVE  Orderly'
    BY <1>1, <1>3, OrderlyDatagram
  <1>4. ASSUME NEW k \in Keys, Ready(k), JobsKept, RoutesKept
        PROVE  Orderly'
    BY <1>1, <1>4, OrderlyReady
  <1>5. ASSUME NEW t \in DOMAIN jobs, JobSends(t), SocksKept, RoutesKept
        PROVE  Orderly'
    <2>1. PICK n : n = jobs[t].n
      OBVIOUS
    <2>2. PICK via : via = jobs[t].kind
      OBVIOUS
    <2>3. SentOut(n, t, via, jobs[t].to) /\ jobs[t].stage # "Answer" /\ jobs'[t].stage = "Answer"
          /\ \A u \in DOMAIN jobs \ {t} : jobs'[u] = jobs[u]
      BY <1>5, <2>1, <2>2 DEF JobSends
    <2>4. n \in 1..Len(asked')
      BY <1>1, <2>1 DEF Clean, JobsClean, May, AskedKept
    <2>5. \A i \in 1..Len(wire) : wire[i].token # t
      BY <2>3 DEF Orderly, JobsQuiet, Silent
    <2>6. next_token \in Nat /\ next_token' \in Nat
      BY DEF Typed, RoutesOK
    <2>7. t \in 1..(next_token' - 1) /\ next_token' >= next_token
      BY <1>5, <2>6, TokensApart DEF RoutesKept
    <2>8. \A k \in DOMAIN socks : socks[k].relay # t
      BY TokensApart
    <2>9. \A u \in DOMAIN jobs : jobs'[u].stage # "Answer" => jobs[u].stage # "Answer" /\ u # t
      BY <2>3
    <2> QED
      BY <1>1, <1>5, <2>3, <2>4, <2>5, <2>7, <2>8, <2>9, OrderlySends DEF JobSends, JobsSame
  <1>6. ASSUME NEW U, NEW S, NEW J, Removes(U, S, J), UNCHANGED wire
        PROVE  Orderly'
    <2>1. WireOwned' /\ InOrder'
      BY <1>1, <1>6 DEF Orderly, WireOwned, InOrder, AskedKept, Removes
    <2>2. SocksQuiet'
      BY <1>1, <1>6 DEF Orderly, SocksQuiet, AskedKept, Removes
    <2>3. JobsQuiet'
      BY <1>6 DEF Orderly, JobsQuiet, Removes
    <2> QED
      BY <2>1, <2>2, <2>3 DEF Orderly
  <1> QED
    BY <1>2, <1>3, <1>4, <1>5, <1>6 DEF Step

LEMMA InitQuiet ==
    ASSUME Init
    PROVE  Tables /\ Clean /\ Orderly
  <1>1. wire = <<>> /\ DOMAIN socks = {} /\ DOMAIN jobs = {}
    BY DEF Init
  <1>2. 1..Len(<<>>) = {}
    OBVIOUS
  <1>3. Clean
    BY <1>1, <1>2 DEF Clean, WireClean, SocksClean, JobsClean
  <1>4. Orderly
    BY <1>1, <1>2 DEF Orderly, WireOwned, InOrder, SocksQuiet, JobsQuiet
  <1> QED
    BY <1>3, <1>4, InitTables

\* What an association relays goes out in the order the app sent it, buffered datagrams
\* first, and none before the proxy has granted it, for any cap of the buffer.
THEOREM RelayKeepsOrder == Spec => []RelayedInOrder
  <1>1. Init => Tables /\ Clean /\ Orderly
    BY InitQuiet
  <1>2. Tables /\ Clean /\ Orderly /\ [Next]_vars => (Tables /\ Clean /\ Orderly)'
    BY TablesStep, CleanStep, OrderlyStep DEF Tables
  <1>3. Tables /\ Clean /\ Orderly => RelayedInOrder
    <2>1. Tables => DOMAIN wire = 1..Len(wire)
      BY DEF Tables, Typed, HistoryOK
    <2> QED
      BY <2>1 DEF Orderly, InOrder, SocksQuiet, Silent, RelayedInOrder
  <1> QED
    BY <1>1, <1>2, <1>3, PTL DEF Spec

-----------------------------------------------------------------------------
(* Every datagram goes where it was to go *)

\* All that is sent on tok goes to one place.
Aimed(w, tok, to) == \A i \in 1..Len(w) : w[i].token = tok => w[i].to = to

WireTargets ==
    \A i, j \in 1..Len(wire) : wire[i].token = wire[j].token => wire[i].to = wire[j].to
Openers ==
    \A i \in 1..Len(wire) :
      (\A j \in 1..(i - 1) : wire[j].token # wire[i].token)
        => wire[i].to = Target(asked[wire[i].n])
UdpTargets ==
    \A k \in DOMAIN udp : ~Silent(wire, udp[k].token) /\ Aimed(wire, udp[k].token, udp[k].to)
SocksTargets ==
    \A k \in DOMAIN socks :
      /\ Aimed(wire, socks[k].relay, socks[k].to)
      /\ IF socks[k].hs
         THEN Len(socks[k].pending) > 0 /\ Target(asked[socks[k].pending[1]]) = socks[k].to
         ELSE ~Silent(wire, socks[k].relay)
JobsTargets == \A t \in DOMAIN jobs : jobs[t].to = Target(asked[jobs[t].n])
Targeted == WireTargets /\ Openers /\ UdpTargets /\ SocksTargets /\ JobsTargets

\* What is new on the wire is all tok's, and goes to one place.
Grown(tok, to) ==
    /\ Len(wire) \in Nat /\ Len(wire') \in Nat /\ Len(wire) < Len(wire')
    /\ \A i \in 1..Len(wire) : i \in 1..Len(wire') /\ wire'[i] = wire[i]
    /\ \A i \in 1..Len(wire') : i \in 1..Len(wire) \/ (wire'[i].token = tok /\ wire'[i].to = to)
\* If it is the first on its token, it goes where it was meant to.
Opens(tok, to) == Silent(wire, tok) => to = Target(asked'[wire'[Len(wire) + 1].n])
\* What is said of tokens still holds.
AimsKept(tok, to) ==
    /\ \A x, y : Aimed(wire, x, y) /\ (x = tok => y = to) => Aimed(wire', x, y)
    /\ \A x : ~Silent(wire, x) => ~Silent(wire', x)
    /\ ~Silent(wire', tok)

LEMMA SentGrows ==
    ASSUME Typed, NEW n, NEW tok, NEW via, NEW to, SentOut(n, tok, via, to)
    PROVE  Grown(tok, to) /\ wire'[Len(wire) + 1].n = n
  <1>1. /\ Len(wire) \in Nat /\ Len(wire') = Len(wire) + 1
        /\ \A i \in 1..Len(wire) : wire'[i] = wire[i]
        /\ wire'[Len(wire) + 1].n = n /\ wire'[Len(wire) + 1].token = tok
        /\ wire'[Len(wire) + 1].to = to
    BY DEF Typed, HistoryOK, SentOut
  <1>2. \A i \in 1..Len(wire') : i \in 1..Len(wire) \/ i = Len(wire) + 1
    BY <1>1
  <1> QED
    BY <1>1, <1>2 DEF Grown

LEMMA GrowsTargeted ==
    ASSUME WireTargets, Openers, WireOwned, AskedKept, NEW tok, NEW to,
           Grown(tok, to), Aimed(wire, tok, to), Opens(tok, to)
    PROVE  WireTargets' /\ Openers' /\ AimsKept(tok, to)
  <1>1. /\ Len(wire) \in Nat /\ Len(wire') \in Nat /\ Len(wire) < Len(wire')
        /\ \A i \in 1..Len(wire) : i \in 1..Len(wire') /\ wire'[i] = wire[i]
        /\ \A i \in 1..Len(wire') :
             i \in 1..Len(wire) \/ (wire'[i].token = tok /\ wire'[i].to = to)
    BY DEF Grown
  <1>2. \A i \in 1..Len(wire') : wire'[i].token = tok => wire'[i].to = to
    BY <1>1 DEF Aimed
  <1>3. WireTargets'
    <2>1. SUFFICES ASSUME NEW i \in 1..Len(wire'), NEW j \in 1..Len(wire'),
                          wire'[i].token = wire'[j].token
                   PROVE  wire'[i].to = wire'[j].to
      BY DEF WireTargets
    <2>2. CASE wire'[i].token = tok
      BY <1>2, <2>1, <2>2
    <2>3. CASE wire'[i].token # tok
      <3>1. i \in 1..Len(wire) /\ j \in 1..Len(wire) /\ wire'[i] = wire[i] /\ wire'[j] = wire[j]
        BY <1>1, <2>1, <2>3
      <3> QED
        BY <2>1, <3>1 DEF WireTargets
    <2> QED
      BY <2>2, <2>3
  <1>4. Openers'
    <2>1. SUFFICES ASSUME NEW i \in 1..Len(wire'),
                          \A j \in 1..(i - 1) : wire'[j].token # wire'[i].token
                   PROVE  wire'[i].to = Target(asked'[wire'[i].n])
      BY DEF Openers
    <2>2. CASE i \in 1..Len(wire)
      <3>1. \A j \in 1..(i - 1) : j \in 1..Len(wire)
        BY <1>1, <2>2
      <3>2. wire'[i] = wire[i] /\ \A j \in 1..(i - 1) : wire'[j] = wire[j]
        BY <1>1, <2>2, <3>1
      <3>3. \A j \in 1..(i - 1) : wire[j].token # wire[i].token
        BY <2>1, <3>2
      <3>4. asked'[wire[i].n] = asked[wire[i].n]
        BY <2>2 DEF WireOwned, AskedKept
      <3>5. wire[i].to = Target(asked[wire[i].n])
        BY <2>2, <3>3 DEF Openers
      <3> QED
        BY <3>2, <3>4, <3>5
    <2>3. CASE i \notin 1..Len(wire)
      <3>1. wire'[i].token = tok /\ wire'[i].to = to
        BY <1>1, <2>3
      <3>2. i = Len(wire) + 1
        <4>1. CASE i > Len(wire) + 1
          <5>1. Len(wire) + 1 \in 1..(i - 1) /\ Len(wire) + 1 \in 1..Len(wire')
                /\ Len(wire) + 1 \notin 1..Len(wire)
            BY <1>1, <4>1
          <5>2. wire'[Len(wire) + 1].token = tok
            BY <1>1, <5>1
          <5> QED
            BY <2>1, <3>1, <5>1, <5>2
        <4> QED
          BY <1>1, <2>3, <4>1
      <3>3. Silent(wire, tok)
        <4>1. \A j \in 1..Len(wire) : j \in 1..(i - 1) /\ wire'[j] = wire[j]
          BY <1>1, <3>2
        <4> QED
          BY <2>1, <3>1, <4>1 DEF Silent
      <3> QED
        BY <3>1, <3>2, <3>3 DEF Opens
    <2> QED
      BY <2>2, <2>3
  <1>5. ASSUME NEW x, NEW y, Aimed(wire, x, y), x = tok => y = to
        PROVE  Aimed(wire', x, y)
    <2>1. SUFFICES ASSUME NEW i \in 1..Len(wire'), wire'[i].token = x
                   PROVE  wire'[i].to = y
      BY DEF Aimed
    <2>2. CASE x = tok
      BY <1>2, <1>5, <2>1, <2>2
    <2>3. CASE x # tok
      <3>1. i \in 1..Len(wire) /\ wire'[i] = wire[i]
        BY <1>1, <2>1, <2>3
      <3> QED
        BY <1>5, <2>1, <3>1 DEF Aimed
    <2> QED
      BY <2>2, <2>3
  <1>6. ~Silent(wire', tok)
    <2>1. Len(wire) + 1 \in 1..Len(wire') /\ Len(wire) + 1 \notin 1..Len(wire)
      BY <1>1
    <2>2. wire'[Len(wire) + 1].token = tok
      BY <1>1, <2>1
    <2> QED
      BY <2>1, <2>2 DEF Silent
  <1>7. \A x : ~Silent(wire, x) => ~Silent(wire', x)
    BY <1>1 DEF Silent
  <1> QED
    BY <1>3, <1>4, <1>5, <1>6, <1>7 DEF AimsKept

LEMMA WireTargetsStay ==
    ASSUME WireTargets, Openers, WireOwned, AskedKept, UNCHANGED wire
    PROVE  WireTargets' /\ Openers'
  <1>1. \A i \in 1..Len(wire) : asked'[wire[i].n] = asked[wire[i].n]
    BY DEF WireOwned, AskedKept
  <1> QED
    BY <1>1 DEF WireTargets, Openers

\* The rest of the tables keeps what is said of it, when the wire stays or grows on
\* a token of its own.
LEMMA UdpTargetsStay ==
    ASSUME UdpTargets, UdpSame, UNCHANGED wire
    PROVE  UdpTargets'
  BY DEF UdpTargets, UdpSame

LEMMA UdpTargetsGrow ==
    ASSUME UdpTargets, UdpSame, NEW tok, NEW to, AimsKept(tok, to),
           \A k \in DOMAIN udp : udp[k].token = tok => udp[k].to = to
    PROVE  UdpTargets'
  <1>1. \A k \in DOMAIN udp : ~Silent(wire', udp[k].token) /\ Aimed(wire', udp[k].token, udp[k].to)
    BY DEF UdpTargets, AimsKept
  <1> QED
    BY <1>1 DEF UdpTargets, UdpSame

\* Datagram n waits unmoved.
LEMMA PendingTarget ==
    ASSUME SocksQuiet, SocksTargets, AskedKept, NEW k \in DOMAIN socks, socks[k].hs,
           Len(socks[k].pending) \in Nat
    PROVE  Target(asked'[socks[k].pending[1]]) = socks[k].to
  <1>1. Len(socks[k].pending) > 0 /\ Target(asked[socks[k].pending[1]]) = socks[k].to
    BY DEF SocksTargets
  <1>2. 1 \in 1..Len(socks[k].pending)
    BY <1>1
  <1>3. socks[k].pending[1] \in 1..Len(asked)
    BY <1>2 DEF SocksQuiet
  <1>4. asked'[socks[k].pending[1]] = asked[socks[k].pending[1]]
    BY <1>3 DEF AskedKept
  <1> QED
    BY <1>1, <1>4

LEMMA SocksTargetsStay ==
    ASSUME Typed, SocksQuiet, SocksTargets, AskedKept, SocksKept, UNCHANGED wire
    PROVE  SocksTargets'
  <1>1. \A k \in DOMAIN socks : socks[k].hs => Target(asked'[socks[k].pending[1]]) = socks[k].to
    BY PendingTarget DEF Typed, SocksOK, SocksRec
  <1> QED
    BY <1>1 DEF SocksTargets, SocksKept, SocksSame

LEMMA SocksTargetsGrow ==
    ASSUME Typed, SocksQuiet, SocksTargets, AskedKept, SocksKept, NEW tok, NEW to, AimsKept(tok, to),
           \A k \in DOMAIN socks : socks[k].relay = tok => socks[k].to = to
    PROVE  SocksTargets'
  <1>1. \A k \in DOMAIN socks : socks[k].hs => Target(asked'[socks[k].pending[1]]) = socks[k].to
    BY PendingTarget DEF Typed, SocksOK, SocksRec
  <1>2. \A k \in DOMAIN socks : /\ Aimed(wire', socks[k].relay, socks[k].to)
                                /\ ~Silent(wire, socks[k].relay) => ~Silent(wire', socks[k].relay)
    BY DEF SocksTargets, AimsKept
  <1> QED
    BY <1>1, <1>2 DEF SocksTargets, SocksKept, SocksSame

LEMMA JobsTargetsStay ==
    ASSUME JobsTargets, JobsClean, AskedKept, JobsSame
    PROVE  JobsTargets'
  <1>1. \A t \in DOMAIN jobs : asked'[jobs[t].n] = asked[jobs[t].n]
    BY DEF JobsClean, May, AskedKept
  <1> QED
    BY <1>1 DEF JobsTargets, JobsSame

\* A new token is silent.
LEMMA FreshSilent ==
    ASSUME Typed, WireOwned
    PROVE  /\ Silent(wire, next_token) /\ \A to : Aimed(wire, next_token, to)
           /\ Silent(wire, next_token + 1) /\ \A to : Aimed(wire, next_token + 1, to)
  <1>1. next_token \in Nat
    BY DEF Typed, RoutesOK
  <1>2. \A i \in 1..Len(wire) : wire[i].token # next_token /\ wire[i].token # next_token + 1
    BY <1>1 DEF WireOwned
  <1> QED
    BY <1>2 DEF Silent, Aimed

LEMMA TargetedDatagram ==
    ASSUME Typed, Routed, Clean, Orderly, Targeted, NEW k \in Keys, DatagramStep(k), AskedKept
    PROVE  Targeted'
  <1> DEFINE n == Len(asked) + 1
  <1>1. Target(asked'[n]) = Goal(k)
    BY AskedGrows DEF DatagramStep, JustTaken
  <1>2. /\ WireTargets /\ Openers /\ UdpTargets /\ SocksTargets /\ JobsTargets
        /\ WireOwned /\ SocksQuiet /\ JobsClean
    BY DEF Targeted, Orderly, Clean
  <1>3. CASE Kept /\ UNCHANGED wire
    BY <1>2, <1>3, WireTargetsStay, UdpTargetsStay, SocksTargetsStay, JobsTargetsStay
       DEF Targeted, Kept, JobsKept
  <1>4. CASE UdpSame /\ JobsKept /\ Waits(k, n) /\ UNCHANGED wire
    <2>1. WireTargets' /\ Openers' /\ UdpTargets' /\ JobsTargets'
      BY <1>2, <1>4, WireTargetsStay, UdpTargetsStay, JobsTargetsStay DEF JobsKept
    <2>2. PICK p : p = socks[k].pending
      OBVIOUS
    <2>3. PICK q : q = Append(p, n)
      OBVIOUS
    <2>4. /\ p \in Seq(Nat) /\ socks'[k].pending = q /\ k \in DOMAIN socks
          /\ socks[k].hs /\ socks'[k].hs /\ socks'[k].relay = socks[k].relay /\ socks'[k].to = socks[k].to
      BY <1>4, <2>2, <2>3 DEF Waits, SocksSame, Typed, SocksOK, SocksRec
    <2>5. Len(p) > 0 /\ Target(asked'[p[1]]) = socks[k].to /\ Aimed(wire, socks[k].relay, socks[k].to)
      BY <1>2, <2>2, <2>4, PendingTarget DEF SocksTargets
    <2>6. Len(q) > 0 /\ q[1] = p[1]
      BY <2>3, <2>4, <2>5
    <2>7. \A j \in DOMAIN socks : socks[j].hs => Target(asked'[socks[j].pending[1]]) = socks[j].to
      BY <1>2, PendingTarget DEF Typed, SocksOK, SocksRec
    <2>8. DOMAIN socks' = DOMAIN socks /\ \A j \in DOMAIN socks \ {k} : socks'[j] = socks[j]
      BY <1>4 DEF Waits, SocksSame
    <2>9. SocksTargets'
      BY <1>2, <1>4, <2>4, <2>5, <2>6, <2>7, <2>8 DEF SocksTargets
    <2> QED
      BY <2>1, <2>9 DEF Targeted
  <1>5. CASE /\ k \in DOMAIN socks /\ ~socks[k].hs /\ UdpSame /\ SocksKept /\ JobsKept
             /\ SentOut(n, socks[k].relay, "relay", socks[k].to)
    <2>1. PICK tok, to : tok = socks[k].relay /\ to = socks[k].to
      OBVIOUS
    <2>2. Grown(tok, to)
      BY <1>5, <2>1, SentGrows
    <2>3. ~Silent(wire, tok) /\ Aimed(wire, tok, to)
      BY <1>2, <1>5, <2>1 DEF SocksTargets
    <2>4. WireTargets' /\ Openers' /\ AimsKept(tok, to)
      BY <1>2, <2>2, <2>3, GrowsTargeted DEF Opens
    <2>5. UdpTargets'
      <3>1. \A j \in DOMAIN udp : udp[j].token # tok
        BY <1>5, <2>1, TokensApart
      <3> QED
        BY <1>2, <1>5, <2>4, <3>1, UdpTargetsGrow
    <2>6. SocksTargets'
      <3>1. \A j \in DOMAIN socks : socks[j].relay = tok => socks[j].to = to
        BY <1>5, <2>1, TokensApart
      <3> QED
        BY <1>2, <1>5, <2>4, <3>1, SocksTargetsGrow
    <2> QED
      BY <1>2, <1>5, <2>4, <2>5, <2>6, JobsTargetsStay DEF Targeted, JobsKept
  <1>6. CASE UdpSame /\ JobsKept /\ SocksAdds(k, n) /\ UNCHANGED wire
    <2>1. WireTargets' /\ Openers' /\ UdpTargets' /\ JobsTargets'
      BY <1>2, <1>6, WireTargetsStay, UdpTargetsStay, JobsTargetsStay DEF JobsKept
    <2>2. PICK p : p = <<n>>
      OBVIOUS
    <2>3. /\ socks'[k].hs /\ socks'[k].pending = p /\ socks'[k].relay = next_token + 1
          /\ socks'[k].to = Goal(k)
          /\ DOMAIN socks' = DOMAIN socks \union {k} /\ \A j \in DOMAIN socks : socks'[j] = socks[j]
      BY <1>6, <2>2 DEF SocksAdds
    <2>4. Len(p) > 0 /\ p[1] = n
      BY <2>2
    <2>5. Aimed(wire, next_token + 1, Goal(k))
      BY <1>2, FreshSilent
    <2>6. \A j \in DOMAIN socks : socks[j].hs => Target(asked'[socks[j].pending[1]]) = socks[j].to
      BY <1>2, PendingTarget DEF Typed, SocksOK, SocksRec
    <2>7. \A j \in DOMAIN socks :
            /\ Aimed(wire', socks'[j].relay, socks'[j].to)
            /\ IF socks'[j].hs
               THEN Len(socks'[j].pending) > 0 /\ Target(asked'[socks'[j].pending[1]]) = socks'[j].to
               ELSE ~Silent(wire', socks'[j].relay)
      BY <1>2, <1>6, <2>3, <2>6 DEF SocksTargets
    <2>8. Aimed(wire', socks'[k].relay, socks'[k].to)
      BY <1>6, <2>3, <2>5
    <2>9. Len(socks'[k].pending) > 0 /\ Target(asked'[socks'[k].pending[1]]) = socks'[k].to
      BY <1>1, <2>3, <2>4
    <2>10. SocksTargets'
      BY <2>3, <2>7, <2>8, <2>9 DEF SocksTargets
    <2> QED
      BY <2>1, <2>10 DEF Targeted
  <1>7. ASSUME NEW kind \in {"tcp", "tls"}, Way(k, kind), JobAdds(k, n, kind), UdpSame, SocksKept,
               UNCHANGED wire
        PROVE  Targeted'
    <2>1. WireTargets' /\ Openers' /\ UdpTargets' /\ SocksTargets'
      BY <1>2, <1>7, WireTargetsStay, UdpTargetsStay, SocksTargetsStay
    <2>2. /\ jobs'[next_token].n = n /\ jobs'[next_token].to = dns.resolver
          /\ DOMAIN jobs' = DOMAIN jobs \union {next_token}
          /\ \A t \in DOMAIN jobs : jobs'[t] = jobs[t]
      BY <1>7 DEF JobAdds
    <2>3. k \in Dns
      BY <1>7, OnlyQueries DEF DatagramStep
    <2>4. \A t \in DOMAIN jobs : jobs[t].to = Target(asked'[jobs[t].n])
      BY <1>2 DEF JobsTargets, JobsClean, May, AskedKept
    <2>5. JobsTargets'
      BY <1>1, <2>2, <2>3, <2>4 DEF JobsTargets, Goal
    <2> QED
      BY <2>1, <2>5 DEF Targeted
  <1>8. CASE /\ SocksKept /\ JobsKept /\ k \in DOMAIN udp /\ UdpSame
             /\ SentOut(n, udp[k].token, "direct", udp[k].to)
    <2>1. PICK tok, to : tok = udp[k].token /\ to = udp[k].to
      OBVIOUS
    <2>2. Grown(tok, to)
      BY <1>8, <2>1, SentGrows
    <2>3. ~Silent(wire, tok) /\ Aimed(wire, tok, to)
      BY <1>2, <1>8, <2>1 DEF UdpTargets
    <2>4. WireTargets' /\ Openers' /\ AimsKept(tok, to)
      BY <1>2, <2>2, <2>3, GrowsTargeted DEF Opens
    <2>5. UdpTargets'
      <3>1. \A j \in DOMAIN udp : udp[j].token = tok => udp[j].to = to
        BY <1>8, <2>1, TokensApart
      <3> QED
        BY <1>2, <1>8, <2>4, <3>1, UdpTargetsGrow
    <2>6. SocksTargets'
      <3>1. \A j \in DOMAIN socks : socks[j].relay # tok
        BY <1>8, <2>1, TokensApart
      <3> QED
        BY <1>2, <1>8, <2>4, <3>1, SocksTargetsGrow
    <2> QED
      BY <1>2, <1>8, <2>4, <2>5, <2>6, JobsTargetsStay DEF Targeted, JobsKept
  <1>9. CASE /\ SocksKept /\ JobsKept /\ UdpAdds(k)
             /\ SentOut(n, next_token, "direct", Goal(k))
    <2>1. PICK tok, to : tok = next_token /\ to = Goal(k)
      OBVIOUS
    <2>2. Grown(tok, to) /\ wire'[Len(wire) + 1].n = n
      <3>1. SentOut(n, tok, "direct", to)
        BY <1>9, <2>1
      <3> QED
        BY <3>1, SentGrows
    <2>3. Aimed(wire, tok, to)
      BY <1>2, <2>1, FreshSilent
    <2>4. Opens(tok, to)
      BY <1>1, <2>1, <2>2 DEF Opens
    <2>5. WireTargets' /\ Openers' /\ AimsKept(tok, to)
      BY <1>2, <2>2, <2>3, <2>4, GrowsTargeted
    <2>6. UdpTargets'
      <3>1. /\ DOMAIN udp' = DOMAIN udp \union {k} /\ udp'[k].token = tok /\ udp'[k].to = to
            /\ \A j \in DOMAIN udp : udp'[j] = udp[j]
        BY <1>9, <2>1 DEF UdpAdds
      <3>2. \A j \in DOMAIN udp : udp[j].token # tok
        BY <2>1, TokensApart, FreshToken
      <3>3. \A j \in DOMAIN udp : ~Silent(wire', udp[j].token) /\ Aimed(wire', udp[j].token, udp[j].to)
        BY <1>2, <2>5, <3>2 DEF UdpTargets, AimsKept
      <3>4. ~Silent(wire', tok) /\ Aimed(wire', tok, to)
        BY <2>3, <2>5 DEF AimsKept
      <3> QED
        BY <3>1, <3>3, <3>4 DEF UdpTargets
    <2>7. SocksTargets'
      <3>1. \A j \in DOMAIN socks : socks[j].relay # tok
        BY <2>1, TokensApart, FreshToken
      <3> QED
        BY <1>2, <1>9, <2>5, <3>1, SocksTargetsGrow
    <2> QED
      BY <1>2, <1>9, <2>5, <2>6, <2>7, JobsTargetsStay DEF Targeted, JobsKept
  <1> QED
    BY <1>3, <1>4, <1>5, <1>6, <1>7, <1>8, <1>9 DEF DatagramStep

LEMMA TargetedReady ==
    ASSUME Typed, Routed, Clean, Orderly, Targeted, NEW k \in Keys, Ready(k), UdpSame, JobsKept,
           AskedKept
    PROVE  Targeted'
  <1>1. PICK p : p = socks[k].pending
    OBVIOUS
  <1>2. PICK tok, to : tok = socks[k].relay /\ to = socks[k].to
    OBVIOUS
  <1>3. /\ WireTargets /\ Openers /\ UdpTargets /\ SocksTargets /\ JobsTargets
        /\ WireOwned /\ SocksQuiet /\ JobsClean
    BY DEF Targeted, Orderly, Clean
  <1>4. /\ k \in DOMAIN socks /\ socks[k].hs /\ p \in Seq(Nat) /\ Len(p) \in Nat /\ Len(wire) \in Nat
        /\ wire' \in Seq(Packet)
    BY <1>1 DEF Ready, Typed, HistoryOK, SocksOK, SocksRec
  <1>5. Len(p) > 0 /\ Target(asked'[p[1]]) = to /\ Aimed(wire, tok, to)
    BY <1>1, <1>2, <1>3, <1>4, PendingTarget DEF SocksTargets
  <1>6. /\ Len(wire') = Len(wire) + Len(p)
        /\ \A i \in 1..Len(wire) : wire'[i] = wire[i]
        /\ \A i \in 1..Len(p) : /\ wire'[Len(wire) + i].n = p[i]
                                /\ wire'[Len(wire) + i].token = tok /\ wire'[Len(wire) + i].to = to
    BY <1>1, <1>2 DEF Ready
  <1>7. Grown(tok, to)
    <2>1. ASSUME NEW i \in 1..Len(wire'), i \notin 1..Len(wire)
          PROVE  wire'[i].token = tok /\ wire'[i].to = to
      <3>1. i - Len(wire) \in 1..Len(p) /\ Len(wire) + (i - Len(wire)) = i
        BY <1>4, <1>6, <2>1
      <3> QED
        BY <1>6, <3>1
    <2>2. Len(wire') \in Nat /\ Len(wire) < Len(wire') /\ \A i \in 1..Len(wire) : i \in 1..Len(wire')
      BY <1>4, <1>5, <1>6
    <2> QED
      BY <1>4, <1>6, <2>1, <2>2 DEF Grown
  <1>8. Opens(tok, to)
    <2>1. 1 \in 1..Len(p)
      BY <1>4, <1>5
    <2>2. wire'[Len(wire) + 1].n = p[1]
      BY <1>6, <2>1
    <2> QED
      BY <1>5, <2>2 DEF Opens
  <1>9. WireTargets' /\ Openers' /\ AimsKept(tok, to)
    BY <1>3, <1>5, <1>7, <1>8, GrowsTargeted
  <1>10. UdpTargets'
    <2>1. \A j \in DOMAIN udp : udp[j].token # tok
      BY <1>2, <1>4, TokensApart
    <2> QED
      BY <1>3, <1>9, <2>1, UdpTargetsGrow
  <1>11. SocksTargets'
    <2>1. /\ DOMAIN socks' = DOMAIN socks /\ ~socks'[k].hs /\ socks'[k].relay = tok /\ socks'[k].to = to
          /\ \A j \in DOMAIN socks \ {k} : socks'[j] = socks[j]
      BY <1>2, <1>4 DEF Ready, SocksSame
    <2>2. \A j \in DOMAIN socks \ {k} : socks[j].relay # tok
      BY <1>2, <1>4, TokensApart
    <2>3. \A j \in DOMAIN socks : socks[j].hs => Target(asked'[socks[j].pending[1]]) = socks[j].to
      BY <1>3, PendingTarget DEF Typed, SocksOK, SocksRec
    <2>4. \A j \in DOMAIN socks \ {k} :
            /\ Aimed(wire', socks[j].relay, socks[j].to)
            /\ ~Silent(wire, socks[j].relay) => ~Silent(wire', socks[j].relay)
      BY <1>3, <1>9, <2>2 DEF SocksTargets, AimsKept
    <2>5. \A j \in DOMAIN socks \ {k} :
            /\ Aimed(wire', socks'[j].relay, socks'[j].to)
            /\ IF socks'[j].hs
               THEN Len(socks'[j].pending) > 0 /\ Target(asked'[socks'[j].pending[1]]) = socks'[j].to
               ELSE ~Silent(wire', socks'[j].relay)
      BY <1>3, <2>1, <2>3, <2>4 DEF SocksTargets
    <2>6. ~Silent(wire', tok) /\ Aimed(wire', tok, to)
      BY <1>5, <1>9 DEF AimsKept
    <2> QED
      BY <2>1, <2>5, <2>6 DEF SocksTargets
  <1> QED
    BY <1>3, <1>9, <1>10, <1>11, JobsTargetsStay DEF Targeted, JobsKept

LEMMA TargetedStep ==
    ASSUME Typed, Routed, Clean, Orderly, Targeted, Step
    PROVE  Targeted'
  <1>1. /\ WireTargets /\ Openers /\ UdpTargets /\ SocksTargets /\ JobsTargets
        /\ WireOwned /\ SocksQuiet /\ JobsQuiet /\ JobsClean /\ AskedKept
    BY AskedStep DEF Targeted, Orderly, Clean
  <1>2. CASE Kept /\ UNCHANGED wire
    BY <1>1, <1>2, WireTargetsStay, UdpTargetsStay, SocksTargetsStay, JobsTargetsStay
       DEF Targeted, Kept, JobsKept
  <1>3. ASSUME NEW k \in Keys, DatagramStep(k)
        PROVE  Targeted'
    BY <1>1, <1>3, TargetedDatagram
  <1>4. ASSUME NEW k \in Keys, Ready(k), UdpSame, JobsKept
        PROVE  Targeted'
    BY <1>1, <1>4, TargetedReady
  <1>5. ASSUME NEW t \in DOMAIN jobs, JobSends(t), UdpSame, SocksKept
        PROVE  Targeted'
    <2>1. PICK n, via, to : n = jobs[t].n /\ via = jobs[t].kind /\ to = jobs[t].to
      OBVIOUS
    <2>2. SentOut(n, t, via, to) /\ JobsSame /\ jobs[t].stage # "Answer"
      BY <1>5, <2>1 DEF JobSends
    <2>3. Grown(t, to) /\ wire'[Len(wire) + 1].n = n
      BY <2>2, SentGrows
    <2>4. Aimed(wire, t, to)
      BY <1>1, <2>2 DEF JobsQuiet, Silent, Aimed
    <2>5. to = Target(asked'[n])
      BY <1>1, <2>1 DEF JobsTargets, JobsClean, May, AskedKept
    <2>6. WireTargets' /\ Openers' /\ AimsKept(t, to)
      BY <1>1, <2>3, <2>4, <2>5, GrowsTargeted DEF Opens
    <2>7. UdpTargets'
      BY <1>1, <1>5, <2>6, TokensApart, UdpTargetsGrow
    <2>8. SocksTargets'
      BY <1>1, <1>5, <2>6, TokensApart, SocksTargetsGrow
    <2> QED
      BY <1>1, <2>2, <2>6, <2>7, <2>8, JobsTargetsStay DEF Targeted
  <1>6. ASSUME NEW U, NEW S, NEW J, Removes(U, S, J), UNCHANGED wire
        PROVE  Targeted'
    <2>1. WireTargets' /\ Openers'
      BY <1>1, <1>6, WireTargetsStay
    <2>2. UdpTargets'
      BY <1>1, <1>6 DEF Removes, UdpTargets
    <2>3. SocksTargets'
      <3>1. \A k \in DOMAIN socks : socks[k].hs => Target(asked'[socks[k].pending[1]]) = socks[k].to
        BY <1>1, PendingTarget DEF Typed, SocksOK, SocksRec
      <3> QED
        BY <1>1, <1>6, <3>1 DEF Removes, SocksTargets
    <2>4. JobsTargets'
      <3>1. \A t \in DOMAIN jobs : asked'[jobs[t].n] = asked[jobs[t].n]
        BY <1>1 DEF JobsClean, May, AskedKept
      <3> QED
        BY <1>1, <1>6, <3>1 DEF Removes, JobsTargets
    <2> QED
      BY <2>1, <2>2, <2>3, <2>4 DEF Targeted
  <1> QED
    BY <1>2, <1>3, <1>4, <1>5, <1>6 DEF Step

\* A socket keeps one target, that of the datagram it was opened for as configured when
\* that datagram was taken, and every datagram leaves by a way it might have been given
\* then, for any number of apps, resolvers, proxies and changes of configuration.
THEOREM GoesAsConfigured == Spec => []AsConfigured
  <1> DEFINE Inv == Tables /\ Clean /\ Orderly /\ Targeted
  <1>1. Init => Inv
    <2>1. Init => wire = <<>> /\ DOMAIN udp = {} /\ DOMAIN socks = {} /\ DOMAIN jobs = {}
      BY DEF Init
    <2>2. 1..Len(<<>>) = {}
      OBVIOUS
    <2> QED
      BY <2>1, <2>2, InitQuiet
         DEF Targeted, WireTargets, Openers, UdpTargets, SocksTargets, JobsTargets
  <1>2. Inv /\ [Next]_vars => Inv'
    BY TablesStep, CleanStep, OrderlyStep, TargetedStep DEF Tables
  <1>3. Inv => AsConfigured
    <2>1. Inv => DOMAIN wire = 1..Len(wire)
      BY DEF Tables, Typed, HistoryOK
    <2> QED
      BY <2>1 DEF Targeted, WireTargets, Openers, Clean, WireClean, AsConfigured
  <1> QED
    BY <1>1, <1>2, <1>3, PTL DEF Spec

-----------------------------------------------------------------------------
(* No datagram leaves twice, and only servers repeat answers *)

AnswersKeyed ==
    \A i \in 1..Len(answers) : answers[i].n \in 1..Len(asked)
                               /\ answers[i].key = asked[answers[i].n].key
Repeats ==
    \A i, j \in 1..Len(answers) : i # j /\ answers[i].n = answers[j].n => BySession(answers[i].n)
AnswersOK == AnswersKeyed /\ Repeats
\* What a session has sent is its own key's, and went its way.
Fits(ask, e, k, via) == ask[e.n].key = k /\ e.via = via
WireKeyed ==
    \A i \in 1..Len(wire) :
      /\ \A k \in DOMAIN udp : wire[i].token = udp[k].token => Fits(asked, wire[i], k, "direct")
      /\ \A k \in DOMAIN socks : wire[i].token = socks[k].relay => Fits(asked, wire[i], k, "relay")
\* No datagram leaves twice, and none that has left still waits.
Unsent(w, n) == \A i \in 1..Len(w) : w[i].n # n
SentOnce == \A i, j \in 1..Len(wire) : wire[i].n = wire[j].n => i = j
PendingUnsent ==
    \A k \in DOMAIN socks : \A i \in 1..Len(socks[k].pending) : Unsent(wire, socks[k].pending[i])
\* A job's query is its own: nothing else sends or buffers it, or has answered it.
Unanswered(ans, n) == \A i \in 1..Len(ans) : ans[i].n # n
JobsAlone ==
    \A t \in DOMAIN jobs :
      /\ Unanswered(answers, jobs[t].n)
      /\ \A u \in DOMAIN jobs : jobs[u].n = jobs[t].n => u = t
      /\ \A i \in 1..Len(wire) : wire[i].n = jobs[t].n => wire[i].token = t
      /\ \A k \in DOMAIN socks : \A i \in 1..Len(socks[k].pending) : socks[k].pending[i] # jobs[t].n
Answering == AnswersOK /\ WireKeyed /\ SentOnce /\ PendingUnsent /\ JobsAlone

\* What is on the wire stays there.
WireKept == \A i \in 1..Len(wire) : i \in 1..Len(wire') /\ wire'[i] = wire[i]

LEMMA WireStep ==
    ASSUME Typed, Step
    PROVE  WireKept
  <1>1. Len(wire) \in Nat /\ \A k \in DOMAIN socks : Len(socks[k].pending) \in Nat
    BY DEF Typed, HistoryOK, SocksOK, SocksRec
  <1>2. ASSUME NEW n, NEW tok, NEW via, NEW to, SentOut(n, tok, via, to)
        PROVE  WireKept
    BY <1>1, <1>2 DEF SentOut, WireKept
  <1>3. ASSUME NEW k, Ready(k)
        PROVE  WireKept
    BY <1>1, <1>3 DEF Ready, WireKept
  <1>4. UNCHANGED wire => WireKept
    BY DEF WireKept
  <1> QED
    BY <1>2, <1>3, <1>4 DEF Step, DatagramStep, JobSends

LEMMA SessionStays ==
    ASSUME Typed, Typed', WireKept
    PROVE  \A n : BySession(n) => BySession(n)'
  <1>1. DOMAIN wire = 1..Len(wire) /\ DOMAIN wire' = 1..Len(wire')
    BY DEF Typed, HistoryOK
  <1> QED
    BY <1>1 DEF BySession, WireKept

\* One answer more, to a datagram of key k that had none or that a session carried.
LEMMA AnswerGrows ==
    ASSUME Typed, AnswersOK, AskedKept, UNCHANGED wire,
           NEW k \in Keys, NEW n \in 1..Len(asked'), Inject(k, n),
           Unanswered(answers, n) \/ BySession(n), asked'[n].key = k
    PROVE  /\ AnswersOK'
           /\ \A m : m # n /\ Unanswered(answers, m) => Unanswered(answers', m)
  <1>1. PICK a : a = [key |-> k, n |-> n]
    OBVIOUS
  <1>2. n \in Nat
    BY DEF AskedKept
  <1>3. a \in Answer /\ a.key = k /\ a.n = n
    BY <1>1, <1>2 DEF Answer
  <1>4. /\ Len(answers) \in Nat /\ Len(answers') = Len(answers) + 1
        /\ \A i \in 1..Len(answers) : answers'[i] = answers[i]
        /\ answers'[Len(answers) + 1] = a
        /\ \A i \in 1..Len(answers') : i \in 1..Len(answers) \/ i = Len(answers) + 1
    <2>1. answers \in Seq(Answer) /\ answers' = Append(answers, a)
      BY <1>1 DEF Inject, Typed, HistoryOK
    <2> QED
      BY <1>3, <2>1
  <1>5. \A i \in 1..Len(answers') : answers'[i].n \in 1..Len(asked')
                                    /\ answers'[i].key = asked'[answers'[i].n].key
    <2>1. \A i \in 1..Len(answers) : answers[i].n \in 1..Len(asked')
                                     /\ answers[i].key = asked'[answers[i].n].key
      BY DEF AnswersOK, AnswersKeyed, AskedKept
    <2> QED
      BY <1>3, <1>4, <2>1
  <1>6. Repeats'
    <2>1. SUFFICES ASSUME NEW i \in 1..Len(answers'), NEW j \in 1..Len(answers'), i # j,
                          answers'[i].n = answers'[j].n
                   PROVE  BySession(answers'[i].n)
      BY DEF Repeats, BySession
    <2>2. CASE i \in 1..Len(answers) /\ j \in 1..Len(answers)
      BY <1>4, <2>1, <2>2 DEF AnswersOK, Repeats
    <2>3. CASE i \in 1..Len(answers) /\ j = Len(answers) + 1
      BY <1>3, <1>4, <2>1, <2>3 DEF Unanswered
    <2>4. CASE i = Len(answers) + 1 /\ j \in 1..Len(answers)
      BY <1>3, <1>4, <2>1, <2>4 DEF Unanswered
    <2> QED
      BY <1>4, <2>1, <2>2, <2>3, <2>4
  <1>7. \A m : m # n /\ Unanswered(answers, m) => \A i \in 1..Len(answers') : answers'[i].n # m
    BY <1>3, <1>4 DEF Unanswered
  <1> QED
    BY <1>5, <1>6, <1>7 DEF AnswersOK, AnswersKeyed, Unanswered

LEMMA AnswersStay ==
    ASSUME Typed, Typed', AnswersOK, AskedKept, WireKept, UNCHANGED answers
    PROVE  AnswersOK' /\ \A m : Unanswered(answers, m) => Unanswered(answers', m)
  <1>1. AnswersKeyed'
    BY DEF AnswersOK, AnswersKeyed, AskedKept
  <1>2. \A n : BySession(n) => BySession(n)'
    BY SessionStays
  <1>3. \A i, j \in 1..Len(answers') :
          i # j /\ answers'[i].n = answers'[j].n => BySession(answers[i].n)
    BY DEF AnswersOK, Repeats
  <1>4. Repeats'
    BY <1>2, <1>3 DEF Repeats, BySession
  <1> QED
    BY <1>1, <1>4 DEF AnswersOK, Unanswered

\* What has not left yet leaves once.
LEMMA SentOnceGrows ==
    ASSUME Typed, SentOnce, NEW n, NEW tok, NEW via, NEW to, SentOut(n, tok, via, to), Unsent(wire, n)
    PROVE  /\ SentOnce'
           /\ \A m : m # n /\ Unsent(wire, m) => Unsent(wire', m)
  <1>1. LastSent(n, tok)
    BY SentLast
  <1>2. ASSUME NEW m, m # n, Unsent(wire, m)
        PROVE  Unsent(wire', m)
    BY <1>1, <1>2 DEF LastSent, Unsent
  <1>3. \A i \in 1..Len(wire') : /\ i \in 1..Len(wire) => wire'[i].n = wire[i].n /\ wire[i].n # n
                                 /\ i \notin 1..Len(wire) => i = Len(wire) + 1 /\ wire'[i].n = n
    BY <1>1 DEF LastSent, Unsent
  <1>4. SentOnce'
    BY <1>3 DEF SentOnce
  <1> QED
    BY <1>2, <1>4

LEMMA PendingStays ==
    ASSUME PendingUnsent, SocksKept,
           \A k \in DOMAIN socks : \A i \in 1..Len(socks[k].pending) :
             Unsent(wire, socks[k].pending[i]) => Unsent(wire', socks[k].pending[i])
    PROVE  PendingUnsent'
  BY DEF PendingUnsent, SocksKept, SocksSame

LEMMA KeyedStays ==
    ASSUME WireKeyed, WireOwned, AskedKept, UdpSame, SocksSame, UNCHANGED wire
    PROVE  WireKeyed'
  <1>1. \A i \in 1..Len(wire) :
          /\ \A k \in DOMAIN udp : wire[i].token = udp[k].token => Fits(asked', wire[i], k, "direct")
          /\ \A k \in DOMAIN socks : wire[i].token = socks[k].relay => Fits(asked', wire[i], k, "relay")
    BY DEF WireKeyed, Fits, WireOwned, AskedKept
  <1>2. /\ DOMAIN udp' = DOMAIN udp /\ \A k \in DOMAIN udp : udp'[k].token = udp[k].token
        /\ DOMAIN socks' = DOMAIN socks /\ \A k \in DOMAIN socks : socks'[k].relay = socks[k].relay
    BY DEF UdpSame, SocksSame
  <1> QED
    BY <1>1, <1>2 DEF WireKeyed

LEMMA KeyedSends ==
    ASSUME Typed, WireKeyed, WireOwned, AskedKept, UdpSame, SocksSame,
           NEW n, NEW tok, NEW via, NEW to, SentOut(n, tok, via, to),
           \A k \in DOMAIN udp : udp[k].token = tok => asked'[n].key = k /\ via = "direct",
           \A k \in DOMAIN socks : socks[k].relay = tok => asked'[n].key = k /\ via = "relay"
    PROVE  WireKeyed'
  <1>1. LastSent(n, tok) /\ wire'[Len(wire) + 1].via = via
    BY SentLast DEF SentOut
  <1>2. \A i \in 1..Len(wire) :
          /\ \A k \in DOMAIN udp : wire[i].token = udp[k].token => Fits(asked', wire[i], k, "direct")
          /\ \A k \in DOMAIN socks : wire[i].token = socks[k].relay => Fits(asked', wire[i], k, "relay")
    BY DEF WireKeyed, Fits, WireOwned, AskedKept
  <1>3. /\ DOMAIN udp' = DOMAIN udp /\ \A k \in DOMAIN udp : udp'[k].token = udp[k].token
        /\ DOMAIN socks' = DOMAIN socks /\ \A k \in DOMAIN socks : socks'[k].relay = socks[k].relay
    BY DEF UdpSame, SocksSame
  <1>4. ASSUME NEW i \in 1..Len(wire')
        PROVE  /\ \A k \in DOMAIN udp' : wire'[i].token = udp'[k].token => Fits(asked', wire'[i], k, "direct")
               /\ \A k \in DOMAIN socks' :
                    wire'[i].token = socks'[k].relay => Fits(asked', wire'[i], k, "relay")
    <2>1. CASE i \in 1..Len(wire)
      BY <1>1, <1>2, <1>3, <2>1 DEF LastSent
    <2>2. CASE i = Len(wire) + 1
      BY <1>1, <1>3, <2>2 DEF LastSent, Fits
    <2> QED
      BY <1>1, <2>1, <2>2 DEF LastSent
  <1> QED
    BY <1>4 DEF WireKeyed

\* The jobs that stay keep their queries to themselves.
LEMMA JobsStayAlone ==
    ASSUME JobsAlone, DOMAIN jobs' \subseteq DOMAIN jobs,
           \A t \in DOMAIN jobs' : jobs'[t].n = jobs[t].n /\ Unanswered(answers', jobs[t].n),
           \A i \in 1..Len(wire') : \/ i \in 1..Len(wire) /\ wire'[i] = wire[i]
                                    \/ \A t \in DOMAIN jobs' :
                                         wire'[i].n = jobs[t].n => wire'[i].token = t,
           \A k \in DOMAIN socks' : \A i \in 1..Len(socks'[k].pending) :
             \A t \in DOMAIN jobs' : socks'[k].pending[i] # jobs[t].n
    PROVE  JobsAlone'
  <1>1. \A t \in DOMAIN jobs' : Unanswered(answers', jobs'[t].n)
    BY DEF Unanswered
  <1>2. \A t \in DOMAIN jobs' : \A u \in DOMAIN jobs' : jobs'[u].n = jobs'[t].n => u = t
    BY DEF JobsAlone
  <1>3. \A t \in DOMAIN jobs' : \A i \in 1..Len(wire') : wire'[i].n = jobs'[t].n => wire'[i].token = t
    BY DEF JobsAlone
  <1> QED
    BY <1>1, <1>2, <1>3 DEF JobsAlone

LEMMA PendingNotJobs ==
    ASSUME JobsAlone, SocksKept
    PROVE  \A k \in DOMAIN socks' : \A i \in 1..Len(socks'[k].pending) :
             \A t \in DOMAIN jobs : socks'[k].pending[i] # jobs[t].n
  BY DEF JobsAlone, SocksKept, SocksSame

\* A datagram just taken is no job's query, and nothing is known of it.
LEMMA NewToAll ==
    ASSUME Typed, Clean, Orderly, Answering
    PROVE  /\ Unanswered(answers, Len(asked) + 1)
           /\ \A t \in DOMAIN jobs : jobs[t].n # Len(asked) + 1
           /\ \A i \in 1..Len(wire) : wire[i].n # Len(asked) + 1
           /\ \A k \in DOMAIN socks : \A i \in 1..Len(socks[k].pending) :
                socks[k].pending[i] # Len(asked) + 1
  <1>1. Len(asked) \in Nat
    BY DEF Typed, HistoryOK
  <1>2. \A m \in 1..Len(asked) : m # Len(asked) + 1
    BY <1>1
  <1>3. Unanswered(answers, Len(asked) + 1)
    BY <1>2 DEF Answering, AnswersOK, AnswersKeyed, Unanswered
  <1> QED
    BY <1>2, <1>3 DEF Clean, JobsClean, Orderly, WireOwned, SocksClean, May

LEMMA AnsweringDatagram ==
    ASSUME Typed, Typed', Routed, Clean, Orderly, Answering, NEW k \in Keys, DatagramStep(k),
           AskedKept, WireKept
    PROVE  Answering'
  <1> DEFINE n == Len(asked) + 1
  <1>1. n \in 1..Len(asked') /\ asked'[n].key = k
    BY AskedGrows DEF DatagramStep, JustTaken
  <1>2. /\ Unanswered(answers, n)
        /\ \A t \in DOMAIN jobs : jobs[t].n # n /\ Unanswered(answers, jobs[t].n)
        /\ Unsent(wire, n)
        /\ \A j \in DOMAIN socks : \A i \in 1..Len(socks[j].pending) : socks[j].pending[i] # n
    BY NewToAll DEF Answering, JobsAlone, Unsent
  <1>3. WireKeyed /\ WireOwned /\ AnswersOK /\ JobsAlone /\ SentOnce /\ PendingUnsent
    BY DEF Answering, Orderly
  <1>4. UNCHANGED answers => AnswersOK' /\ \A m : Unanswered(answers, m) => Unanswered(answers', m)
    BY <1>3, AnswersStay
  <1>5. CASE Kept /\ UNCHANGED wire /\ (UNCHANGED answers \/ Inject(k, n))
    <2>1. AnswersOK' /\ \A m : m # n /\ Unanswered(answers, m) => Unanswered(answers', m)
      BY <1>1, <1>2, <1>3, <1>4, <1>5, AnswerGrows
    <2>2. WireKeyed'
      BY <1>3, <1>5, KeyedStays DEF Kept, SocksKept
    <2>3. JobsAlone'
      <3>1. DOMAIN jobs' = DOMAIN jobs /\ \A t \in DOMAIN jobs : jobs'[t].n = jobs[t].n
        BY <1>5 DEF Kept, JobsKept, JobsSame
      <3>2. \A t \in DOMAIN jobs : Unanswered(answers', jobs[t].n)
        BY <1>2, <2>1
      <3> QED
        BY <1>3, <1>5, <3>1, <3>2, JobsStayAlone, PendingNotJobs DEF Kept
    <2>4. SentOnce' /\ PendingUnsent'
      BY <1>3, <1>5, PendingStays DEF Kept, SentOnce
    <2> QED
      BY <2>1, <2>2, <2>3, <2>4 DEF Answering
  <1>6. ASSUME UNCHANGED answers, JobsKept, SocksKept, NEW tok, NEW via, NEW to, SentOut(n, tok, via, to)
        PROVE  JobsAlone' /\ SentOnce' /\ PendingUnsent'
    <2>1. LastSent(n, tok)
      BY <1>6, SentLast
    <2>2. DOMAIN jobs' = DOMAIN jobs /\ \A t \in DOMAIN jobs : jobs'[t].n = jobs[t].n
      BY <1>6 DEF JobsKept, JobsSame
    <2>3. \A t \in DOMAIN jobs : Unanswered(answers', jobs[t].n)
      BY <1>2, <1>4, <1>6
    <2>4. \A i \in 1..Len(wire') : \/ i \in 1..Len(wire) /\ wire'[i] = wire[i]
                                   \/ \A t \in DOMAIN jobs : wire'[i].n # jobs[t].n
      BY <1>2, <2>1 DEF LastSent
    <2>5. JobsAlone'
      BY <1>3, <1>6, <2>2, <2>3, <2>4, JobsStayAlone, PendingNotJobs
    <2>6. SentOnce' /\ \A m : m # n /\ Unsent(wire, m) => Unsent(wire', m)
      BY <1>2, <1>3, <1>6, SentOnceGrows
    <2>7. PendingUnsent'
      BY <1>2, <1>3, <1>6, <2>6, PendingStays
    <2> QED
      BY <2>5, <2>6, <2>7
  <1>7. CASE UNCHANGED answers /\ UdpSame /\ JobsKept /\ Waits(k, n) /\ UNCHANGED wire
    <2>1. WireKeyed'
      BY <1>3, <1>7, KeyedStays DEF Waits
    <2>2. PICK p : p = socks[k].pending
      OBVIOUS
    <2>3. PICK q : q = Append(p, n)
      OBVIOUS
    <2>4. p \in Seq(Nat) /\ socks'[k].pending = q /\ k \in DOMAIN socks
      BY <1>7, <2>2, <2>3 DEF Waits, SocksSame, Typed, SocksOK, SocksRec
    <2>5. \A i \in 1..Len(q) : q[i] = n \/ (i \in 1..Len(p) /\ q[i] = p[i])
      BY <2>3, <2>4
    <2>6. \A i \in 1..Len(q) : \A t \in DOMAIN jobs : q[i] # jobs[t].n
      BY <1>2, <1>3, <2>2, <2>4, <2>5 DEF JobsAlone
    <2>7. \A j \in DOMAIN socks' : \A i \in 1..Len(socks'[j].pending) :
             \A t \in DOMAIN jobs : socks'[j].pending[i] # jobs[t].n
      <3>1. DOMAIN socks' = DOMAIN socks /\ \A j \in DOMAIN socks \ {k} : socks'[j] = socks[j]
        BY <1>7 DEF Waits, SocksSame
      <3> QED
        BY <1>3, <2>4, <2>6, <3>1 DEF JobsAlone
    <2>8. DOMAIN jobs' = DOMAIN jobs /\ \A t \in DOMAIN jobs : jobs'[t].n = jobs[t].n
      BY <1>7 DEF JobsKept, JobsSame
    <2>9. \A t \in DOMAIN jobs : Unanswered(answers', jobs[t].n)
      BY <1>2, <1>4, <1>7
    <2>10. JobsAlone'
      BY <1>3, <1>7, <2>7, <2>8, <2>9, JobsStayAlone
    <2>11. \A i \in 1..Len(q) : Unsent(wire, q[i])
      BY <1>2, <1>3, <2>2, <2>4, <2>5 DEF PendingUnsent
    <2>12. PendingUnsent'
      <3>1. DOMAIN socks' = DOMAIN socks /\ \A j \in DOMAIN socks \ {k} : socks'[j] = socks[j]
        BY <1>7 DEF Waits, SocksSame
      <3> QED
        BY <1>3, <1>7, <2>4, <2>11, <3>1 DEF PendingUnsent
    <2>13. SentOnce'
      BY <1>3, <1>7 DEF SentOnce
    <2> QED
      BY <1>4, <1>7, <2>1, <2>10, <2>12, <2>13 DEF Answering
  <1>8. CASE /\ UNCHANGED answers /\ UdpSame /\ JobsKept /\ SocksKept /\ k \in DOMAIN socks
             /\ SentOut(n, socks[k].relay, "relay", socks[k].to)
    <2>1. PICK tok, to : tok = socks[k].relay /\ to = socks[k].to
      OBVIOUS
    <2>0. SentOut(n, tok, "relay", to) /\ UdpSame /\ SocksSame
      BY <1>8, <2>1 DEF SocksKept
    <2>2. WireKeyed'
      <3>1. \A j \in DOMAIN udp : udp[j].token # tok
        BY <1>8, <2>1, TokensApart
      <3>2. \A j \in DOMAIN socks : socks[j].relay = tok => j = k
        BY <1>8, <2>1, TokensApart
      <3> QED
        BY <1>1, <1>3, <2>0, <2>1, <3>1, <3>2, KeyedSends
    <2> QED
      BY <1>4, <1>6, <1>8, <2>0, <2>2 DEF Answering
  <1>9. CASE UNCHANGED answers /\ UdpSame /\ JobsKept /\ SocksAdds(k, n) /\ UNCHANGED wire
    <2>1. /\ socks'[k].relay = next_token + 1 /\ socks'[k].pending = <<n>>
          /\ DOMAIN socks' = DOMAIN socks \union {k} /\ \A j \in DOMAIN socks : socks'[j] = socks[j]
      BY <1>9 DEF SocksAdds
    <2>2. \A i \in 1..Len(wire) : wire[i].token # next_token + 1
      BY <1>3, FreshToken DEF WireOwned
    <2>3. WireKeyed'
      BY <1>3, <1>9, <2>1, <2>2 DEF WireKeyed, Fits, WireOwned, AskedKept, UdpSame
    <2>4. PICK p : p = <<n>>
      OBVIOUS
    <2>5. socks'[k].pending = p /\ \A i \in 1..Len(p) : p[i] = n
      BY <2>1, <2>4
    <2>6. \A j \in DOMAIN socks' : \A i \in 1..Len(socks'[j].pending) :
             \A t \in DOMAIN jobs : socks'[j].pending[i] # jobs[t].n
      BY <1>2, <1>3, <2>1, <2>5 DEF JobsAlone
    <2>7. DOMAIN jobs' = DOMAIN jobs /\ \A t \in DOMAIN jobs : jobs'[t].n = jobs[t].n
      BY <1>9 DEF JobsKept, JobsSame
    <2>8. \A t \in DOMAIN jobs : Unanswered(answers', jobs[t].n)
      BY <1>2, <1>4, <1>9
    <2>9. JobsAlone'
      BY <1>3, <1>9, <2>6, <2>7, <2>8, JobsStayAlone
    <2>10. SentOnce' /\ PendingUnsent'
      BY <1>2, <1>3, <1>9, <2>1, <2>5 DEF SentOnce, PendingUnsent
    <2> QED
      BY <1>4, <1>9, <2>3, <2>9, <2>10 DEF Answering
  <1>10. ASSUME NEW kind, JobAdds(k, n, kind), UNCHANGED <<answers, wire>>, UdpSame, SocksKept
         PROVE  Answering'
    <2>1. WireKeyed'
      BY <1>3, <1>10, KeyedStays DEF SocksKept
    <2>2. /\ DOMAIN jobs' = DOMAIN jobs \union {next_token} /\ jobs'[next_token].n = n
          /\ \A t \in DOMAIN jobs : jobs'[t] = jobs[t]
      BY <1>10 DEF JobAdds
    <2>3. \A t \in DOMAIN jobs' : Unanswered(answers', jobs'[t].n)
      BY <1>2, <1>10, <2>2 DEF Unanswered
    <2>4. \A t \in DOMAIN jobs' : \A u \in DOMAIN jobs' : jobs'[u].n = jobs'[t].n => u = t
      BY <1>2, <1>3, <2>2 DEF JobsAlone
    <2>5. \A t \in DOMAIN jobs' : \A i \in 1..Len(wire') :
            wire'[i].n = jobs'[t].n => wire'[i].token = t
      BY <1>2, <1>3, <1>10, <2>2 DEF JobsAlone, Unsent
    <2>6. \A t \in DOMAIN jobs' : \A j \in DOMAIN socks' :
            \A i \in 1..Len(socks'[j].pending) : socks'[j].pending[i] # jobs'[t].n
      BY <1>2, <1>3, <1>10, <2>2 DEF JobsAlone, SocksKept, SocksSame
    <2>7. JobsAlone'
      BY <2>3, <2>4, <2>5, <2>6 DEF JobsAlone
    <2>8. SentOnce' /\ PendingUnsent'
      BY <1>3, <1>10, PendingStays DEF SentOnce
    <2> QED
      BY <1>4, <1>10, <2>1, <2>7, <2>8 DEF Answering
  <1>11. CASE /\ UNCHANGED answers /\ SocksKept /\ JobsKept /\ k \in DOMAIN udp /\ UdpSame
              /\ SentOut(n, udp[k].token, "direct", udp[k].to)
    <2>1. PICK tok, to : tok = udp[k].token /\ to = udp[k].to
      OBVIOUS
    <2>0. SentOut(n, tok, "direct", to) /\ SocksSame
      BY <1>11, <2>1 DEF SocksKept
    <2>2. WireKeyed'
      <3>1. \A j \in DOMAIN socks : socks[j].relay # tok
        BY <1>11, <2>1, TokensApart
      <3>2. \A j \in DOMAIN udp : udp[j].token = tok => j = k
        BY <1>11, <2>1, TokensApart
      <3> QED
        BY <1>1, <1>3, <1>11, <2>0, <2>1, <3>1, <3>2, KeyedSends
    <2> QED
      BY <1>4, <1>6, <1>11, <2>0, <2>2 DEF Answering
  <1>12. CASE /\ UNCHANGED answers /\ SocksKept /\ JobsKept /\ UdpAdds(k)
              /\ SentOut(n, next_token, "direct", Goal(k))
    <2>1. /\ DOMAIN udp' = DOMAIN udp \union {k} /\ udp'[k].token = next_token
          /\ \A j \in DOMAIN udp : udp'[j] = udp[j] /\ udp[j].token # next_token
      BY <1>12, TokensApart, FreshToken DEF UdpAdds
    <2>2. /\ DOMAIN socks' = DOMAIN socks
          /\ \A j \in DOMAIN socks : socks'[j].relay = socks[j].relay /\ socks[j].relay # next_token
      BY <1>12, TokensApart, FreshToken DEF SocksKept, SocksSame
    <2>3. \A i \in 1..Len(wire) : wire[i].token # next_token
      BY <1>3, FreshToken DEF WireOwned
    <2>4. LastSent(n, next_token) /\ wire'[Len(wire) + 1].via = "direct"
      BY <1>12, SentLast DEF SentOut
    <2>5. \A i \in 1..Len(wire) :
          /\ \A j \in DOMAIN udp : wire[i].token = udp[j].token => Fits(asked', wire[i], j, "direct")
          /\ \A j \in DOMAIN socks : wire[i].token = socks[j].relay => Fits(asked', wire[i], j, "relay")
      BY <1>3 DEF WireKeyed, Fits, WireOwned, AskedKept
    <2>6. ASSUME NEW i \in 1..Len(wire')
          PROVE  /\ \A j \in DOMAIN udp' :
                      wire'[i].token = udp'[j].token => Fits(asked', wire'[i], j, "direct")
                 /\ \A j \in DOMAIN socks' :
                      wire'[i].token = socks'[j].relay => Fits(asked', wire'[i], j, "relay")
      <3>1. CASE i \in 1..Len(wire)
        BY <2>1, <2>2, <2>3, <2>4, <2>5, <3>1 DEF LastSent
      <3>2. CASE i = Len(wire) + 1
        BY <1>1, <2>1, <2>2, <2>4, <3>2 DEF LastSent, Fits
      <3> QED
        BY <2>4, <3>1, <3>2 DEF LastSent
    <2>7. WireKeyed'
      BY <2>6 DEF WireKeyed
    <2> QED
      BY <1>4, <1>6, <1>12, <2>7 DEF Answering
  <1> QED
    BY <1>5, <1>7, <1>8, <1>9, <1>10, <1>11, <1>12 DEF DatagramStep

LEMMA AnsweringStep ==
    ASSUME Typed, Typed', Routed, Clean, Orderly, Answering, Step
    PROVE  Answering'
  <1>1. /\ AskedKept /\ WireKept /\ WireKeyed /\ WireOwned /\ AnswersOK /\ JobsAlone
        /\ SentOnce /\ PendingUnsent
    BY AskedStep, WireStep DEF Answering, Orderly
  <1>0. DOMAIN wire = 1..Len(wire)
    BY DEF Typed, HistoryOK
  <1>2. UNCHANGED answers => AnswersOK' /\ \A m : Unanswered(answers, m) => Unanswered(answers', m)
    BY <1>1, AnswersStay
  <1>3. Kept /\ UNCHANGED wire => SentOnce' /\ PendingUnsent'
    BY <1>1, PendingStays DEF Kept, SentOnce
  <1>4. ASSUME NEW tok, NEW n, SentOn(tok, n), \A t \in DOMAIN jobs : t # tok
        PROVE  /\ \A t \in DOMAIN jobs : jobs[t].n # n
               /\ \E i \in 1..Len(wire) : wire[i].token = tok /\ wire[i].n = n
    <2>1. \E i \in 1..Len(wire) : wire[i].token = tok /\ wire[i].n = n
      BY <1>0, <1>4 DEF SentOn
    <2>2. JobsAlone
      BY <1>1
    <2> QED
      BY <1>4, <2>1, <2>2 DEF JobsAlone
  <1>5. CASE Kept /\ UNCHANGED <<asked, wire, answers>>
    <2>1. WireKeyed'
      BY <1>1, <1>5, KeyedStays DEF Kept, SocksKept
    <2>2. JobsAlone'
      <3>1. DOMAIN jobs' = DOMAIN jobs /\ \A t \in DOMAIN jobs : jobs'[t].n = jobs[t].n
        BY <1>5 DEF Kept, JobsKept, JobsSame
      <3>2. \A t \in DOMAIN jobs : Unanswered(answers', jobs[t].n)
        BY <1>1, <1>2, <1>5 DEF JobsAlone
      <3> QED
        BY <1>1, <1>5, <3>1, <3>2, JobsStayAlone, PendingNotJobs DEF Kept
    <2> QED
      BY <1>2, <1>3, <1>5, <2>1, <2>2 DEF Answering
  <1>6. ASSUME Kept, UNCHANGED <<asked, wire>>, NEW k \in Keys, NEW n \in 1..Len(asked),
               BySession(n), Inject(k, n), asked[n].key = k, \A t \in DOMAIN jobs : jobs[t].n # n
        PROVE  Answering'
    <2>1. WireKeyed'
      BY <1>1, <1>6, KeyedStays DEF Kept, SocksKept
    <2>2. /\ AnswersOK'
          /\ \A m : m # n /\ Unanswered(answers, m) => Unanswered(answers', m)
      BY <1>1, <1>6, AnswerGrows
    <2>3. JobsAlone'
      <3>1. DOMAIN jobs' = DOMAIN jobs /\ \A t \in DOMAIN jobs : jobs'[t].n = jobs[t].n
        BY <1>6 DEF Kept, JobsKept, JobsSame
      <3>2. \A t \in DOMAIN jobs : Unanswered(answers', jobs[t].n)
        BY <1>1, <1>6, <2>2 DEF JobsAlone
      <3> QED
        BY <1>1, <1>6, <3>1, <3>2, JobsStayAlone, PendingNotJobs DEF Kept
    <2> QED
      BY <1>3, <1>6, <2>1, <2>2, <2>3 DEF Answering
  <1>7. ASSUME Kept, UNCHANGED <<asked, wire>>, NEW k \in DOMAIN socks, NEW n \in 1..Len(asked),
               SentOn(socks[k].relay, n), Inject(k, n)
        PROVE  Answering'
    <2>1. PICK tok : tok = socks[k].relay
      OBVIOUS
    <2>2. \A t \in DOMAIN jobs : t # tok
      BY <2>1, TokensApart
    <2>3. /\ \A t \in DOMAIN jobs : jobs[t].n # n
          /\ \E i \in 1..Len(wire) : wire[i].token = tok /\ wire[i].n = n
      BY <1>4, <1>7, <2>1, <2>2
    <2>4. asked[n].key = k /\ BySession(n) /\ k \in Keys
      <3>1. PICK i \in 1..Len(wire) : wire[i].token = tok /\ wire[i].n = n
        BY <2>3
      <3>2. Fits(asked, wire[i], k, "relay")
        BY <1>1, <2>1, <3>1 DEF WireKeyed
      <3>3. asked[n].key = k /\ wire[i].via = "relay"
        BY <3>1, <3>2 DEF Fits
      <3> QED
        BY <1>0, <3>1, <3>3 DEF BySession, Typed, SocksOK
    <2> QED
      BY <1>6, <1>7, <2>3, <2>4
  <1>8. ASSUME Kept, UNCHANGED <<asked, wire>>, NEW k \in DOMAIN udp, NEW n \in 1..Len(asked),
               SentOn(udp[k].token, n), Inject(k, n)
        PROVE  Answering'
    <2>1. PICK tok : tok = udp[k].token
      OBVIOUS
    <2>2. \A t \in DOMAIN jobs : t # tok
      BY <2>1, TokensApart
    <2>3. /\ \A t \in DOMAIN jobs : jobs[t].n # n
          /\ \E i \in 1..Len(wire) : wire[i].token = tok /\ wire[i].n = n
      BY <1>4, <1>8, <2>1, <2>2
    <2>4. asked[n].key = k /\ BySession(n) /\ k \in Keys
      <3>1. PICK i \in 1..Len(wire) : wire[i].token = tok /\ wire[i].n = n
        BY <2>3
      <3>2. Fits(asked, wire[i], k, "direct")
        BY <1>1, <2>1, <3>1 DEF WireKeyed
      <3>3. asked[n].key = k /\ wire[i].via = "direct"
        BY <3>1, <3>2 DEF Fits
      <3> QED
        BY <1>0, <3>1, <3>3 DEF BySession, Typed, UdpOK
    <2> QED
      BY <1>6, <1>8, <2>3, <2>4
  <1>9. ASSUME NEW k \in Keys, DatagramStep(k)
        PROVE  Answering'
    BY <1>1, <1>9, AnsweringDatagram
  <1>10. ASSUME NEW k \in Keys, Ready(k), UdpSame, JobsKept, UNCHANGED <<asked, answers>>
         PROVE  Answering'
    <2>0. PICK p : p = socks[k].pending
      OBVIOUS
    <2>1. PICK tok : tok = socks[k].relay
      OBVIOUS
    <2>2. /\ k \in DOMAIN socks /\ Len(wire) \in Nat /\ Len(p) \in Nat
          /\ Len(wire') = Len(wire) + Len(p)
          /\ \A i \in 1..Len(wire) : wire'[i] = wire[i]
          /\ \A i \in 1..Len(p) : /\ wire'[Len(wire) + i].n = p[i] /\ wire'[Len(wire) + i].token = tok
                                  /\ wire'[Len(wire) + i].via = "relay"
      BY <1>10, <2>0, <2>1 DEF Ready, Typed, HistoryOK, SocksOK, SocksRec
    <2>3. ASSUME NEW i \in 1..Len(wire')
          PROVE  \/ i \in 1..Len(wire) /\ wire'[i] = wire[i]
                 \/ \E j \in 1..Len(p) : /\ i = Len(wire) + j /\ wire'[i].n = p[j]
                                         /\ wire'[i].token = tok /\ wire'[i].via = "relay"
      <3>1. CASE i \in 1..Len(wire)
        BY <2>2, <3>1
      <3>2. CASE i \notin 1..Len(wire)
        <4>1. i - Len(wire) \in 1..Len(p) /\ Len(wire) + (i - Len(wire)) = i
          BY <2>2, <3>2
        <4> QED
          BY <2>2, <4>1
      <3> QED
        BY <3>1, <3>2
    <2>4. /\ \A j \in DOMAIN udp : udp[j].token # tok
          /\ \A j \in DOMAIN socks : socks[j].relay = tok => j = k
      BY <2>1, <2>2, TokensApart
    <2>5. \A j \in 1..Len(p) : asked[p[j]].key = k /\ \A t \in DOMAIN jobs : p[j] # jobs[t].n
      BY <1>1, <2>0, <2>2 DEF Clean, SocksClean, May, JobsAlone
    <2>6. /\ DOMAIN udp' = DOMAIN udp /\ \A j \in DOMAIN udp : udp'[j].token = udp[j].token
          /\ DOMAIN socks' = DOMAIN socks /\ \A j \in DOMAIN socks : socks'[j].relay = socks[j].relay
      BY <1>10 DEF UdpSame, Ready, SocksSame
    <2>7. WireKeyed'
      <3>1. ASSUME NEW i \in 1..Len(wire')
            PROVE  /\ \A j \in DOMAIN udp :
                        wire'[i].token = udp[j].token => Fits(asked, wire'[i], j, "direct")
                   /\ \A j \in DOMAIN socks :
                        wire'[i].token = socks[j].relay => Fits(asked, wire'[i], j, "relay")
        <4>1. CASE i \in 1..Len(wire) /\ wire'[i] = wire[i]
          BY <1>1, <4>1 DEF WireKeyed
        <4>2. ASSUME NEW m \in 1..Len(p), wire'[i].n = p[m], wire'[i].token = tok,
                     wire'[i].via = "relay"
              PROVE  /\ \A j \in DOMAIN udp : wire'[i].token # udp[j].token
                     /\ \A j \in DOMAIN socks :
                          wire'[i].token = socks[j].relay => Fits(asked, wire'[i], j, "relay")
          BY <2>4, <2>5, <4>2 DEF Fits
        <4> QED
          BY <2>3, <4>1, <4>2
      <3> QED
        BY <1>10, <2>6, <3>1 DEF WireKeyed
    <2>8. JobsAlone'
      <3>1. DOMAIN jobs' = DOMAIN jobs /\ \A t \in DOMAIN jobs : jobs'[t].n = jobs[t].n
        BY <1>10 DEF JobsKept, JobsSame
      <3>2. \A t \in DOMAIN jobs : Unanswered(answers', jobs[t].n)
        BY <1>1, <1>2, <1>10 DEF JobsAlone
      <3>3. \A i \in 1..Len(wire') : \/ i \in 1..Len(wire) /\ wire'[i] = wire[i]
                                     \/ \A t \in DOMAIN jobs' :
                                          wire'[i].n = jobs[t].n => wire'[i].token = t
        BY <2>3, <2>5, <3>1
      <3>4. \A j \in DOMAIN socks' : \A i \in 1..Len(socks'[j].pending) :
              \A t \in DOMAIN jobs' : socks'[j].pending[i] # jobs[t].n
        <4>1. socks'[k].pending = <<>> /\ \A j \in DOMAIN socks \ {k} : socks'[j] = socks[j]
          BY <1>10 DEF Ready
        <4>2. 1..Len(<<>>) = {}
          OBVIOUS
        <4> QED
          BY <1>1, <2>6, <3>1, <4>1, <4>2 DEF JobsAlone
      <3> QED
        BY <1>1, <3>1, <3>2, <3>3, <3>4, JobsStayAlone
    <2>9. SentOnce'
      <3>1. Rising(p) /\ \A m \in 1..Len(p) : Unsent(wire, p[m]) /\ p[m] \in Nat
        <4>1. p \in Seq(Nat) /\ socks[k].hs
          BY <1>10, <2>0, <2>2 DEF Ready, Typed, SocksOK, SocksRec
        <4>2. \A m \in 1..Len(p) : p[m] \in Nat
          BY <4>1
        <4> QED
          BY <1>1, <2>0, <2>2, <4>1, <4>2 DEF Orderly, SocksQuiet, PendingUnsent
      <3>2. \A i, j \in 1..Len(p) : p[i] = p[j] => i = j
        BY <2>2, <3>1 DEF Rising
      <3>3. \A i \in 1..Len(wire), m \in 1..Len(p) : wire[i].n # p[m]
        BY <3>1 DEF Unsent
      <3>4. SUFFICES ASSUME NEW i \in 1..Len(wire'), NEW j \in 1..Len(wire'), wire'[i].n = wire'[j].n
                     PROVE  i = j
        BY DEF SentOnce
      <3>5. CASE i \in 1..Len(wire) /\ j \in 1..Len(wire)
        BY <1>1, <2>2, <3>4, <3>5 DEF SentOnce
      <3>6. ASSUME NEW a \in 1..Len(p), i = Len(wire) + a, wire'[i].n = p[a]
            PROVE  i = j
        <4>1. ASSUME j \in 1..Len(wire), wire'[j] = wire[j]
              PROVE  FALSE
          BY <3>3, <3>4, <3>6, <4>1
        <4>2. PICK b \in 1..Len(p) : j = Len(wire) + b /\ wire'[j].n = p[b]
          BY <2>3, <4>1
        <4>3. a = b
          BY <3>2, <3>4, <3>6, <4>2
        <4> QED
          BY <3>6, <4>2, <4>3
      <3>7. ASSUME NEW b \in 1..Len(p), j = Len(wire) + b, wire'[j].n = p[b],
                   i \in 1..Len(wire), wire'[i] = wire[i]
            PROVE  i = j
        BY <3>3, <3>4, <3>7
      <3> QED
        BY <2>3, <3>5, <3>6, <3>7
    <2>10. PendingUnsent'
      <3>1. /\ DOMAIN socks' = DOMAIN socks /\ socks'[k].pending = <<>>
            /\ \A j \in DOMAIN socks \ {k} : socks'[j] = socks[j]
        BY <1>10 DEF Ready, SocksSame
      <3>2. \A j \in DOMAIN socks \ {k} : \A i \in 1..Len(socks[j].pending) :
              asked[socks[j].pending[i]].key = j /\ Unsent(wire, socks[j].pending[i])
        BY <1>1 DEF Clean, SocksClean, May, PendingUnsent
      <3>3. \A j \in DOMAIN socks \ {k} : \A i \in 1..Len(socks[j].pending) :
              Unsent(wire', socks[j].pending[i])
        <4>1. SUFFICES ASSUME NEW j \in DOMAIN socks \ {k}, NEW i \in 1..Len(socks[j].pending),
                              NEW x \in 1..Len(wire'), wire'[x].n = socks[j].pending[i]
                       PROVE  FALSE
          BY DEF Unsent
        <4>2. CASE x \in 1..Len(wire) /\ wire'[x] = wire[x]
          BY <3>2, <4>1, <4>2 DEF Unsent
        <4>3. ASSUME NEW m \in 1..Len(p), wire'[x].n = p[m]
              PROVE  FALSE
          <5>1. asked[p[m]].key = k /\ asked[socks[j].pending[i]].key = j
            BY <2>5, <3>2
          <5>2. asked[wire'[x].n].key = k /\ asked[wire'[x].n].key = j /\ j # k
            BY <4>1, <4>3, <5>1
          <5> QED
            BY <5>2
        <4> QED
          BY <2>3, <4>2, <4>3
      <3> QED
        BY <3>1, <3>3 DEF PendingUnsent
    <2> QED
      BY <1>2, <1>10, <2>7, <2>8, <2>9, <2>10 DEF Answering
  <1>11. ASSUME NEW t \in DOMAIN jobs, JobSends(t), UdpSame, SocksKept, UNCHANGED <<asked, answers>>
         PROVE  Answering'
    <2>1. PICK n : n = jobs[t].n
      OBVIOUS
    <2>2. PICK via, to : via = jobs[t].kind /\ to = jobs[t].to
      OBVIOUS
    <2>3. SentOut(n, t, via, to) /\ LastSent(n, t)
      BY <1>11, <2>1, <2>2, SentLast DEF JobSends
    <2>4. /\ \A k \in DOMAIN udp : udp[k].token # t
          /\ \A k \in DOMAIN socks : socks[k].relay # t
      BY TokensApart
    <2>5. WireKeyed'
      BY <1>1, <1>11, <2>3, <2>4, KeyedSends DEF SocksKept
    <2>6. JobsAlone'
      <3>1. DOMAIN jobs' = DOMAIN jobs /\ \A u \in DOMAIN jobs : jobs'[u].n = jobs[u].n
        BY <1>11 DEF JobSends, JobsSame
      <3>2. \A u \in DOMAIN jobs : Unanswered(answers', jobs[u].n)
        BY <1>1, <1>2, <1>11 DEF JobsAlone
      <3>3. \A i \in 1..Len(wire') : \/ i \in 1..Len(wire) /\ wire'[i] = wire[i]
                                     \/ \A u \in DOMAIN jobs' :
                                          wire'[i].n = jobs[u].n => wire'[i].token = u
        BY <1>1, <2>1, <2>3, <3>1 DEF LastSent, JobsAlone
      <3> QED
        BY <1>1, <1>11, <3>1, <3>2, <3>3, JobsStayAlone, PendingNotJobs
    <2>7. Unsent(wire, n)
      BY <1>1, <1>11, <2>1 DEF JobSends, JobsAlone, Orderly, JobsQuiet, Silent, Unsent
    <2>8. SentOnce' /\ \A m : m # n /\ Unsent(wire, m) => Unsent(wire', m)
      BY <1>1, <2>3, <2>7, SentOnceGrows
    <2>9. PendingUnsent'
      BY <1>1, <1>11, <2>1, <2>8, PendingStays DEF JobsAlone
    <2> QED
      BY <1>2, <1>11, <2>5, <2>6, <2>8, <2>9 DEF Answering
  <1>12. ASSUME NEW U, NEW S, NEW J, Removes(U, S, J), UNCHANGED <<asked, wire>>,
                \/ UNCHANGED answers
                \/ \E t \in DOMAIN jobs : J = {t} /\ Inject(jobs[t].key, jobs[t].n)
         PROVE  Answering'
    <2>1. /\ DOMAIN udp' \subseteq DOMAIN udp /\ \A k \in DOMAIN udp' : udp'[k] = udp[k]
          /\ DOMAIN socks' \subseteq DOMAIN socks /\ \A k \in DOMAIN socks' : socks'[k] = socks[k]
          /\ DOMAIN jobs' \subseteq DOMAIN jobs /\ \A t \in DOMAIN jobs' : jobs'[t] = jobs[t]
          /\ DOMAIN jobs' \intersect J = {}
      BY <1>12 DEF Removes
    <2>2. WireKeyed'
      BY <1>1, <1>12, <2>1 DEF WireKeyed
    <2>3. /\ AnswersOK'
          /\ \A t \in DOMAIN jobs' : Unanswered(answers', jobs[t].n)
      <3>1. CASE UNCHANGED answers
        BY <1>1, <1>2, <2>1, <3>1 DEF JobsAlone
      <3>2. ASSUME NEW t \in DOMAIN jobs, J = {t}, Inject(jobs[t].key, jobs[t].n)
            PROVE  /\ AnswersOK'
                   /\ \A u \in DOMAIN jobs' : Unanswered(answers', jobs[u].n)
        <4>1. PICK n : n = jobs[t].n
          OBVIOUS
        <4>2. PICK k : k = jobs[t].key
          OBVIOUS
        <4>3. /\ n \in 1..Len(asked') /\ asked'[n].key = k /\ k \in Keys
              /\ Unanswered(answers, n) /\ Inject(k, n)
          BY <1>1, <1>12, <3>2, <4>1, <4>2
             DEF Clean, JobsClean, May, JobsAlone, Typed, JobsOK, JobRec
        <4>4. AnswersOK' /\ \A m : m # n /\ Unanswered(answers, m) => Unanswered(answers', m)
          BY <1>1, <1>12, <4>3, AnswerGrows
        <4>5. \A u \in DOMAIN jobs' : jobs[u].n # n /\ Unanswered(answers, jobs[u].n)
          BY <1>1, <2>1, <3>2, <4>1 DEF JobsAlone
        <4> QED
          BY <4>4, <4>5
      <3> QED
        BY <1>12, <3>1, <3>2
    <2>4. JobsAlone'
      <3>1. \A t \in DOMAIN jobs' : jobs'[t].n = jobs[t].n
        BY <2>1
      <3>2. \A i \in 1..Len(wire') : i \in 1..Len(wire) /\ wire'[i] = wire[i]
        BY <1>12
      <3>3. \A k \in DOMAIN socks' : \A i \in 1..Len(socks'[k].pending) :
              \A t \in DOMAIN jobs' : socks'[k].pending[i] # jobs[t].n
        BY <1>1, <2>1 DEF JobsAlone
      <3> QED
        BY <1>1, <2>1, <2>3, <3>1, <3>2, <3>3, JobsStayAlone
    <2>5. SentOnce' /\ PendingUnsent'
      BY <1>1, <1>12, <2>1 DEF SentOnce, PendingUnsent
    <2> QED
      BY <2>2, <2>3, <2>4, <2>5 DEF Answering
  <1> QED
    BY <1>5, <1>7, <1>8, <1>9, <1>10, <1>11, <1>12 DEF Step

\* An answer goes to the pair that asked; no datagram leaves twice, whatever buffer, job or
\* session it went through; and what the filter answered or a one-shot job carried is
\* answered at most once, for any number of answers the servers send and any caps.
THEOREM AnswersAreExact == Spec => []AnswersExact
  <1> DEFINE Inv == Tables /\ Clean /\ Orderly /\ Answering
  <1>1. Init => Inv
    <2>1. Init => wire = <<>> /\ answers = <<>> /\ DOMAIN jobs = {} /\ DOMAIN socks = {}
      BY DEF Init
    <2>2. 1..Len(<<>>) = {}
      OBVIOUS
    <2> QED
      BY <2>1, <2>2, InitQuiet
         DEF Answering, AnswersOK, AnswersKeyed, Repeats, WireKeyed, SentOnce, PendingUnsent, JobsAlone
  <1>2. Inv /\ [Next]_vars => Inv'
    BY TablesStep, CleanStep, OrderlyStep, AnsweringStep DEF Tables
  <1>3. Inv => AnswersExact
    <2>1. Tables => DOMAIN answers = 1..Len(answers) /\ DOMAIN wire = 1..Len(wire)
      BY DEF Tables, Typed, HistoryOK
    <2> QED
      BY <2>1 DEF Answering, AnswersOK, AnswersKeyed, Repeats, SentOnce, AnswersExact
  <1> QED
    BY <1>1, <1>2, <1>3, PTL DEF Spec
=============================================================================
