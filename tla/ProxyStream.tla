---------------------------- MODULE ProxyStream ----------------------------
(***************************************************************************)
(* A TCP flow to one server through a proxy: drive_proxy_handshake of      *)
(* rust/core/src/forward.rs over the codecs of ProxyHandshake, then the    *)
(* tunnel; or, once the proxy has refused CONNECT to port 80, the app's    *)
(* next flow in absolute form over HttpForward.  The streams arrive in any *)
(* segmentation, the proxy may close at any point, the socket may take a   *)
(* message later or in part, and the connection may break.  What a flow's  *)
(* failure does to the app, the timeouts and the relay are in TcpFlows and *)
(* TcpRelay; the TLS session to an HTTPS proxy is left out.                *)
(*                                                                         *)
(* What the proxy and the app send is chosen beforehand, as the messages   *)
(* they mean; the reference for the properties is read off those, not off  *)
(* the bytes.                                                              *)
(***************************************************************************)
EXTENDS ProxyHandshake, HttpForward

CONSTANTS
    Replies,    \* what a proxy may send: see HttpReply, SocksReply
    Tokens,     \* the bytes of HTTP
    Requests    \* what an app may send over one connection: a sequence of Request

\* The origin's bytes begin at o: behind the first empty line, and the second word of
\* the first line is a code of success.
EmptyLine(b, i) == i + 3 <= Len(b) /\ SubSeq(b, i, i + 3) = <<"CR", "LF", "CR", "LF">>
HttpGrants(b, o) ==
    /\ o > 4 /\ EmptyLine(b, o - 4) /\ \A i \in 1..(o - 5) : ~EmptyLine(b, i)
    /\ \E s \in 1..(o - 2) : /\ b[s] = "SP" /\ b[s + 1] \in {"200", "204"}
                             /\ \A i \in 1..(s - 1) : b[i] \notin {"SP", "CR"}

\* The proxy asks for the password; the bytes to which the request is the answer.
PasswordAsked(b, user) == Len(b) >= 2 /\ b[1] = 5 /\ b[2] = 2 /\ user
Opens(b, user, n) ==
    \/ n = 2 /\ Len(b) >= 2 /\ b[1] = 5 /\ b[2] = 0
    \/ n = 4 /\ PasswordAsked(b, user) /\ Len(b) >= 4 /\ b[4] = 0

\* Behind the n bytes, a success with an address of its length; the origin's bytes
\* begin at o.
Address(b, n) == CASE b[n + 4] = 1 -> 4 [] b[n + 4] = 4 -> 16 [] b[n + 4] = 3 -> 1 + b[n + 5]
SocksGrants(b, user, n, o) ==
    /\ Opens(b, user, n) /\ Len(b) >= n + 5
    /\ b[n + 1] = 5 /\ b[n + 2] = 0 /\ b[n + 4] \in {1, 3, 4}
    /\ o = n + Address(b, n) + 7 /\ o - 1 <= Len(b)
Bound(b, n, o) == IF b[n + 4] = 3 THEN <<>> ELSE SubSeq(b, n + 5, o - 1)

\* A proxy's part: its kind, whether a user is configured, the bytes it sends, whether
\* they grant the tunnel, where the origin's bytes begin, the address of the relay, and
\* what it is to be told.
HttpReply(r) ==
    /\ r.bytes \in Seq(ToSet(r.bytes)) /\ r.bound = <<>> /\ r.told = <<"CONNECT">>
    /\ r.grant <=> \E o \in 1..(Len(r.bytes) + 1) : HttpGrants(r.bytes, o)
    /\ r.grant => HttpGrants(r.bytes, r.origin)
SocksReply(r) ==
    /\ r.bytes \in Seq(0..255)
    /\ r.told = <<socks5_greeting(r.user)>>
                    \o (IF PasswordAsked(r.bytes, r.user) THEN <<socks5_userpass>> ELSE <<>>)
                    \o (IF \E n \in {2, 4} : Opens(r.bytes, r.user, n) THEN <<socks5_request>> ELSE <<>>)
    /\ r.grant <=> \E n \in {2, 4}, o \in 1..(Len(r.bytes) + 1) : SocksGrants(r.bytes, r.user, n, o)
    /\ \A n \in {2, 4} :
          r.grant /\ Opens(r.bytes, r.user, n) =>
              SocksGrants(r.bytes, r.user, n, r.origin) /\ r.bound = Bound(r.bytes, n, r.origin)

\* An app's part: for each request its line, headers and body; and what it means: how it
\* is to be taken.
Lines == Tokens \ {"CRLF"}
Request == [line : Lines, headers : Seq(Lines), body : Seq(Tokens)]
Frames(q) ==
    IF q.line \notin Forms \/ "chunked" \in ToSet(q.headers) THEN "anomaly"
    ELSE IF "length junk" \in ToSet(q.headers) THEN "junk"
    ELSE IF 2 + 2 * Len(q.headers) + 1 > MAX_HEAD THEN "large" ELSE "sound"

ASSUME StreamAssumption ==
    /\ \A r \in Replies : /\ r.user \in BOOLEAN /\ r.grant \in BOOLEAN /\ r.port80 \in BOOLEAN
                          /\ r.origin \in Nat
                          /\ \/ r.kind = "http" /\ HttpReply(r)
                             \/ r.kind = "socks5" /\ SocksReply(r)
    /\ Forms \cup Lengths \cup {"absolute, host", "absolute, dialed", "CRLF"} \subseteq Tokens
    /\ \A qs \in Requests :
          /\ qs \in Seq(Request)
          /\ \A i \in DOMAIN qs :
                Frames(qs[i]) \in {"sound", "large"} =>
                    Len(qs[i].body) = content_length(qs[i].headers)

VARIABLES
    reply,      \* the proxy's part
    requests,   \* the app's part
    mode,       \* the flow: handshake, tunnel, failed; then the next: forward, refused
    hs,
    hs_out,     \* the halves of messages the socket has not taken
    pc,         \* in drive_proxy_handshake: idle, stepping
    input, seen_eof,
    coming,     \* what the proxy has not sent yet
    sock,       \* what is readable from it
    eof,        \* it has closed
    broken,     \* the connection is gone: reset, or timed out
    wrote,      \* the halves of messages the socket took
    to_app,
    http_forward_80,
    hf,         \* the rewriter
    app,        \* what the app has not sent yet
    to_upstream

script == <<reply, requests>>
driver == <<mode, hs, hs_out, pc, input, seen_eof, wrote, to_app, http_forward_80>>
proxy == <<coming, sock, eof, broken>>
forward == <<hf, app, to_upstream>>
vars == <<script, driver, proxy, forward>>

\* A message may be taken in part: the bytes of each are two halves.
Halved(messages) ==
    [i \in 1..(2 * Len(messages)) |-> [of |-> messages[(i + 1) \div 2], half |-> 2 - (i % 2)]]

CRLFs(headers) ==
    [i \in 1..(2 * Len(headers)) |-> IF i % 2 = 1 THEN headers[(i + 1) \div 2] ELSE "CRLF"]
Bytes(q) == <<q.line, "CRLF">> \o CRLFs(q.headers) \o <<"CRLF">> \o q.body
Stream(qs) == FlattenSeq([i \in DOMAIN qs |-> Bytes(qs[i])])

Init ==
    /\ reply \in Replies /\ requests = <<>>
    /\ mode = "handshake" /\ hs = Handshake(reply.kind, reply.user) /\ hs_out = <<>>
    /\ pc = "idle" /\ input = <<>> /\ seen_eof = FALSE
    /\ coming = reply.bytes /\ sock = <<>> /\ eof = FALSE /\ broken = FALSE
    /\ wrote = <<>> /\ to_app = <<>> /\ http_forward_80 = FALSE
    /\ hf = HttpForwardNew /\ app = <<>> /\ to_upstream = <<>>

-----------------------------------------------------------------------------
(* The proxy *)

Arrives ==
    /\ ~eof /\ ~broken /\ mode \in {"handshake", "tunnel"}
    /\ \E n \in 1..Len(coming) :
          sock' = sock \o SubSeq(coming, 1, n) /\ coming' = SubSeq(coming, n + 1, Len(coming))
    /\ UNCHANGED <<eof, broken, script, driver, forward>>

Closes ==
    /\ ~eof /\ ~broken /\ mode = "handshake" /\ eof' = TRUE
    /\ UNCHANGED <<coming, sock, broken, script, driver, forward>>

\* A reset, in answer to what was written behind a close too; or the network is gone.
Breaks ==
    /\ ~broken /\ mode = "handshake" /\ broken' = TRUE
    /\ UNCHANGED <<coming, sock, eof, script, driver, forward>>

-----------------------------------------------------------------------------
(* drive_proxy_handshake *)

\* Mutant: what the socket took of a message stays queued with its tail.
flush_handshake_out_whole(queued, ok) ==
    \E n \in 0..Len(queued) :
        /\ wrote' = wrote \o SubSeq(queued, 1, n)
        /\ hs_out' = IF n = Len(queued) THEN <<>> ELSE queued
        /\ IF ok THEN broken => queued = <<>> ELSE broken /\ n < Len(queued)

\* The socket takes what it has room for, and the tail is kept; a broken one refuses it.
flush_handshake_out(queued, ok) ==
    \E n \in 0..Len(queued) :
        /\ wrote' = wrote \o SubSeq(queued, 1, n)
        /\ hs_out' = SubSeq(queued, n + 1, Len(queued))
        /\ IF ok THEN broken => queued = <<>> ELSE broken /\ n < Len(queued)

\* A status refuses CONNECT to port 80: the next flows go in absolute form.
fail_proxy(error) ==
    /\ mode' = "failed"
    /\ http_forward_80' = (http_forward_80 \/ (error = "HttpStatus" /\ reply.port80))
    /\ pc' = "idle"
    /\ UNCHANGED to_app

\* What is queued is flushed; then all that is readable is read.  Of a broken connection
\* the read fails, or still reports the close that came before.
drive_begins ==
    /\ mode = "handshake" /\ pc = "idle"
    /\ \/ /\ flush_handshake_out(hs_out, FALSE) /\ fail_proxy("none")
          /\ UNCHANGED <<sock, input, seen_eof>>
       \/ /\ flush_handshake_out(hs_out, TRUE) /\ hs_out' # <<>>
          /\ UNCHANGED <<mode, pc, to_app, http_forward_80, sock, input, seen_eof>>
       \/ /\ flush_handshake_out(hs_out, TRUE) /\ hs_out' = <<>>
          /\ sock' = <<>>
          /\ \/ broken /\ fail_proxy("none") /\ UNCHANGED <<input, seen_eof>>
             \/ /\ broken => eof
                /\ pc' = "stepping" /\ input' = sock /\ seen_eof' = eof
                /\ UNCHANGED <<mode, to_app, http_forward_80>>
    /\ UNCHANGED <<hs, coming, eof, broken, script, forward>>

\* One turn of the loop: the first with what was read, the next with nothing.
drive_steps ==
    /\ pc = "stepping"
    /\ LET s == step(hs, input)
           queued == hs_out \o Halved(<<s.bytes>>)
       IN  /\ hs' = s.hs /\ input' = <<>>
           /\ \/ /\ s.step = "Write"
                 /\ \/ flush_handshake_out(queued, FALSE) /\ fail_proxy("none")
                    \/ /\ flush_handshake_out(queued, TRUE)
                       /\ pc' = IF hs_out' = <<>> THEN "stepping" ELSE "idle"
                       /\ UNCHANGED <<mode, to_app, http_forward_80>>
              \/ s.step = "Read" /\ seen_eof /\ fail_proxy("none") /\ UNCHANGED <<hs_out, wrote>>
              \/ /\ s.step = "Read" /\ ~seen_eof
                 /\ pc' = "idle"
                 /\ UNCHANGED <<mode, hs_out, wrote, to_app, http_forward_80>>
              \/ /\ s.step = "Done"
                 /\ mode' = "tunnel" /\ to_app' = to_app \o s.bytes /\ pc' = "idle"
                 /\ UNCHANGED <<hs_out, wrote, http_forward_80>>
              \/ s.step = "Err" /\ fail_proxy(s.bytes[1]) /\ UNCHANGED <<hs_out, wrote>>
    /\ UNCHANGED <<seen_eof, proxy, script, forward>>

\* The relay, which takes over: see TcpRelay.
Relays ==
    /\ mode = "tunnel" /\ sock # <<>>
    /\ to_app' = to_app \o sock /\ sock' = <<>>
    /\ UNCHANGED <<mode, hs, hs_out, pc, input, seen_eof, wrote, http_forward_80,
                   coming, eof, broken, script, forward>>

-----------------------------------------------------------------------------
(* The next flow *)

\* open_tcp, when the proxy is known to refuse CONNECT to port 80.
open_forward ==
    /\ mode = "failed" /\ http_forward_80
    /\ mode' = "forward"
    /\ requests' \in Requests /\ app' = Stream(requests')
    /\ UNCHANGED <<hs, hs_out, pc, input, seen_eof, wrote, to_app, http_forward_80,
                   reply, hf, to_upstream, proxy>>

\* service, for what the app has sent: rewritten, or the flow fails.
service_forward ==
    /\ mode = "forward"
    /\ \E n \in 1..Len(app) :
          LET p == push(hf, SubSeq(app, 1, n))
          IN  /\ app' = SubSeq(app, n + 1, Len(app))
              /\ hf' = p.st
              /\ IF p.err = "none"
                 THEN to_upstream' = to_upstream \o p.out /\ UNCHANGED mode
                 ELSE mode' = "refused" /\ UNCHANGED to_upstream
    /\ UNCHANGED <<hs, hs_out, pc, input, seen_eof, wrote, to_app, http_forward_80,
                   proxy, script>>

Next == Arrives \/ Closes \/ Breaks \/ drive_begins \/ drive_steps \/ Relays
            \/ open_forward \/ service_forward

\* The service pass drives every flow, and a socket that is not broken takes the message
\* in the end.
Fairness ==
    /\ WF_vars(drive_steps)
    /\ WF_vars(drive_begins)
    /\ SF_vars(drive_begins /\ hs_out' = <<>>)

Spec == Init /\ [][Next]_vars /\ Fairness

-----------------------------------------------------------------------------
(* Properties *)

\* A flow is a tunnel only when the proxy granted it, with the relay address it gave,
\* and the app then gets the origin's bytes from the first one on, whatever the
\* segments they came in (parse_http_reply, socks5_step, the leftover of Done).
TunnelExact ==
    mode = "tunnel" =>
        /\ reply.grant
        /\ hs.bound = reply.bound
        /\ to_app \o sock \o coming = SubSeq(reply.bytes, reply.origin, Len(reply.bytes))

\* The proxy is told what it is to be told, each half of each message once and in
\* order, however little the socket takes at a time; the password only when it asked for
\* it (Step::Write and its phases, the tail that flush_handshake_out keeps).
ConversationExact == IsPrefix(wrote \o hs_out, Halved(reply.told))

\* A grant that has arrived opens the tunnel, even when the proxy then closes in order
\* (the step before the end of the stream is looked at).  Only a connection that breaks
\* while a message is still to be written or the grant to be read takes it away: the
\* write or the read fails, and the flow with it, the grant unread or not.
GrantOpens ==
    mode = "handshake" /\ coming = <<>> /\ reply.grant /\ Len(reply.bytes) <= HANDSHAKE_BUF_CAP
        ~> mode = "tunnel" \/ (broken /\ mode = "failed")

\* How a request is to go out.
Absolute(q) ==
    [q EXCEPT !.line = IF @ = "absolute-form" THEN @
                       ELSE IF "host" \in ToSet(q.headers) THEN "absolute, host"
                       ELSE "absolute, dialed"]
Meant == Stream([i \in DOMAIN requests |-> Absolute(requests[i])])
Anomalous == {i \in DOMAIN requests : Frames(requests[i]) = "anomaly"}

\* The proxy gets each request once, in order, its line in absolute form and its body
\* as it is, whatever the segments the app's stream comes in; none is held back; and
\* the flow fails only on an anomaly (HttpForward::push, rewrite_head).  A length that
\* does not parse is another matter: see JunkFailsClosed.
ForwardExact ==
    mode \in {"forward", "refused"} /\ (\A i \in DOMAIN requests : Frames(requests[i]) # "junk") =>
    /\ IsPrefix(to_upstream, Meant)
    /\ mode = "forward" /\ app = <<>> => to_upstream = Meant
    /\ mode = "refused" => \E i \in DOMAIN requests : Frames(requests[i]) \in {"anomaly", "large"}
    /\ \A i \in Anomalous : Len(to_upstream) <= Len(Stream(SubSeq(requests, 1, i - 1)))

\* A parse anomaly fails the flow (http_forward.rs, its head comment): nothing is sent of
\* a request whose Content-Length does not parse.
JunkFailsClosed ==
    \A i \in DOMAIN requests : Frames(requests[i]) = "junk" =>
        Len(to_upstream) <= Len(Stream(SubSeq(requests, 1, i - 1)))
=============================================================================
