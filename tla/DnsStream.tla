----------------------------- MODULE DnsStream -----------------------------
(***************************************************************************)
(* Encrypted-DNS filtering, rust/tls/src/dns.rs: the plaintext of a DoT or *)
(* DoH flow, whose blocked questions are answered here and whose others go *)
(* to the resolver; on_app_data and on_upstream_data as functions from the *)
(* stream and a segment of plaintext to the next stream and what goes each *)
(* way.  DoH speaks HTTP/2 (H2Server) or HTTP/1.1 with the app and         *)
(* HTTP/1.1 (the parser of HttpTap) with the resolver.                     *)
(*                                                                         *)
(* A DNS message is two tokens, the question or the answer and its end; a  *)
(* question is one of Questions, each with the name it asks for.           *)
(***************************************************************************)
EXTENDS HttpTap, H2Server

CONSTANTS
    Questions,      \* what the apps ask
    NameOf,         \* of a question
    Blocked,        \* the names on the blocklist
    MAX_PENDING     \* on the tokens of a message over DoT

ASSUME DnsAssumption ==
    /\ NameOf \in [Questions -> STRING] /\ IsFiniteSet(Questions) /\ MAX_PENDING \in Nat

\* adwarden_dns: messages, and what is understood of them.
query(q) == <<q, "end">>
nxdomain(q) == <<"nxdomain " \o q, "end">>
answer(q) == <<"answer " \o q, "end">>
parse_query(msg) == {q \in Questions : msg = query(q)}

is_blocked(name) == name \in Blocked

\* The question, if its name is blocked.
block_wire(wire) == {q \in parse_query(wire) : is_blocked(NameOf[q])}

Cross(st, to_upstream, to_app) == [st |-> st, to_upstream |-> to_upstream, to_app |-> to_app]

-----------------------------------------------------------------------------
(* DNS over TLS *)

DotNew == [kind |-> "Dot", app_buf |-> <<>>, passthrough |-> FALSE, blocked |-> <<>>]
framed(msg) == <<"0", ToString(Len(msg))>> \o msg
Octets == {ToString(n) : n \in Numbers}
number(tok) == CHOOSE n \in Numbers : ToString(n) = tok
\* How long the message is, with the two octets that say so.
dot_total(buf) == 2 + 256 * number(buf[1]) + number(buf[2])

\* One turn of its loop: a message, answered here or passed on; when there is nothing to
\* be done it changes nothing.
dot_message(st, up, app) ==
    LET buf == st.app_buf
        total == dot_total(buf)
        msg == SubSeq(buf, 3, total)
        hit == block_wire(msg)
        t == [st EXCEPT !.app_buf = Behind(@, total), !.blocked = @ \o SetToSeq({NameOf[q] : q \in hit})]
    IN  IF Len(buf) < 2 THEN Cross(st, up, app)
        ELSE IF Len(buf) < total
        THEN IF total > MAX_PENDING
             THEN Cross([st EXCEPT !.passthrough = TRUE, !.app_buf = <<>>], up \o buf, app)
             ELSE Cross(st, up, app)
        ELSE IF hit # {} THEN Cross(t, up, app \o framed(nxdomain(CHOOSE q \in hit : TRUE)))
        ELSE Cross(t, up \o SubSeq(buf, 1, total), app)

dot_messages(st) ==
    LET turns[n \in 0..Len(st.app_buf)] ==
            IF n = 0 THEN Cross(st, <<>>, <<>>)
            ELSE LET c == turns[n - 1] IN dot_message(c.st, c.to_upstream, c.to_app)
    IN  turns[Len(st.app_buf)]

dot_app_data(st, data) ==
    IF st.passthrough THEN Cross(st, data, <<>>)
    ELSE dot_messages([st EXCEPT !.app_buf = @ \o data])

-----------------------------------------------------------------------------
(* DNS over HTTPS: what is asked *)

dns_param(q) == "GET ?dns=" \o q
name_param(q) == "GET ?name=" \o q

\* A question in wire form or by name, or a request that cannot be understood.
extract_query(head, body) ==
    LET asked == {q \in Questions : head[1] \in {dns_param(q), name_param(q)}}
        q == CHOOSE k \in asked : TRUE
    IN  CASE head[1] = "POST" ->
                 IF "dns-message" \in ToSet(head) \/ body # <<>>
                 THEN [kind |-> "Wire", wire |-> body] ELSE [kind |-> "Unknown", wire |-> <<>>]
          [] head[1] # "POST" ->
                 IF asked = {} THEN [kind |-> "Unknown", wire |-> <<>>]
                 ELSE IF head[1] = dns_param(q) THEN [kind |-> "Wire", wire |-> query(q)]
                 ELSE [kind |-> "JsonName", wire |-> query(q)]

\* What is answered here: the question, if it is understood and blocked.
hit_of(x) == IF x.kind = "Unknown" THEN {} ELSE block_wire(x.wire)

post_wire(wire) == <<"POST", "dns-message", length(Len(wire)), "END">> \o wire
get_path(line) == <<line, "END">>
reconstruct(head, body) ==
    IF head[1] = "POST" THEN <<"POST", length(Len(body)), "END">> \o body ELSE get_path(head[1])
h1_response(body) == <<status_line(200), length(Len(body)), "END">> \o body

-----------------------------------------------------------------------------
(* The resolver's responses, over HTTP/1.1 *)

H1ResponsesNew == [buf |-> <<>>, body |-> <<>>]

Parsed(more, up, out) == [more |-> more, up |-> up, out |-> out]

\* One turn of H1Responses::feed: a head, or a body; a malformed one stops the parse
\* where it is.
h1_response_turn(up, out) ==
    LET end == find_header_end(up.buf)
        head == SubSeq(up.buf, 1, end - 1)
        t == [up EXCEPT !.buf = Behind(@, end)]
        framing == response_framing(status_of(head[1]), FALSE, head)
        acc == up.body[1]
        c == consume(acc.framing, up.buf)
        captured == acc.captured \o c.data
    IN  CASE up.body = <<>> /\ end = 0 -> Parsed(FALSE, up, out)
          [] up.body = <<>> /\ end > 0 ->
                 IF head = <<>> \/ head[1] \notin StatusLines THEN Parsed(FALSE, t, out)
                 ELSE IF framing = NoBody
                 THEN Parsed(TRUE, t, Append(out, [status |-> head[1], body |-> <<>>]))
                 ELSE Parsed(TRUE, [t EXCEPT !.body =
                          <<[status |-> head[1], framing |-> framing, captured |-> <<>>]>>], out)
          [] up.body # <<>> /\ c.step = "Done" ->
                 Parsed(TRUE, [buf |-> c.buf, body |-> <<>>],
                        Append(out, [status |-> acc.status, body |-> captured]))
          [] up.body # <<>> /\ c.step = "NeedMore" ->
                 Parsed(FALSE, [buf |-> c.buf,
                                body |-> <<[acc EXCEPT !.framing = c.framing, !.captured = captured]>>],
                        out)
          [] up.body # <<>> /\ c.step = "Error" -> Parsed(FALSE, [buf |-> c.buf, body |-> <<>>], out)

\* The complete responses at the front; each turn that does not end the loop takes a
\* token at least.
h1_responses(up) ==
    LET turns[n \in 0..(Len(up.buf) + 1)] ==
            IF n = 0 THEN Parsed(TRUE, up, <<>>)
            ELSE LET r == turns[n - 1] IN IF r.more THEN h1_response_turn(r.up, r.out) ELSE r
    IN  turns[Len(up.buf) + 1]

-----------------------------------------------------------------------------
(* DNS over HTTPS *)

DohNew ==
    [kind |-> "Doh", proto |-> "Undecided", app_buf |-> <<>>, h2 |-> H2ServerNew,
     up |-> H1ResponsesNew, pending |-> <<>>, h1_passthrough |-> FALSE, blocked |-> <<>>]

\* Mutant: the last of the streams is put first.
forward_front(st, sid) == [st EXCEPT !.pending = <<sid>> \o @]

\* The streams that wait for the resolver, in the order they asked.
forward(st, sid) == [st EXCEPT !.pending = Append(@, sid)]

h2_request(cross, req) ==
    LET st == cross.st
        x == extract_query(req.head, req.body)
        hit == hit_of(x)
        q == CHOOSE k \in hit : TRUE
        up == CASE x.kind = "Wire" -> post_wire(x.wire)
                [] x.kind = "JsonName" -> get_path(req.head[1])
                [] x.kind = "Unknown" -> reconstruct(req.head, req.body)
    IN  IF hit # {}
        THEN [cross EXCEPT !.st = [st EXCEPT !.h2 = respond(@, req.stream_id, status_line(200), nxdomain(q)),
                                             !.blocked = Append(@, NameOf[q])]]
        ELSE [cross EXCEPT !.st = forward(st, req.stream_id), !.to_upstream = @ \o up]

\* take_out: what the server has made goes to the app.
h2_out(cross) ==
    [cross EXCEPT !.st = [@ EXCEPT !.h2 = [@ EXCEPT !.out = <<>>]],
                  !.to_app = @ \o cross.st.h2.out]

\* The streams the input completes, in their order; none when it fails.
h2_feed(st, data) ==
    LET h2 == on_input(st.h2, data)
        taken == Cross([st EXCEPT !.h2 = [h2 EXCEPT !.ready = <<>>]], <<>>, <<>>)
    IN  IF h2.failed THEN h2_out(Cross([st EXCEPT !.h2 = h2], <<>>, <<>>))
        ELSE h2_out(FoldLeft(h2_request, taken, h2.ready))

\* One turn of h1_feed: a complete request with a body of known length is understood and
\* answered or forwarded as it is; behind anything else all goes through.  When there is
\* nothing to be done it changes nothing.
h1_request(st, up, app) ==
    LET buf == st.app_buf
        end == find_header_end(buf)
        head == SubSeq(buf, 1, end - 1)
        framing == request_framing(head)
        total == end + framing.n
        hit == hit_of(extract_query(head, SubSeq(buf, end + 1, total)))
        t == [st EXCEPT !.app_buf = Behind(@, total), !.blocked = @ \o SetToSeq({NameOf[q] : q \in hit})]
    IN  IF end = 0 THEN Cross(st, up, app)
        ELSE IF head = <<>> \/ head[1] \notin RequestLines \/ framing.kind = "Chunked"
        THEN Cross([st EXCEPT !.h1_passthrough = TRUE, !.app_buf = <<>>], up \o buf, app)
        ELSE IF Len(buf) < total THEN Cross(st, up, app)
        ELSE IF hit # {} THEN Cross(t, up, app \o h1_response(nxdomain(CHOOSE q \in hit : TRUE)))
        ELSE Cross(t, up \o SubSeq(buf, 1, total), app)

h1_requests(st) ==
    LET turns[n \in 0..Len(st.app_buf)] ==
            IF n = 0 THEN Cross(st, <<>>, <<>>)
            ELSE LET c == turns[n - 1] IN h1_request(c.st, c.to_upstream, c.to_app)
    IN  turns[Len(st.app_buf)]

h1_feed(st, data) ==
    LET t == [st EXCEPT !.app_buf = @ \o data]
    IN  IF st.h1_passthrough THEN Cross([t EXCEPT !.app_buf = <<>>], t.app_buf, <<>>)
        ELSE h1_requests(t)

\* HTTP/2 opens with its preface; what cannot become it is HTTP/1.1.
decide_proto(buf) ==
    CASE IsPrefix(PREFACE, buf) -> "H2"
      [] IsStrictPrefix(buf, PREFACE) -> "Undecided"
      [] OTHER -> "H1"

doh_app_data(st, data) ==
    LET buf == st.app_buf \o data
        proto == decide_proto(buf)
    IN  CASE st.proto = "Undecided" /\ proto = "Undecided" -> Cross([st EXCEPT !.app_buf = buf], <<>>, <<>>)
          [] st.proto = "Undecided" /\ proto = "H2" ->
                 h2_feed([st EXCEPT !.proto = "H2", !.app_buf = <<>>], buf)
          [] st.proto = "Undecided" /\ proto = "H1" ->
                 h1_feed([st EXCEPT !.proto = "H1", !.app_buf = buf], <<>>)
          [] st.proto = "H2" -> h2_feed(st, data)
          [] st.proto = "H1" -> h1_feed(st, data)

\* A response answers the stream that has waited longest.
answer_front(st, resp) ==
    IF st.pending = <<>> THEN st
    ELSE [st EXCEPT !.pending = Tail(@),
                    !.h2 = respond(@, st.pending[1], resp.status, resp.body)]

doh_upstream_data(st, data) ==
    LET r == h1_responses([st.up EXCEPT !.buf = @ \o data])
        answered == FoldLeft(answer_front, [st EXCEPT !.up = r.up], r.out)
    IN  IF st.proto # "H2" THEN Cross(st, <<>>, data) ELSE h2_out(Cross(answered, <<>>, <<>>))

-----------------------------------------------------------------------------
on_app_data(st, data) == IF st.kind = "Dot" THEN dot_app_data(st, data) ELSE doh_app_data(st, data)
on_upstream_data(st, data) ==
    IF st.kind = "Dot" THEN Cross(st, <<>>, data) ELSE doh_upstream_data(st, data)
=============================================================================
