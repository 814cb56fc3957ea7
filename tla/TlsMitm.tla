------------------------------ MODULE TlsMitm ------------------------------
(***************************************************************************)
(* One TLS splice, rust/tls/src/mitm.rs, as drive_mitm of forward.rs pumps *)
(* it: the app's TLS session with a minted leaf, the session toward the    *)
(* server, and the plaintext that crosses, through the HTTP tap and the    *)
(* rewriter or through the DNS filter.  Each side's bytes come in any      *)
(* segmentation, and the two sides in any order.  The sockets are in       *)
(* TcpRelay, what a refused leaf leads to in TcpFlows.                     *)
(*                                                                         *)
(* What the app sends, and what the server answers, is chosen beforehand,  *)
(* with what either is to get; rustls is modelled from how the code uses   *)
(* it.                                                                     *)
(***************************************************************************)
EXTENDS HttpRewriter, DnsStream

CONSTANT Scripts    \* see ScriptAssumption

\* kind: what the plaintext is.  sni, trusts: the app names the server, and takes the
\* leaf.  payload: there is something to inject.  app: its plaintext.  early, whole: the
\* server may answer a request it has not got in full; it sends an answer as one piece.
\* replies: what it answers, for each request it gets.
\* What must come of it: asked is what the server is to get; shown what the app is to
\* get, chunks undone, and answers those it gets in any order; logged the transactions.
IsSequence(x) == Len(x) \in Nat /\ x = [i \in 1..Len(x) |-> x[i]]
ASSUME ScriptAssumption == \A s \in Scripts :
    /\ IsSequence(s.app) /\ IsSequence(s.replies)
    /\ \A i \in DOMAIN s.replies : IsSequence(s.replies[i])
    /\ s.kind \in {"http", "dot", "doh"} /\ s.sni \in BOOLEAN /\ s.trusts \in BOOLEAN
    /\ s.payload \in BOOLEAN /\ s.early \in BOOLEAN /\ s.whole \in BOOLEAN

VARIABLES
    script,
    app_tls,        \* what the app has not sent yet: records
    app_hs, up_hs,  \* the sessions: hello or none, shaking, open
    app_closed, upstream_closed, failed, cert_rejected,
    plaintext,      \* what handles the plaintext
    to_upstream,    \* what was written to the server's session
    to_app,         \* what was written to the app's session
    sent,           \* how much the server has sent of its answers
    har,            \* the transactions logged
    closed,         \* the splice is over
    gone            \* and its flow

sessions == <<app_hs, up_hs, app_closed, upstream_closed, failed, cert_rejected, closed>>
crossing == <<plaintext, to_upstream, to_app, har>>
vars == <<script, app_tls, sent, sessions, crossing, gone>>

Record(tls, byte) == [tls |-> tls, byte |-> byte]
AppRecords(s) ==
    IF ~s.trusts THEN <<Record("hello", <<>>), Record("alert", <<>>)>>
    ELSE <<Record("hello", <<>>), Record("finished", <<>>)>>
             \o [i \in DOMAIN s.app |-> Record("data", s.app[i])] \o <<Record("close", <<>>)>>
Data(records) ==
    FlattenSeq([i \in DOMAIN records |-> IF records[i].tls = "data" THEN <<records[i].byte>> ELSE <<>>])

HttpNew == [kind |-> "Http", tap |-> HttpTapNew, rewriter |-> HttpRewriterNew]
PlaintextNew(s) ==
    CASE s.kind = "http" -> HttpNew [] s.kind = "dot" -> DotNew [] s.kind = "doh" -> DohNew

Init ==
    /\ script \in Scripts
    /\ app_tls = AppRecords(script) /\ sent = 0
    /\ app_hs = "hello" /\ up_hs = "none"
    /\ app_closed = FALSE /\ upstream_closed = FALSE /\ failed = FALSE
    /\ cert_rejected = FALSE /\ closed = FALSE /\ gone = FALSE
    /\ plaintext = PlaintextNew(script) /\ to_upstream = <<>> /\ to_app = <<>> /\ har = <<>>

-----------------------------------------------------------------------------
(* cross_plaintext, for what each side has sent *)

cross_http(p, app, up) ==
    LET both(req, resp) ==
            Cross([p EXCEPT !.tap = tap_response(tap_request(@, app), up), !.rewriter = resp.rw],
                  req.out, resp.out)
        answered(req) ==
            both(req, IF up = <<>> THEN Out(req.rw, <<>>) ELSE feed_response(req.rw, up))
    IN  answered(IF app = <<>> THEN Out(p.rewriter, <<>>) ELSE feed_request(p.rewriter, app))

cross_dns(p, app, up) ==
    LET both(a, u) == Cross(u.st, a.to_upstream, a.to_app \o u.to_app)
        answered(a) ==
            both(a, IF up = <<>> THEN Cross(a.st, <<>>, <<>>) ELSE on_upstream_data(a.st, up))
    IN  answered(IF app = <<>> THEN Cross(p, <<>>, <<>>) ELSE on_app_data(p, app))

cross_plaintext(app, up) ==
    IF plaintext.kind = "Http" THEN cross_http(plaintext, app, up)
    ELSE cross_dns(plaintext, app, up)

\* drain_mitm_transactions, and what is logged when the splice is over.
drained(p, over) ==
    IF p.kind # "Http" THEN [p |-> p, txns |-> <<>>]
    ELSE LET tap == IF over THEN finish(p.tap) ELSE p.tap
         IN  [p |-> [p EXCEPT !.tap = [tap EXCEPT !.completed = <<>>]], txns |-> tap.completed]

\* Mutant: in the pump in which the app's session opens.
provision_late(p, learned) ==
    IF p.kind = "Http" /\ app_hs' = "open" THEN [p EXCEPT !.rewriter = set_cosmetic(@, script.payload)]
    ELSE p

\* provision_cosmetics, in the pump that learns the host.
provision(p, learned) ==
    IF p.kind = "Http" /\ learned THEN [p EXCEPT !.rewriter = set_cosmetic(@, script.payload)] ELSE p

-----------------------------------------------------------------------------
(* pump *)

\* Mutant: whose failure it was is not asked.
fail_any(side) ==
    /\ failed' = TRUE /\ closed' = TRUE
    /\ cert_rejected' = (app_hs' # "open")

\* The app's failure in its handshake is taken for a refusal of the leaf.
fail(side) ==
    /\ failed' = TRUE /\ closed' = TRUE
    /\ cert_rejected' = (side = "App" /\ app_hs' # "open")

\* Both sessions take what came, the host is learned, the plaintext crosses, and closes
\* are passed on.
pump(app, up) ==
    LET app_has(tls) == \E i \in DOMAIN app : app[i].tls = tls
        up_has(tls) == \E i \in DOMAIN up : up[i].tls = tls
        learned == up_hs = "none" /\ app_has("hello") /\ script.sni
        app_fails == app_has("alert") \/ app_has("bad") \/ (app_has("hello") /\ ~script.sni)
    IN  /\ app_hs' = IF app_has("finished") THEN "open"
                     ELSE IF app_has("hello") THEN "shaking" ELSE app_hs
        /\ up_hs' = IF learned THEN "shaking" ELSE IF up_has("finished") THEN "open" ELSE up_hs
        /\ app_closed' = (app_closed \/ app_has("close"))
        /\ upstream_closed' = (upstream_closed \/ up_has("close"))
        /\ CASE app_fails -> fail("App") /\ UNCHANGED crossing
             [] ~app_fails /\ up_has("bad") -> fail("Upstream") /\ UNCHANGED crossing
             [] OTHER ->
                  /\ closed' = (app_closed' /\ upstream_closed')
                  /\ \E c \in {cross_plaintext(Data(app), Data(up))} :
                        /\ \E d \in {drained(c.st, closed')} :
                              plaintext' = provision(d.p, learned) /\ har' = har \o d.txns
                        /\ to_upstream' = to_upstream \o c.to_upstream
                        /\ to_app' = to_app \o c.to_app
                  /\ UNCHANGED <<failed, cert_rejected>>

-----------------------------------------------------------------------------
(* What can come from the app's socket *)

\* The records, and what is then left to be sent.
FromApp(records, left) == [app |-> records, up |-> <<>>, app_tls |-> left, sent |-> sent]
FromServer(records, n) == [app |-> <<>>, up |-> records, app_tls |-> app_tls, sent |-> n]

\* The service pass, for what the app has sent; its second flight answers ours.
service ==
    {FromApp(SubSeq(app_tls, 1, n), Behind(app_tls, n)) :
        n \in 1..(IF app_hs = "hello" THEN Min({1, Len(app_tls)}) ELSE Len(app_tls))}

\* The app breaks its session off, with an alert or with what does not decrypt.
Breaks == {FromApp(<<Record("bad", <<>>)>>, <<>>) : left \in {app_tls} \ {<<>>}}

-----------------------------------------------------------------------------
(* What can come from the server's *)

\* The requests it has got.
Got ==
    LET asks == {i \in DOMAIN to_upstream : to_upstream[i] \in Questions
                                              /\ i < Len(to_upstream)}
        begun(tap) == Len(tap.pending) + (IF script.early THEN Len(tap.req_partial) ELSE 0)
    IN  IF script.kind = "dot" THEN Cardinality(asks) ELSE begun(tap_request(HttpTapNew, to_upstream))
\* Its answers to them, and the places up to which it may send.
Answers(n) == FlattenSeq(SubSeq(script.replies, 1, Min({n, Len(script.replies)})))

\* It takes our session up, unless the app's close has already reached it.
Accepts ==
    {FromServer(<<Record(tls, <<>>)>>, sent) :
        tls \in IF up_hs = "shaking" /\ ~app_closed THEN {"finished", "bad"} ELSE {}}

\* handle_upstream_event, for what the server has sent: an answer, and its close behind
\* the last one.
on_readable ==
    LET all == Answers(Len(script.replies))
        upto(got) ==    \* the places it may have sent up to
            {n \in sent..Len(all) : n <= Len(Answers(got))
                 /\ (script.whole => n \in {sent} \cup {Len(Answers(g)) : g \in 1..got})}
        data(n) == [i \in 1..(n - sent) |-> Record("data", all[sent + i])]
        places == upto(Min({Got, Len(script.replies)}))
    IN  IF up_hs # "open" \/ upstream_closed THEN {}
        ELSE {FromServer(data(n), n) : n \in places \ {sent}}
                 \cup {FromServer(Append(data(n), Record("close", <<>>)), n) :
                          n \in places \cap {Len(all)}}

-----------------------------------------------------------------------------
(* The steps *)

\* What has come is pumped, whichever socket it came from.
drive_mitm ==
    /\ ~closed
    /\ \E c \in service \cup Breaks \cup Accepts \cup on_readable :
          app_tls' = c.app_tls /\ sent' = c.sent /\ pump(c.app, c.up)
    /\ UNCHANGED <<script, gone>>

\* The flow ends, whatever the splice has come to, and what was captured is logged.
teardown_tcp ==
    /\ ~gone /\ gone' = TRUE /\ closed' = TRUE
    /\ LET d == drained(plaintext, TRUE) IN plaintext' = d.p /\ har' = har \o d.txns
    /\ UNCHANGED <<script, app_tls, sent, app_hs, up_hs, app_closed, upstream_closed,
                   failed, cert_rejected, to_upstream, to_app>>

Next == drive_mitm \/ teardown_tcp

Spec == Init /\ [][Next]_vars

-----------------------------------------------------------------------------
(* What is to hold *)

AllSent == sent = Len(Answers(Len(script.replies)))
\* Both sides have said all they had to say.
Over == app_closed /\ upstream_closed

\* The splice says the app refused the leaf, which has its later flows relayed raw, only
\* if the app broke off its handshake, or named no server, so that there is no leaf for it:
\* neither a server that fails first nor an app that breaks off later is taken for it
\* (mark_failed).
PinMeansRefusal == cert_rejected => app_hs # "open" /\ (app_tls = <<>> \/ ~script.sni)

\* The server gets what the app asked, but for the questions answered here, in its order
\* and with only the heads edited, however the bytes are cut; in full once the app has
\* closed.  Nothing crosses before the payload is provisioned (provision_cosmetics).
AskedExact ==
    /\ IsPrefix(to_upstream, script.asked)
    /\ app_closed => to_upstream = script.asked

\* The app's plaintext read byte by byte, whatever the segments: what is held of a head or
\* a message, what is still to come of a body, and what the server is to get.
NothingAsked == [held |-> <<>>, left |-> 0, out |-> <<>>]
Asking(s, acc, byte) ==
    LET held == Append(acc.held, byte)
        len == Len(held)
        end == find_header_end(held)
        head == SubSeq(held, 1, end - 1)
        sends(out) == [held |-> <<>>, left |-> 0, out |-> acc.out \o out]
        message(whole, hit) ==
            IF whole THEN sends(IF hit # {} THEN <<>> ELSE held) ELSE [acc EXCEPT !.held = held]
        raw == s.kind = "http" /\ ~s.payload
        edited == s.kind = "http" /\ s.payload
    IN  CASE raw -> sends(<<byte>>)
          [] edited /\ acc.left > 0 -> [sends(<<byte>>) EXCEPT !.left = acc.left - 1]
          [] edited /\ acc.left = 0 /\ byte # "END" -> [acc EXCEPT !.held = held]
          [] edited /\ acc.left = 0 /\ byte = "END" ->
                 [sends(edit_request_head(held)) EXCEPT !.left = request_framing(acc.held).n]
          [] s.kind = "dot" ->
                 message(len > 1 /\ len = dot_total(held), block_wire(SubSeq(held, 3, len)))
          [] s.kind = "doh" ->
                 message(end > 0 /\ len = end + request_framing(head).n,
                         hit_of(extract_query(head, SubSeq(held, end + 1, len))))

\* What is read of the first n bytes.
Asked(s) ==
    LET asked[n \in 0..Len(s.app)] ==
            IF n = 0 THEN NothingAsked ELSE Asking(s, asked[n - 1], s.app[n])
    IN  asked

\* The script asks for what its plaintext comes to: over DoT each message behind its two
\* octets, and over DoH not by HTTP/2.
AsksFor(s) ==
    /\ s.kind = "doh" => ~IsPrefix(PREFACE, s.app)
    /\ s.kind = "dot" =>
          \A n \in DOMAIN s.app : Len(Asked(s)[n - 1].held) < 2 => s.app[n] \in Octets
    /\ s.asked = Asked(s)[Len(s.app)].out

\* The plaintext is no longer looked at: behind a chunked upload, an upgrade, or what is
\* not understood, all goes through as it comes.
GivenUp ==
    CASE plaintext.kind = "Http" -> plaintext.rewriter.disabled
      [] plaintext.kind = "Dot" -> plaintext.passthrough
      [] plaintext.kind = "Doh" -> plaintext.h1_passthrough

\* The framing of chunked bodies undone, token by token: no line or chunk is looked for
\* in a segment.
Unchunk(acc, byte) ==
    LET add == [acc EXCEPT !.out = Append(@, byte)]
    IN  CASE acc.at = "flat" -> IF byte = "chunked" THEN [add EXCEPT !.at = "head"] ELSE add
          [] acc.at = "head" -> IF byte = "END" THEN [add EXCEPT !.at = "size"] ELSE add
          [] acc.at = "size" /\ byte # "CRLF" -> [acc EXCEPT !.left = number(byte)]
          [] acc.at = "size" /\ byte = "CRLF" ->
                 [acc EXCEPT !.at = IF acc.left = 0 THEN "trailer" ELSE "data"]
          [] acc.at = "data" /\ acc.left > 0 -> [add EXCEPT !.left = @ - 1]
          [] acc.at = "data" /\ acc.left = 0 -> [acc EXCEPT !.at = "size"]
          [] acc.at = "trailer" /\ byte # "CRLF" -> [acc EXCEPT !.left = 1]
          [] acc.at = "trailer" /\ byte = "CRLF" ->
                 [acc EXCEPT !.at = IF acc.left = 1 THEN "trailer" ELSE "flat", !.left = 0]
Unchunked(bytes) == FoldLeft(Unchunk, [at |-> "flat", left |-> 0, out |-> <<>>], bytes).out

\* The app gets the responses as the server sent them, but for the blob, once, in the
\* place for it of an HTML document, with the length and the policy to match; and in full
\* once the server has closed.  It does not depend on how the bytes are cut.
ShownExact ==
    script.answers = {} =>
        /\ IsPrefix(Unchunked(to_app), script.shown)
        /\ upstream_closed => Unchunked(to_app) = script.shown

\* What is logged is each transaction, the response with the request it answers, its body
\* up to the cap; only the last can have a body cut short, one that a close ends.  A
\* response before the end of its request ends the log.
Logged(t) ==
    <<t.request.head[1], t.request.body, t.response.head[1], t.response.body, t.response.wire_len>>
HarExact ==
    LET log == [i \in DOMAIN har |-> Logged(har[i])]
        n == Len(log)
    IN  /\ n <= Len(script.logged)
        /\ \A i \in 1..(n - 1) : log[i] = script.logged[i]
        /\ n > 0 => SubSeq(log[n], 1, 3) = SubSeq(script.logged[n], 1, 3)
                        /\ IsPrefix(log[n][4], script.logged[n][4])
        /\ AllSent /\ Over /\ ~failed /\ ~script.early => log = script.logged

\* The answers in what the app got: over DoT the messages, over HTTP/2 the frames of each
\* stream.
Messages(bytes) == {SubSeq(bytes, 4 * i - 3, 4 * i) : i \in 1..(Len(bytes) \div 4)}
Unframe(acc, tok) ==
    IF acc.head # <<>>
    THEN [head |-> <<>>, frames |-> Append(acc.frames, [head |-> acc.head[1], payload |-> tok])]
    ELSE IF tok.len = 0 THEN [acc EXCEPT !.frames = Append(@, [head |-> tok, payload |-> <<>>])]
    ELSE [acc EXCEPT !.head = <<tok>>]
Streams(toks) ==
    LET frames == FoldLeft(Unframe, [head |-> <<>>, frames |-> <<>>], toks).frames
        ids == {frames[i].head.stream_id : i \in DOMAIN frames} \ {0}
    IN  {SelectSeq(frames, LAMBDA f : f.head.stream_id = sid) : sid \in ids}
Delivered == IF script.kind = "dot" THEN Messages(to_app) ELSE Streams(to_app)

\* Each question is answered whole and with its own answer: nothing is between an
\* answer's frames but other streams', and no stream gets another's; all of them once
\* the server has closed.
AnswersMatch ==
    script.answers # {} =>
        /\ Delivered \subseteq script.answers
        /\ script.kind = "dot" => Len(to_app) = 4 * Cardinality(Messages(to_app))
        /\ upstream_closed => Delivered = script.answers

\* "It never drops or reorders bytes" (rewriter.rs): when both sides have closed, what
\* the server sent is what the app got, but for the blob.
NeverDrops ==
    Over => SelectSeq(Unchunked(to_app), LAMBDA b : b # "mark")
                = Unchunked(Answers(Len(script.replies)))
=============================================================================
