---------------------------- MODULE HttpRewriter ----------------------------
(***************************************************************************)
(* The cosmetic rewriter of rust/tls/src/rewriter.rs: feed_request asks    *)
(* for uncompressed responses, feed_response injects a blob into HTML      *)
(* documents, as functions from a rewriter and a segment of plaintext to   *)
(* the next rewriter and the bytes to forward.                             *)
(*                                                                         *)
(* Bytes are the tokens of HttpTap; in a document "<head", "<body",        *)
(* "<html" and "<!doctype" open a tag when what follows ends the name, and *)
(* ">" closes it.  The blob is one token, the marker that is looked for.   *)
(***************************************************************************)
EXTENDS HttpTap

CONSTANT MAX_ANCHOR_SCAN    \* on the tokens searched for a place to inject

ASSUME RewriterAssumption == MAX_ANCHOR_SCAN \in Nat \ {0}

Blob == <<"mark">>

\* req is what remains of a request's body; resp is the state of the response: its
\* phase, the head held and the body scanned, and the body's framing.
NoResponse ==
    [phase |-> "Head", head |-> <<>>, scan |-> <<>>, body |-> NoBody, body_done |-> FALSE]
HttpRewriterNew ==
    [active |-> FALSE, disabled |-> FALSE, req |-> 0, req_buf |-> <<>>,
     resp |-> NoResponse, resp_buf |-> <<>>, pending_head |-> <<>>]

\* A payload without CSS and JS leaves the rewriter off.
set_cosmetic(rw, payload) == [rw EXCEPT !.active = payload]

-----------------------------------------------------------------------------
(* Requests *)

edit_request_head(head) ==
    FlattenSeq([i \in DOMAIN head |->
                   IF head[i] \in {"accept-encoding", "END"} THEN <<>> ELSE <<head[i]>>])
        \o <<"identity", "END">>

Out(rw, out) == [rw |-> rw, out |-> out]
disable_flush_req(rw, out) ==
    Out([rw EXCEPT !.disabled = TRUE, !.req_buf = <<>>], out \o rw.req_buf)

\* One turn of drive_request; when there is nothing to be done it changes nothing.
drive_request_turn(rw, out) ==
    LET h == take_head(rw.req_buf)
        framing == request_framing(h.head)
        r == [rw EXCEPT !.req_buf = h.buf, !.pending_head = Append(@, h.head[1] = "HEAD")]
        edited == out \o edit_request_head(Append(h.head, "END"))
        take == Min({rw.req, Len(rw.req_buf)})
        b == [rw EXCEPT !.req = @ - take, !.req_buf = Behind(@, take)]
    IN  CASE rw.req = 0 /\ h.step = "NeedMore" -> Out(rw, out)
          [] rw.req = 0 /\ h.step = "Error" -> disable_flush_req(rw, out)
          [] rw.req = 0 /\ h.step = "Head" ->
                 IF h.head = <<>> \/ h.head[1] \notin RequestLines THEN disable_flush_req(rw, out)
                 ELSE IF framing.kind = "Chunked" THEN disable_flush_req(r, edited)
                 ELSE Out([r EXCEPT !.req = framing.n], edited)
          [] rw.req > 0 -> Out(b, out \o SubSeq(rw.req_buf, 1, take))

\* Each turn that does not end the loop takes a token at least.
drive_request(rw) ==
    LET turns[n \in 0..(Len(rw.req_buf) + 1)] ==
            IF n = 0 THEN Out(rw, <<>>)
            ELSE LET t == turns[n - 1] IN drive_request_turn(t.rw, t.out)
    IN  turns[Len(rw.req_buf) + 1]

feed_request(rw, data) ==
    IF ~rw.active \/ rw.disabled THEN Out([rw EXCEPT !.req_buf = <<>>], rw.req_buf \o data)
    ELSE drive_request([rw EXCEPT !.req_buf = @ \o data])

-----------------------------------------------------------------------------
(* The place to inject *)

NameEnds == {">", " "}

\* Where a tag opens; a name at the very end is not taken yet.
tag_start(hay, name) ==
    LET at == {i \in DOMAIN hay : hay[i] = name /\ (i = Len(hay) \/ hay[i + 1] \in NameEnds)}
    IN  IF at = {} \/ Min(at) = Len(hay) THEN 0 ELSE Min(at)
\* One past its end.
tag_open_end(hay, name) ==
    LET start == tag_start(hay, name)
        gt == {i \in start..Len(hay) : start > 0 /\ hay[i] = ">"}
    IN  IF gt = {} THEN 0 ELSE Min(gt) + 1
doctype_end(hay) ==
    LET start == SelectInSeq(hay, LAMBDA b : b = "<!doctype")
        gt == {i \in start..Len(hay) : start > 0 /\ hay[i] = ">"}
    IN  IF gt = {} THEN 0 ELSE Min(gt) + 1

\* What can be decided now: behind <head>, or before <body>, whichever is first.
anchor_streaming(scan) ==
    LET found == {tag_open_end(scan, "<head"), tag_start(scan, "<body")} \ {0}
    IN  IF found = {} THEN 0 ELSE Min(found)

\* What is left at the end: behind <head>, before <body>, behind <html> or the doctype.
anchor_final(scan) ==
    LET places == <<tag_open_end(scan, "<head"), tag_start(scan, "<body"),
                    tag_open_end(scan, "<html"), doctype_end(scan)>>
        i == SelectInSeq(places, LAMBDA p : p > 0)
    IN  IF i = 0 THEN 0 ELSE places[i]

-----------------------------------------------------------------------------
(* Responses *)

\* HTML, not compressed, in an 8-bit charset, and whole.
injectable(status, headers) ==
    status # 206 /\ "html" \in ToSet(headers) /\ "gzip" \notin ToSet(headers)

\* The policy goes, and the length grows by what is injected.
edit_response_head(head, more) ==
    LET kept == SelectSeq(head, LAMBDA h : h # "csp")
        cl == content_length(head)
    IN  [i \in DOMAIN kept |-> IF cl >= 0 /\ kept[i] \in Lengths THEN length(cl + more) ELSE kept[i]]

rechunk(data) ==
    IF data = <<>> THEN <<>> ELSE <<ToString(Len(data)), "CRLF">> \o data \o <<"CRLF">>
LastChunk == <<"0", "CRLF", "CRLF">>
in_body(body, data) == IF body.kind = "Chunked" THEN rechunk(data) ELSE data

disable_flush_resp(rw, out) ==
    [more |-> FALSE, rw |-> [rw EXCEPT !.disabled = TRUE, !.resp_buf = <<>>,
                                       !.resp = NoResponse],
     out |-> out \o rw.resp_buf]
Step(more, rw, out) == [more |-> more, rw |-> rw, out |-> out]

\* h is what its take_head returns, and c below what its consume returns.
step_response_head(rw, out, h) ==
    LET raw == Append(h.head, "END")
        status == status_of(h.head[1])
        method_is_head == rw.pending_head # <<>> /\ rw.pending_head[1]
        framing == response_framing(status, method_is_head, h.head)
        r == [rw EXCEPT !.resp_buf = h.buf]
        answered == [r EXCEPT !.pending_head = IF @ = <<>> THEN @ ELSE Tail(@)]
    IN  CASE h.step = "NeedMore" -> Step(FALSE, rw, out)
          [] h.step = "Error" -> disable_flush_resp(rw, out)
          [] h.step = "Head" ->
                 IF h.head = <<>> \/ h.head[1] \notin StatusLines THEN disable_flush_resp(rw, out)
                 ELSE IF status = 100 THEN Step(TRUE, r, out \o raw)
                 ELSE IF status = 101 THEN disable_flush_resp(answered, out \o raw)
                 ELSE IF framing = NoBody THEN Step(TRUE, answered, out \o raw)
                 ELSE IF injectable(status, h.head)
                 THEN Step(TRUE, [answered EXCEPT !.resp = [NoResponse EXCEPT !.phase = "Buffer",
                                                                !.head = raw, !.body = framing]], out)
                 ELSE Step(TRUE, [answered EXCEPT !.resp = [NoResponse EXCEPT !.phase = "Pass",
                                                                !.body = framing]], out \o raw)

\* The head and what was scanned go out, with or without the blob.
resolved(bs, anchor) ==
    LET cut == anchor - 1
    IN  IF anchor = 0 THEN bs.head \o in_body(bs.body, bs.scan)
        ELSE edit_response_head(bs.head, Len(Blob))
                 \o in_body(bs.body, SubSeq(bs.scan, 1, cut) \o Blob \o Behind(bs.scan, cut))

\* The body is scanned for the place to inject, until it is found or nothing more is
\* to be waited for.
step_response_buffer(rw, out, c) ==
    LET bs == [rw.resp EXCEPT !.scan = @ \o c.data, !.body = c.framing, !.body_done = c.step = "Done"]
        r == [rw EXCEPT !.resp_buf = c.buf]
        abandon == (bs.scan # <<>> /\ bs.scan[1] = "bom16") \/ "mark" \in ToSet(bs.scan)
        now == anchor_streaming(bs.scan)
        giving_up == bs.body_done \/ Len(bs.scan) >= MAX_ANCHOR_SCAN
        anchor == IF abandon THEN 0 ELSE IF now > 0 THEN now ELSE anchor_final(bs.scan)
        end == IF bs.body_done /\ bs.body.kind = "Chunked" THEN LastChunk ELSE <<>>
        next == IF bs.body_done THEN NoResponse
                ELSE [NoResponse EXCEPT !.phase = "Stream", !.body = bs.body]
    IN  IF c.step = "Error"
        THEN Step(FALSE, [r EXCEPT !.disabled = TRUE, !.resp = NoResponse],
                  out \o bs.head \o rechunk(bs.scan) \o LastChunk)
        ELSE IF ~abandon /\ now = 0 /\ ~giving_up THEN Step(FALSE, [r EXCEPT !.resp = bs], out)
        ELSE Step(TRUE, [r EXCEPT !.resp = next], out \o resolved(bs, anchor) \o end)

\* The rest of a body: in chunks of our own behind a scan, else as it came.
step_response_rest(rw, out, c) ==
    LET chunked == rw.resp.body.kind = "Chunked"
        stream == rw.resp.phase = "Stream"
        seen == SubSeq(rw.resp_buf, 1, Len(rw.resp_buf) - Len(c.buf))
        data == IF chunked /\ stream THEN rechunk(c.data) ELSE seen
        end == IF chunked /\ stream /\ c.step \in {"Done", "Error"} THEN LastChunk ELSE <<>>
        r == [rw EXCEPT !.resp_buf = c.buf]
    IN  IF c.step = "NeedMore" THEN Step(FALSE, [r EXCEPT !.resp.body = c.framing], out \o data)
        ELSE IF c.step = "Done" THEN Step(TRUE, [r EXCEPT !.resp = NoResponse], out \o data \o end)
        ELSE IF stream
        THEN Step(FALSE, [r EXCEPT !.resp = NoResponse, !.disabled = TRUE], out \o data \o end)
        ELSE disable_flush_resp(r, out \o data)

step_response(rw, out) ==
    CASE rw.resp.phase = "Head" -> step_response_head(rw, out, take_head(rw.resp_buf))
      [] rw.resp.phase = "Buffer" ->
             step_response_buffer(rw, out, consume(rw.resp.body, rw.resp_buf))
      [] rw.resp.phase \in {"Stream", "Pass"} ->
             step_response_rest(rw, out, consume(rw.resp.body, rw.resp_buf))

\* Each step that does not end the loop takes a token at least.
drive_response(rw) ==
    LET steps[n \in 0..(Len(rw.resp_buf) + 1)] ==
            IF n = 0 THEN Step(TRUE, rw, <<>>)
            ELSE LET s == steps[n - 1] IN IF s.more THEN step_response(s.rw, s.out) ELSE s
        last == steps[Len(rw.resp_buf) + 1]
    IN  Out(last.rw, last.out)

feed_response(rw, data) ==
    IF ~rw.active \/ rw.disabled THEN Out([rw EXCEPT !.resp_buf = <<>>], rw.resp_buf \o data)
    ELSE drive_response([rw EXCEPT !.resp_buf = @ \o data])
=============================================================================
