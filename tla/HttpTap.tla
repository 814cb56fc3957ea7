------------------------------ MODULE HttpTap ------------------------------
(***************************************************************************)
(* The HTTP/1.1 parser and the capture of rust/tls/src/har.rs: heads, the  *)
(* framing of bodies, the chunk reader, and HttpTap, which pairs requests  *)
(* with responses for the HAR log, as functions from a tap and a segment   *)
(* of plaintext to the next tap.                                           *)
(*                                                                         *)
(* A byte is a token: the first line of a head, a header, "END" for the    *)
(* empty line that ends a head; in a body anything, with the size of a     *)
(* chunk and the "CRLF" behind it.  Request lines are named by what they   *)
(* ask; names of headers, hosts and times are left out.                    *)
(***************************************************************************)
EXTENDS Integers, Sequences, SequencesExt, FiniteSetsExt, TLC

CONSTANTS
    MAX_HEADER_BYTES,   \* on the tokens of a head, or of a line in a chunked body
    MAX_BODY_CAPTURE,   \* on the tokens kept of a body
    RequestLines        \* what parses as a request line

ASSUME TapAssumption == MAX_HEADER_BYTES \in Nat /\ MAX_BODY_CAPTURE \in Nat

Numbers == 0..12
Statuses == {100, 101, 200, 204, 206, 304}
status_line(status) == "HTTP " \o ToString(status)
StatusLines == {status_line(s) : s \in Statuses}
status_of(line) == CHOOSE s \in Statuses : status_line(s) = line

-----------------------------------------------------------------------------
(* Heads *)

\* One past the first empty line, or 0.
find_header_end(buf) == SelectInSeq(buf, LAMBDA b : b = "END")

header(headers, names) == SelectSeq(headers, LAMBDA h : h \in names)
length(n) == "length " \o ToString(n)
Lengths == {length(n) : n \in Numbers} \cup {"length junk"}
is_chunked(headers) == "chunked" \in ToSet(headers)
\* The first counts; -1 when there is none or it does not parse.
content_length(headers) ==
    LET found == header(headers, Lengths)
        n == {k \in Numbers : found # <<>> /\ length(k) = found[1]}
    IN  IF n = {} THEN -1 ELSE Max(n)

\* How a body is delimited: by length, by chunks, by the connection's close; or there
\* is none.  A chunk reader is in one of four states, with the line read so far.
Framing(kind, n) == [kind |-> kind, state |-> "Size", n |-> n, line |-> <<>>]
NoBody == Framing("None", 0)
Chunked == Framing("Chunked", 0)
UntilClose == Framing("UntilClose", 0)

request_framing(headers) ==
    IF is_chunked(headers) THEN Chunked
    ELSE IF content_length(headers) > 0 THEN Framing("Length", content_length(headers))
    ELSE NoBody

response_framing(status, method_is_head, headers) ==
    IF method_is_head \/ status \in {100, 101, 204, 304} THEN NoBody
    ELSE IF is_chunked(headers) THEN Chunked
    ELSE CASE content_length(headers) = 0 -> NoBody
           [] content_length(headers) > 0 -> Framing("Length", content_length(headers))
           [] content_length(headers) < 0 -> UntilClose

-----------------------------------------------------------------------------
(* Bodies *)

parse_hex(text) ==
    LET n == {k \in Numbers : text = <<ToString(k)>>} IN IF n = {} THEN -1 ELSE Max(n)

Consumed(step, framing, buf, data) ==
    [step |-> step, framing |-> framing, buf |-> buf, data |-> data]
Behind(buf, n) == SubSeq(buf, n + 1, Len(buf))

\* Mutant: a line cut by a segment's end loses what was read of it.
cut_line_lost(f, buf) == f

\* A line cut by a segment's end is kept.
cut_line(f, buf) == [f EXCEPT !.line = @ \o buf]

\* Where the first line ends, or 0.
line_end(buf) == SelectInSeq(buf, LAMBDA b : b = "CRLF")

\* One turn of ChunkReader::consume, which goes on while it can.
chunk_turn(f, buf, data) ==
    LET pos == line_end(buf)
        text == f.line \o SubSeq(buf, 1, pos - 1)
        take == Min({f.n, Len(buf)})
        more(framing, n) == Consumed("More", framing, Behind(buf, n), data)
    IN  CASE f.state \in {"Size", "Trailer"} /\ pos = 0 ->
                 IF Len(buf) > MAX_HEADER_BYTES THEN Consumed("Error", f, buf, data)
                 ELSE Consumed("NeedMore", cut_line(f, buf), <<>>, data)
          [] f.state = "Size" /\ pos > 0 /\ parse_hex(text) < 0 ->
                 Consumed("Error", f, Behind(buf, pos), data)
          [] f.state = "Size" /\ pos > 0 /\ parse_hex(text) >= 0 ->
                 more([f EXCEPT !.state = IF parse_hex(text) = 0 THEN "Trailer" ELSE "Data",
                                !.n = parse_hex(text), !.line = <<>>], pos)
          [] f.state = "Data" /\ take = 0 /\ f.n > 0 -> Consumed("NeedMore", f, buf, data)
          [] f.state = "Data" /\ (take > 0 \/ f.n = 0) ->
                 Consumed("More", [f EXCEPT !.n = @ - take, !.state = IF f.n = 0 THEN "DataCrlf" ELSE @],
                          Behind(buf, take), data \o SubSeq(buf, 1, take))
          [] f.state = "DataCrlf" /\ buf = <<>> -> Consumed("NeedMore", f, buf, data)
          [] f.state = "DataCrlf" /\ buf # <<>> ->
                 more([f EXCEPT !.state = "Size", !.line = <<>>], 1)
          [] f.state = "Trailer" /\ pos > 0 ->
                 IF text = <<>> THEN Consumed("Done", f, Behind(buf, pos), data)
                 ELSE more([f EXCEPT !.line = <<>>], pos)

\* The data of the chunks, and what is behind the last one; a token is taken at least in
\* every other turn.
chunks(f, buf) ==
    LET turns[n \in 0..(2 * Len(buf) + 2)] ==
            IF n = 0 THEN Consumed("More", f, buf, <<>>)
            ELSE LET c == turns[n - 1]
                 IN  IF c.step = "More" THEN chunk_turn(c.framing, c.buf, c.data) ELSE c
    IN  turns[2 * Len(buf) + 2]

consume(f, buf) ==
    LET take == Min({f.n, Len(buf)})
    IN  CASE f.kind = "Length" ->
                 Consumed(IF take = f.n THEN "Done" ELSE "NeedMore", [f EXCEPT !.n = @ - take],
                          Behind(buf, take), SubSeq(buf, 1, take))
          [] f.kind = "UntilClose" -> Consumed("NeedMore", f, <<>>, buf)
          [] f.kind = "Chunked" -> chunks(f, buf)

-----------------------------------------------------------------------------
(* HttpTap *)

\* A message: its head, and of its body what is kept and how long it was.
Message(head) == [head |-> head, body |-> <<>>, wire_len |-> 0]
push_capped(m, data) ==
    [m EXCEPT !.body = SubSeq(@ \o data, 1, Min({MAX_BODY_CAPTURE, Len(@ \o data)})),
              !.wire_len = @ + Len(data)]

\* A message whose body is still coming is a sequence of one.
HttpTapNew ==
    [disabled |-> FALSE, req_buf |-> <<>>, req_partial |-> <<>>, resp_buf |-> <<>>,
     resp_partial |-> <<>>, pending |-> <<>>, completed |-> <<>>]

disable(tap) ==
    [tap EXCEPT !.disabled = TRUE, !.req_buf = <<>>, !.resp_buf = <<>>,
                !.req_partial = <<>>, !.resp_partial = <<>>]

\* Whether a head is complete, and the head.
take_head(buf) ==
    LET end == find_header_end(buf)
    IN  [step |-> IF end > 0 THEN "Head"
                  ELSE IF Len(buf) > MAX_HEADER_BYTES THEN "Error" ELSE "NeedMore",
         head |-> SubSeq(buf, 1, end - 1), buf |-> Behind(buf, end)]

push_pending(tap, request) == [tap EXCEPT !.pending = Append(@, request)]

\* One turn of drain_requests; when there is nothing to be done it changes nothing.
request_turn(tap) ==
    LET h == take_head(tap.req_buf)
        t == [tap EXCEPT !.req_buf = h.buf]
        framing == request_framing(h.head)
        p == tap.req_partial[1]
        c == consume(p.framing, tap.req_buf)
        m == push_capped(p.message, c.data)
    IN  CASE tap.req_partial = <<>> /\ h.step = "NeedMore" -> tap
          [] tap.req_partial = <<>> /\ h.step = "Error" -> disable(tap)
          [] tap.req_partial = <<>> /\ h.step = "Head" ->
                 IF h.head = <<>> \/ h.head[1] \notin RequestLines THEN disable(tap)
                 ELSE IF framing = NoBody THEN push_pending(t, Message(h.head))
                 ELSE [t EXCEPT !.req_partial = <<[message |-> Message(h.head), framing |-> framing]>>]
          [] tap.req_partial # <<>> /\ c.step = "NeedMore" ->
                 [tap EXCEPT !.req_buf = c.buf,
                             !.req_partial = <<[message |-> m, framing |-> c.framing]>>]
          [] tap.req_partial # <<>> /\ c.step = "Error" -> disable(tap)
          [] tap.req_partial # <<>> /\ c.step = "Done" ->
                 push_pending([tap EXCEPT !.req_buf = c.buf, !.req_partial = <<>>], m)

\* Each turn that does not end the loop takes a token at least.
drain_requests(tap) ==
    LET turns[n \in 0..(Len(tap.req_buf) + 1)] ==
            IF n = 0 THEN tap ELSE request_turn(turns[n - 1])
    IN  turns[Len(tap.req_buf) + 1]

\* Mutant: the last request is paired, not the first.
complete_response_last(tap, response) ==
    IF tap.pending = <<>> THEN disable(tap)
    ELSE [tap EXCEPT !.pending = Front(@),
                     !.completed = Append(@, [request |-> Last(tap.pending), response |-> response])]

\* The first request waiting is the one answered; without one the tap gives up.
complete_response(tap, response) ==
    IF tap.pending = <<>> THEN disable(tap)
    ELSE [tap EXCEPT !.pending = Tail(@),
                     !.completed = Append(@, [request |-> tap.pending[1], response |-> response])]

\* One turn of drain_responses; when there is nothing to be done it changes nothing.
response_turn(tap) ==
    LET h == take_head(tap.resp_buf)
        t == [tap EXCEPT !.resp_buf = h.buf]
        status == status_of(h.head[1])
        method_is_head == tap.pending # <<>> /\ tap.pending[1].head[1] = "HEAD"
        framing == response_framing(status, method_is_head, h.head)
        p == tap.resp_partial[1]
        c == consume(p.framing, tap.resp_buf)
        m == push_capped(p.message, c.data)
    IN  CASE tap.resp_partial = <<>> /\ h.step = "NeedMore" -> tap
          [] tap.resp_partial = <<>> /\ h.step = "Error" -> disable(tap)
          [] tap.resp_partial = <<>> /\ h.step = "Head" ->
                 IF h.head = <<>> \/ h.head[1] \notin StatusLines THEN disable(tap)
                 ELSE IF status = 100 THEN t
                 ELSE IF status = 101 THEN disable(complete_response(t, Message(h.head)))
                 ELSE IF framing = NoBody THEN complete_response(t, Message(h.head))
                 ELSE [t EXCEPT !.resp_partial = <<[message |-> Message(h.head), framing |-> framing]>>]
          [] tap.resp_partial # <<>> /\ c.step = "NeedMore" ->
                 [tap EXCEPT !.resp_buf = c.buf,
                             !.resp_partial = <<[message |-> m, framing |-> c.framing]>>]
          [] tap.resp_partial # <<>> /\ c.step = "Error" -> disable(tap)
          [] tap.resp_partial # <<>> /\ c.step = "Done" ->
                 complete_response([tap EXCEPT !.resp_buf = c.buf, !.resp_partial = <<>>], m)

drain_responses(tap) ==
    LET turns[n \in 0..(Len(tap.resp_buf) + 1)] ==
            IF n = 0 THEN tap ELSE response_turn(turns[n - 1])
    IN  turns[Len(tap.resp_buf) + 1]

tap_request(tap, data) ==
    IF tap.disabled THEN tap ELSE drain_requests([tap EXCEPT !.req_buf = @ \o data])
tap_response(tap, data) ==
    IF tap.disabled THEN tap ELSE drain_responses([tap EXCEPT !.resp_buf = @ \o data])

\* The connection has ended: only a body that runs until then is complete.
finish(tap) ==
    IF tap.disabled THEN tap
    ELSE LET p == tap.resp_partial
             done == p # <<>> /\ p[1].framing.kind = "UntilClose"
             t == [tap EXCEPT !.resp_partial = <<>>]
         IN  [IF done THEN complete_response(t, p[1].message) ELSE t EXCEPT !.disabled = TRUE]
=============================================================================
