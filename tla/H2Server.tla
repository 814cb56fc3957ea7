------------------------------ MODULE H2Server ------------------------------
(***************************************************************************)
(* The HTTP/2 server half of rust/tls/src/h2.rs that DoH clients talk to:  *)
(* H2Server's on_input, take_requests and respond, as functions from the   *)
(* server and the client's plaintext to the next server.                   *)
(*                                                                         *)
(* A frame is two tokens, so that it can come in two parts: its header,    *)
(* FrameHeader(...), and, when it has one, its payload, a sequence.  A     *)
(* header block is a sequence of fields, the first of which is the line of *)
(* the request; what HPACK does to it is left out, except that a block may *)
(* not decode.                                                             *)
(***************************************************************************)
EXTENDS Integers, Sequences, SequencesExt, FiniteSetsExt, Functions

CONSTANTS
    MAX_STREAM_BYTES,   \* on a frame, a header block and a body
    MAX_FRAME           \* on the body of a frame sent

ASSUME H2Assumption == MAX_STREAM_BYTES \in Nat /\ MAX_FRAME \in Nat \ {0}

PREFACE == <<"PRI", "SM">>

\* sound: padding and priority fit into the payload.
FrameHeader(ty, flags, stream_id, len, sound) ==
    [ty |-> ty, flags |-> flags, stream_id |-> stream_id, len |-> len, sound |-> sound]
Frame(ty, flags, stream_id, payload) ==
    <<FrameHeader(ty, flags, stream_id, Len(payload), TRUE)>>
        \o (IF payload = <<>> THEN <<>> ELSE <<payload>>)

NewStream ==
    [fields |-> <<>>, body |-> <<>>, header_block |-> <<>>, headers_done |-> FALSE,
     end_stream |-> FALSE, dispatched |-> FALSE]
H2ServerNew ==
    [inbuf |-> <<>>, preface_seen |-> FALSE, settings_sent |-> FALSE,
     streams |-> <<>>, continuation |-> 0, out |-> <<>>, ready |-> <<>>, failed |-> FALSE]

failing(h2) == [h2 EXCEPT !.failed = TRUE]
write_frame(h2, ty, flags, stream_id, payload) ==
    [h2 EXCEPT !.out = @ \o Frame(ty, flags, stream_id, payload)]
Stream(h2, stream_id) == IF stream_id \in DOMAIN h2.streams THEN h2.streams[stream_id] ELSE NewStream
with_stream(h2, stream_id, stream) == [h2 EXCEPT !.streams = (stream_id :> stream) @@ @]
without_stream(h2, stream_id) ==
    [h2 EXCEPT !.streams = Restrict(@, DOMAIN @ \ {stream_id})]

\* A stream with its headers and its end is surfaced once.
maybe_dispatch(h2, stream_id) ==
    LET s == Stream(h2, stream_id)
    IN  IF ~(s.headers_done /\ s.end_stream /\ ~s.dispatched) THEN h2
        ELSE [with_stream(h2, stream_id, [s EXCEPT !.dispatched = TRUE, !.body = <<>>]) EXCEPT
                 !.ready = Append(@, [stream_id |-> stream_id, head |-> s.fields, body |-> s.body])]

\* The block is decoded; what it says replaces what was said: a block without a
\* request line, as of trailers, replaces nothing.
finish_headers(h2, stream_id) ==
    LET s == Stream(h2, stream_id)
        b == s.header_block
        t == [s EXCEPT !.header_block = <<>>, !.headers_done = TRUE,
                       !.fields = IF b = <<>> \/ b[1] = "trailer" THEN @ ELSE b]
    IN  IF "bad" \in ToSet(b) THEN failing(h2)
        ELSE maybe_dispatch(with_stream(h2, stream_id, t), stream_id)

on_settings(h2, flags) ==
    IF "ACK" \in flags THEN h2 ELSE write_frame(h2, "SETTINGS", {"ACK"}, 0, <<>>)
on_ping(h2, flags, payload) ==
    IF "ACK" \in flags \/ payload = <<>> THEN h2
    ELSE write_frame(h2, "PING", {"ACK"}, 0, payload)

on_headers(h2, f, fragment) ==
    LET s == Stream(h2, f.stream_id)
        t == with_stream(h2, f.stream_id, [s EXCEPT !.header_block = @ \o fragment,
                                                    !.end_stream = "END_STREAM" \in f.flags])
    IN  IF f.stream_id = 0 \/ ~f.sound \/ Len(s.header_block \o fragment) > MAX_STREAM_BYTES
        THEN failing(h2)
        ELSE IF "END_HEADERS" \in f.flags THEN finish_headers(t, f.stream_id)
        ELSE [t EXCEPT !.continuation = f.stream_id]

on_continuation(h2, f, fragment) ==
    LET s == Stream(h2, f.stream_id)
        t == with_stream(h2, f.stream_id, [s EXCEPT !.header_block = @ \o fragment])
    IN  IF f.stream_id \notin DOMAIN h2.streams
               \/ Len(s.header_block \o fragment) > MAX_STREAM_BYTES
        THEN failing(h2)
        ELSE IF "END_HEADERS" \in f.flags
        THEN finish_headers([t EXCEPT !.continuation = 0], f.stream_id) ELSE t

on_data(h2, f, payload) ==
    LET s == Stream(h2, f.stream_id)
    IN  CASE ~f.sound -> failing(h2)
          [] f.sound /\ f.stream_id \notin DOMAIN h2.streams -> h2
          [] f.sound /\ f.stream_id \in DOMAIN h2.streams ->
                 IF Len(s.body \o payload) > MAX_STREAM_BYTES THEN failing(h2)
                 ELSE maybe_dispatch(
                          with_stream(h2, f.stream_id,
                              [s EXCEPT !.body = @ \o payload,
                                        !.end_stream = @ \/ "END_STREAM" \in f.flags]),
                          f.stream_id)

\* What one frame does; between a block's frames only its CONTINUATION may come.
on_frame(h2, f, payload) ==
    IF h2.continuation # 0 /\ ~(f.ty = "CONTINUATION" /\ f.stream_id = h2.continuation)
    THEN failing(h2)
    ELSE CASE f.ty = "SETTINGS" -> on_settings(h2, f.flags)
           [] f.ty = "PING" -> on_ping(h2, f.flags, payload)
           [] f.ty = "HEADERS" -> on_headers(h2, f, payload)
           [] f.ty = "CONTINUATION" -> on_continuation(h2, f, payload)
           [] f.ty = "DATA" -> on_data(h2, f, payload)
           [] f.ty = "RST_STREAM" -> without_stream(h2, f.stream_id)
           [] f.ty = "GOAWAY" -> failing(h2)
           [] OTHER -> h2

\* One turn of parse_frames; when there is nothing to be done it changes nothing.
parse_frame(h2) ==
    LET f == h2.inbuf[1]
        n == IF f.len = 0 THEN 1 ELSE 2
        t == [h2 EXCEPT !.inbuf = SubSeq(@, n + 1, Len(@))]
    IN  IF h2.failed \/ h2.inbuf = <<>> THEN h2
        ELSE IF f.len > MAX_STREAM_BYTES THEN failing(h2)
        ELSE IF Len(h2.inbuf) < n THEN h2
        ELSE on_frame(t, f, IF n = 2 THEN h2.inbuf[2] ELSE <<>>)
parse_frames(h2) ==
    LET turns[n \in 0..Len(h2.inbuf)] == IF n = 0 THEN h2 ELSE parse_frame(turns[n - 1])
    IN  turns[Len(h2.inbuf)]

\* Our SETTINGS, then the client's preface, then its frames.
on_input(h2, data) ==
    LET greeted ==
            IF h2.settings_sent THEN h2
            ELSE [write_frame(write_frame(h2, "SETTINGS", {}, 0, <<>>), "WINDOW_UPDATE", {}, 0, <<"all">>)
                    EXCEPT !.settings_sent = TRUE]
        fed == [greeted EXCEPT !.inbuf = @ \o data]
        n == Len(PREFACE)
    IN  IF h2.failed THEN h2
        ELSE IF h2.preface_seen THEN parse_frames(fed)
        ELSE IF Len(fed.inbuf) < n THEN fed
        ELSE IF SubSeq(fed.inbuf, 1, n) # PREFACE THEN failing(fed)
        ELSE parse_frames([fed EXCEPT !.inbuf = SubSeq(@, n + 1, Len(@)), !.preface_seen = TRUE])

\* The body in frames of MAX_FRAME at most.
data_frames(h2, stream_id, body) ==
    LET last == (Len(body) + MAX_FRAME - 1) \div MAX_FRAME
        frame(i) == Frame("DATA", IF i = last THEN {"END_STREAM"} ELSE {}, stream_id,
                          SubSeq(body, (i - 1) * MAX_FRAME + 1, Min({i * MAX_FRAME, Len(body)})))
    IN  [h2 EXCEPT !.out = @ \o FlattenSeq([i \in 1..last |-> frame(i)])]

\* A whole response, after which the stream is forgotten.
respond(h2, stream_id, status, body) ==
    LET flags == IF body = <<>> THEN {"END_HEADERS", "END_STREAM"} ELSE {"END_HEADERS"}
        t == write_frame(h2, "HEADERS", flags, stream_id, <<status>>)
    IN  without_stream(data_frames(t, stream_id, body), stream_id)
=============================================================================
