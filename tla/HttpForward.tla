---------------------------- MODULE HttpForward ----------------------------
(***************************************************************************)
(* The absolute-URI rewriter of rust/core/src/http_forward.rs, for plain   *)
(* HTTP through a proxy that refuses CONNECT to port 80: HttpForward::push *)
(* as a function from the rewriter's state and a chunk of the app's bytes  *)
(* to its next state and the bytes for the proxy.                          *)
(*                                                                         *)
(* A byte is a token: a request line, in origin form, absolute form or     *)
(* none; a header; CRLF, after each line and alone at the end of a head;   *)
(* any of them in a body.                                                  *)
(***************************************************************************)
EXTENDS Integers, Sequences, SequencesExt, FiniteSetsExt

CONSTANT MAX_HEAD   \* on the tokens of a head

ASSUME ForwardAssumption == MAX_HEAD \in Nat

\* HttpForward::new: in Head with remaining 0, in Body while it is more.
HttpForwardNew == [remaining |-> 0, head |-> <<>>]

Forms == {"origin-form", "absolute-form"}

\* The Content-Length values; what does not parse counts as 0.
length(header) == CASE header = "length 1" -> 1
                    [] header = "length 2" -> 2
                    [] OTHER -> 0
Lengths == {"length 0", "length 1", "length 2", "length junk"}

\* What the last Content-Length of the headers says.
content_length(headers) ==
    LET given == {i \in DOMAIN headers : headers[i] \in Lengths}
    IN  IF given = {} THEN 0 ELSE length(headers[Max(given)])

\* One past the first empty line, or 0.
find_head_end(buf) ==
    LET ends == {i \in 1..(Len(buf) - 1) : SubSeq(buf, i, i + 1) = <<"CRLF", "CRLF">>}
    IN  IF ends = {} THEN 0 ELSE Min(ends) + 1

first_crlf(head) == SelectInSeq(head, LAMBDA b : b = "CRLF")

\* The head goes out with its line in absolute form and its headers as they are, and
\* the length of the body it announces is found; or it is refused.
rewrite_head(head) ==
    LET line == SubSeq(head, 1, first_crlf(head) - 1)
        rest == SubSeq(head, Len(line) + 1, Len(head))
        authority == IF "host" \in ToSet(rest) THEN "absolute, host" ELSE "absolute, dialed"
        out == IF line = <<"origin-form">> THEN <<authority>> \o rest ELSE head
        parses == Len(line) = 1 /\ ToSet(line) \subseteq Forms
    IN  CASE ~parses ->
                 [err |-> "BadRequestLine", body_len |-> 0, out |-> <<>>]
          [] parses /\ "chunked" \in ToSet(rest) ->
                 [err |-> "ChunkedBodyUnsupported", body_len |-> 0, out |-> <<>>]
          [] OTHER ->
                 [err |-> "none", out |-> out, body_len |-> content_length(rest)]

\* Mutant: the body is taken for the next head.
next_state_head(st, body_len) == [st EXCEPT !.head = <<>>, !.remaining = 0]

\* After a head: the body it announces, or the next head.
next_state(st, body_len) == [st EXCEPT !.head = <<>>, !.remaining = body_len]

\* One turn of push's loop: what it leaves of the input, and what it gives.
turn(st, input) ==
    LET buf == st.head \o input
        end == find_head_end(buf)
        r == rewrite_head(SubSeq(buf, 1, end))
        consumed == Min({Max({end - Len(st.head), 0}), Len(input)})
        take == Min({st.remaining, Len(input)})
    IN  CASE st.remaining > 0 ->
                 [st |-> [st EXCEPT !.remaining = @ - take], err |-> "none",
                  input |-> SubSeq(input, take + 1, Len(input)), out |-> SubSeq(input, 1, take)]
          [] st.remaining = 0 /\ end > 0 ->
                 [st |-> next_state(st, r.body_len), err |-> r.err,
                  input |-> SubSeq(input, consumed + 1, Len(input)), out |-> r.out]
          [] st.remaining = 0 /\ end = 0 ->
                 [st |-> [st EXCEPT !.head = buf], input |-> <<>>, out |-> <<>>,
                  err |-> IF Len(buf) > MAX_HEAD THEN "HeadTooLarge" ELSE "none"]

\* HttpForward::push: its loop, each turn of which takes a token at least.  What is made
\* before an error is not given.
push(st, input) ==
    LET pushed[n \in 0..Len(input)] ==
            IF n = 0 THEN [st |-> st, err |-> "none", input |-> input, out |-> <<>>]
            ELSE LET p == pushed[n - 1]
                     t == turn(p.st, p.input)
                 IN  IF p.err # "none" \/ p.input = <<>> THEN p
                     ELSE [t EXCEPT !.out = IF t.err = "none" THEN p.out \o @ ELSE <<>>]
    IN  pushed[Len(input)]
=============================================================================
