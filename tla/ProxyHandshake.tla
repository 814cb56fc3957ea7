--------------------------- MODULE ProxyHandshake ---------------------------
(***************************************************************************)
(* The handshake codecs of rust/core/src/proxy.rs: the HTTP CONNECT and    *)
(* the SOCKS5 machines behind Handshake::step, as functions from the state *)
(* of a handshake and newly received bytes to its next state and a step.   *)
(*                                                                         *)
(* A SOCKS5 byte is its value, and addresses have their real length; an    *)
(* HTTP byte is a token: CR, LF, SP, a word of the status line or of a     *)
(* header, or a status code.  Names and passwords are left out: whether a  *)
(* user is configured is what the machine tells apart.                     *)
(***************************************************************************)
EXTENDS Integers, Sequences, SequencesExt, FiniteSetsExt

CONSTANT HANDSHAKE_BUF_CAP  \* on the bytes buffered

ASSUME HandshakeAssumption == HANDSHAKE_BUF_CAP \in Nat

\* A handshake toward an HTTP or SOCKS5 proxy, with or without a user configured.
Handshake(kind, user) ==
    [kind |-> kind, user |-> user, phase |-> "Start", inbuf |-> <<>>, bound |-> <<>>]

\* The steps, each with the state it leaves.
Write(hs, phase, message) ==
    [hs |-> [hs EXCEPT !.phase = phase], step |-> "Write", bytes |-> message]
Read(hs) == [hs |-> hs, step |-> "Read", bytes |-> <<>>]
Done(hs, leftover) == [hs |-> hs, step |-> "Done", bytes |-> leftover]
Err(hs, error) == [hs |-> hs, step |-> "Err", bytes |-> <<error>>]

-----------------------------------------------------------------------------
(* HTTP CONNECT *)

\* One past the first CR LF CR LF, or 0.
find_headers_end(buf) ==
    LET ends == {i \in 1..(Len(buf) - 3) : SubSeq(buf, i, i + 3) = <<"CR", "LF", "CR", "LF">>}
    IN  IF ends = {} THEN 0 ELSE Min(ends) + 3

\* The second word of the line before the first CR is the status.
Codes == {"200", "204", "403", "407"}
status(buf) ==
    LET line == SubSeq(buf, 1, SelectInSeq(buf, LAMBDA b : b = "CR") - 1)
        sp == SelectInSeq(line, LAMBDA b : b = "SP")
        code == IF sp = 0 \/ sp = Len(line) THEN "none" ELSE line[sp + 1]
    IN  IF code \in Codes THEN code ELSE "none"

\* Mutant: what came behind the reply is dropped.
parse_http_reply_short(hs) ==
    LET end == find_headers_end(hs.inbuf)
        code == status(hs.inbuf)
    IN  IF end = 0 THEN Read(hs)
        ELSE IF code = "none" THEN Err(hs, "HttpMalformed")
        ELSE IF code \in {"200", "204"} THEN Done(hs, <<>>)
        ELSE Err(hs, "HttpStatus")

parse_http_reply(hs) ==
    LET end == find_headers_end(hs.inbuf)
        code == status(hs.inbuf)
    IN  IF end = 0 THEN Read(hs)
        ELSE IF code = "none" THEN Err(hs, "HttpMalformed")
        ELSE IF code \in {"200", "204"} THEN Done(hs, SubSeq(hs.inbuf, end + 1, Len(hs.inbuf)))
        ELSE Err(hs, "HttpStatus")

http_step(hs) ==
    IF hs.phase = "Start" THEN Write(hs, "Requested", "CONNECT") ELSE parse_http_reply(hs)

-----------------------------------------------------------------------------
(* SOCKS5 *)

\* The messages sent: what is offered, who asks, what is asked for.
socks5_greeting(user) == IF user THEN "greeting, password offered" ELSE "greeting"
socks5_userpass == "password"
socks5_request == "request"

\* The length of the reply at the front, 0 when more is needed, -1 when its address
\* type is none.
socks5_reply_len(buf) ==
    LET addr_len == CASE buf[4] = 1 -> 4
                      [] buf[4] = 4 -> 16
                      [] buf[4] = 3 -> 1 + buf[5]
        total == 4 + addr_len + 2
    IN  IF Len(buf) < 4 \/ (buf[4] = 3 /\ Len(buf) < 5) THEN 0
        ELSE IF buf[4] \notin {1, 3, 4} THEN -1
        ELSE IF Len(buf) < total THEN 0 ELSE total

\* Address and port of a whole reply; a domain is none.
parse_socks5_bound(reply) ==
    CASE reply[4] = 1 -> SubSeq(reply, 5, 10)
      [] reply[4] = 4 -> SubSeq(reply, 5, 22)
      [] OTHER -> <<>>

Dropped2(hs) == [hs EXCEPT !.inbuf = SubSeq(@, 3, Len(@))]

\* Mutant: the two bytes answered are left in the buffer.
Greeted_kept(hs) ==
    IF Len(hs.inbuf) < 2 THEN Read(hs)
    ELSE IF hs.inbuf[1] # 5 THEN Err(hs, "Socks5Version")
    ELSE IF hs.inbuf[2] = 0 THEN Write(hs, "Requested", socks5_request)
    ELSE IF hs.inbuf[2] = 2 /\ hs.user THEN Write(hs, "Authed", socks5_userpass)
    ELSE Err(hs, "Socks5NoAcceptableAuth")

Greeted(hs) ==
    IF Len(hs.inbuf) < 2 THEN Read(hs)
    ELSE IF hs.inbuf[1] # 5 THEN Err(hs, "Socks5Version")
    ELSE IF hs.inbuf[2] = 0 THEN Write(Dropped2(hs), "Requested", socks5_request)
    ELSE IF hs.inbuf[2] = 2 /\ hs.user THEN Write(Dropped2(hs), "Authed", socks5_userpass)
    ELSE Err(Dropped2(hs), "Socks5NoAcceptableAuth")

Authed(hs) ==
    IF Len(hs.inbuf) < 2 THEN Read(hs)
    ELSE IF hs.inbuf[2] # 0 THEN Err(Dropped2(hs), "Socks5AuthFailed")
    ELSE Write(Dropped2(hs), "Requested", socks5_request)

Requested(hs) ==
    LET n == socks5_reply_len(hs.inbuf)
    IN  IF n = 0 THEN Read(hs)
        ELSE IF n = -1 THEN Err(hs, "Socks5Malformed")
        ELSE IF hs.inbuf[1] # 5 THEN Err(hs, "Socks5Version")
        ELSE IF hs.inbuf[2] # 0 THEN Err(hs, "Socks5Reply")
        ELSE Done([hs EXCEPT !.bound = parse_socks5_bound(SubSeq(hs.inbuf, 1, n)),
                             !.inbuf = SubSeq(@, 1, n)],
                  SubSeq(hs.inbuf, n + 1, Len(hs.inbuf)))

socks5_step(hs) ==
    CASE hs.phase = "Start" -> Write(hs, "Greeted", socks5_greeting(hs.user))
      [] hs.phase = "Greeted" -> Greeted(hs)
      [] hs.phase = "Authed" -> Authed(hs)
      [] hs.phase = "Requested" -> Requested(hs)

-----------------------------------------------------------------------------
\* Handshake::step
step(hs, input) ==
    LET fed == [hs EXCEPT !.inbuf = @ \o input]
    IN  IF Len(fed.inbuf) > HANDSHAKE_BUF_CAP THEN Err(fed, "HeaderTooLarge")
        ELSE IF hs.kind = "http" THEN http_step(fed) ELSE socks5_step(fed)
=============================================================================
