------------------------------ MODULE TcpRelay ------------------------------
(***************************************************************************)
(* The data plane of one TCP flow of rust/core/src/forward.rs, between the *)
(* smoltcp socket of the app's side and the upstream's kernel socket, once *)
(* the flow is classified and past any proxy handshake (TcpFlows models    *)
(* those): service(), on_ready(), and the flush and pump loops.            *)
(*                                                                         *)
(* Data is a sequence of numbered segments, so that loss, duplication and  *)
(* reordering show.  mio is edge-triggered: an event is reported when the  *)
(* upstream socket changes, and says what is ready then.                   *)
(***************************************************************************)
EXTENDS Naturals, Sequences, SequencesExt

CONSTANTS
    MaxUp,      \* bound on the segments the app sends
    MaxDown,    \* bound on the segments the server sends
    TxCap,      \* TCP_TX_BUF, in segments
    OutCap,     \* the upstream socket's send buffer
    AppBufCap   \* MITM_APP_BUF_CAP

ASSUME RelayAssumption ==
    /\ MaxUp \in Nat /\ MaxDown \in Nat /\ AppBufCap \in Nat
    /\ TxCap \in Nat \ {0} /\ OutCap \in Nat \ {0}

VARIABLES
    spliced,        \* mitm.is_some(): the splice, past both its handshakes
    sock,           \* the smoltcp socket's state
    sent, app_fin,  \* what the app has sent, and whether it closed its side
    inq,            \* the app's FIN waits for the next poll
    rx, tx,         \* the smoltcp socket's buffers
    got, eof,       \* what the app has received, and whether it saw our FIN
    up,             \* the TcpUpstream exists
    connecting, to_upstream, write_closed, to_app,
    out, wire,      \* the upstream socket's send buffer, what the server got
    served, kernel, \* what the server sent, what is unread in the socket
    rdhup, reset,   \* the server closed its side, or reset the connection
    event           \* an event of the upstream socket is due

appside == <<sock, inq, rx, tx>>
appvars == <<sent, app_fin, got, eof>>
upstream == <<up, connecting, to_upstream, write_closed, to_app>>
server == <<wire, served, rdhup, reset>>
vars == <<spliced, appside, appvars, upstream, server, out, kernel, event>>

Socks == {"SynReceived", "Established", "CloseWait", "FinWait", "LastAck", "Closing",
          "TimeWait", "Closed"}

Init ==
    /\ spliced \in BOOLEAN
    /\ sock = "SynReceived"
    /\ sent = <<>> /\ app_fin = FALSE /\ inq = FALSE
    /\ rx = <<>> /\ tx = <<>> /\ got = <<>> /\ eof = FALSE
    /\ up = TRUE /\ connecting = TRUE
    /\ to_upstream = <<>> /\ write_closed = FALSE /\ to_app = <<>>
    /\ out = <<>> /\ wire = <<>> /\ served = <<>> /\ kernel = <<>>
    /\ rdhup = FALSE /\ reset = FALSE
    /\ event = FALSE

-----------------------------------------------------------------------------
(* What the handlers do to a flow.  A handler works on a record of the state *)
(* it may change; Now is that record, and Set writes it back.                *)

Now == [sock |-> sock, rx |-> rx, tx |-> tx, kernel |-> kernel, out |-> out,
        to_upstream |-> to_upstream, to_app |-> to_app, connecting |-> connecting,
        write_closed |-> write_closed]

Set(r) ==
    /\ sock' = r.sock /\ rx' = r.rx /\ tx' = r.tx /\ kernel' = r.kernel /\ out' = r.out
    /\ to_upstream' = r.to_upstream /\ to_app' = r.to_app
    /\ connecting' = r.connecting /\ write_closed' = r.write_closed

Least(a, b) == IF a < b THEN a ELSE b
First(s, n) == SubSeq(s, 1, n)
Rest(s, n) == SubSeq(s, n + 1, Len(s))

tcp_abort(r) == [r EXCEPT !.sock = "Closed", !.tx = <<>>, !.rx = <<>>]

tcp_close_app(r) ==
    [r EXCEPT !.sock = CASE r.sock \in {"SynReceived", "Established"} -> "FinWait"
                         [] r.sock = "CloseWait" -> "LastAck"
                         [] OTHER -> r.sock]

tcp_send_space(r) == TxCap - Len(r.tx)

\* send_slice refuses all unless the socket may send, and the caller ignores it.
tcp_send_to_app(r, data) ==
    IF r.sock \in {"Established", "CloseWait"} THEN [r EXCEPT !.tx = r.tx \o data] ELSE r

\* Mutant: what a partial write left is forgotten.
flush_to_upstream_clear(r) ==
    LET n == Least(Len(r.to_upstream), OutCap - Len(r.out)) IN
    IF r.connecting \/ r.to_upstream = <<>> THEN r
    ELSE IF reset THEN tcp_abort(r)
    ELSE [r EXCEPT !.out = r.out \o First(r.to_upstream, n), !.to_upstream = <<>>]

\* Writes until the socket's buffer is full.
flush_to_upstream(r) ==
    LET n == Least(Len(r.to_upstream), OutCap - Len(r.out)) IN
    IF r.connecting \/ r.to_upstream = <<>> THEN r
    ELSE IF reset THEN tcp_abort(r)
    ELSE [r EXCEPT !.out = r.out \o First(r.to_upstream, n),
                   !.to_upstream = Rest(r.to_upstream, n)]

flush_to_app(r) ==
    LET n == Least(Len(r.to_app), tcp_send_space(r)) IN
    [tcp_send_to_app(r, First(r.to_app, n)) EXCEPT !.to_app = Rest(r.to_app, n)]

\* Mutant: reads what there is, whatever the space.
pump_upstream_to_app_greedy(r) ==
    LET n == Least(Len(r.kernel), tcp_send_space(r))
    IN  [tcp_send_to_app(r, First(r.kernel, n)) EXCEPT !.kernel = <<>>]

\* Reads while the app-bound buffer has space: EOF closes toward the app, an
\* error, found once all that came before it is read, aborts.
pump_upstream_to_app(r) ==
    LET n == Least(Len(r.kernel), tcp_send_space(r))
        p == [tcp_send_to_app(r, First(r.kernel, n)) EXCEPT !.kernel = Rest(r.kernel, n)]
    IN  IF n < tcp_send_space(r) /\ reset THEN tcp_abort(p)
        ELSE IF n < tcp_send_space(r) /\ rdhup THEN tcp_close_app(p)
        ELSE p

\* read_upstream_into_mitm, drive_mitm and flush_to_app: the splice is fed all
\* that is readable, or nothing while to_app is over its cap.
read_into_mitm(r) ==
    IF Len(r.to_app) > AppBufCap THEN flush_to_app(r)
    ELSE flush_to_app([r EXCEPT !.to_app = r.to_app \o r.kernel, !.kernel = <<>>])

pump(r) == IF spliced THEN read_into_mitm(r) ELSE pump_upstream_to_app(r)

tcp_app_finished(r) ==
    r.sock \in {"CloseWait", "LastAck", "Closing", "TimeWait", "Closed"} /\ r.rx = <<>>

\* Mutant: the half-close waits until our side is closing too.
half_close_both(r) ==
    IF tcp_app_finished(r) /\ r.to_upstream = <<>> /\ ~r.write_closed /\ ~r.connecting
        /\ r.sock # "CloseWait"
    THEN [r EXCEPT !.write_closed = TRUE] ELSE r

half_close(r) ==
    IF tcp_app_finished(r) /\ r.to_upstream = <<>> /\ ~r.write_closed /\ ~r.connecting
    THEN [r EXCEPT !.write_closed = TRUE] ELSE r

-----------------------------------------------------------------------------
(* service() and on_ready() *)

\* The poll hands the socket the app's FIN; a closing socket is done once its
\* FIN is acknowledged, which needs the app to have received all of tx.
Delivered(s) ==
    CASE inq /\ s = "Established" -> "CloseWait"
      [] inq /\ s = "FinWait" -> (IF eof THEN "TimeWait" ELSE "Closing")
      [] s = "Closing" /\ eof -> "TimeWait"
      [] s = "TimeWait" -> "Closed"
      [] s = "LastAck" /\ eof -> "Closed"
      [] OTHER -> s

Taken(r) == [r EXCEPT !.to_upstream = r.to_upstream \o r.rx, !.rx = <<>>]

\* Mutant: only writable events flush the queue.
relay_unflushed(r) ==
    IF r.connecting THEN {r} ELSE {half_close(b) : b \in {flush_to_app(Taken(r))}}

\* The loop body of service() for the flow.
relay(r) ==
    IF r.connecting THEN {r}
    ELSE {half_close(c) : c \in {flush_to_app(b) : b \in {flush_to_upstream(Taken(r))}}}

Service ==
    /\ up
    /\ \E s \in {Delivered(sock)} :
         /\ inq' = (inq /\ s = "SynReceived")
         /\ up' = (s # "Closed")
         /\ \E r \in {[Now EXCEPT !.sock = s]} :
              \E n \in IF s = "Closed" THEN {r} ELSE relay(r) : Set(n)
    /\ UNCHANGED <<spliced, appvars, server, event>>

\* on_ready, for an event that says: writable, readable if there is anything to
\* read, read-closed once the server has closed its side or reset it.
ready(r) ==
    IF r.connecting /\ reset THEN {tcp_abort([r EXCEPT !.connecting = FALSE])}
    ELSE {IF rdhup \/ reset THEN tcp_close_app(pump(p)) ELSE p :
            p \in {IF w.kernel # <<>> \/ rdhup \/ reset THEN pump(w) ELSE w :
                     w \in {flush_to_upstream([r EXCEPT !.connecting = FALSE])}}}

OnReady ==
    /\ up /\ event
    /\ event' = FALSE
    /\ \E r \in ready(Now) : Set(r)
    /\ UNCHANGED <<spliced, inq, appvars, up, server>>

-----------------------------------------------------------------------------
(* The app, its kernel, and the server *)

\* The app's last ACK of its handshake, which data and FIN carry too.
AppAck ==
    /\ sock = "SynReceived"
    /\ sock' = "Established"
    /\ UNCHANGED <<spliced, inq, rx, tx, appvars, upstream, server, out, kernel, event>>

AppSend ==
    /\ Len(sent) < MaxUp /\ ~app_fin
    /\ sock \in {"Established", "FinWait"}
    /\ sent' = Append(sent, Len(sent) + 1)
    /\ rx' = Append(rx, Len(sent) + 1)
    /\ UNCHANGED <<spliced, sock, inq, tx, app_fin, got, eof, upstream, server, out, kernel, event>>

AppFin ==
    /\ ~app_fin /\ sock \in {"Established", "FinWait"}
    /\ app_fin' = TRUE /\ inq' = TRUE
    /\ UNCHANGED <<spliced, sock, rx, tx, sent, got, eof, upstream, server, out, kernel, event>>

\* The app receives and acknowledges a segment, or our FIN after the last.
AppReceive ==
    /\ IF tx # <<>>
       THEN got' = Append(got, Head(tx)) /\ tx' = Tail(tx) /\ UNCHANGED eof
       ELSE /\ sock \in {"FinWait", "LastAck", "Closing"} /\ ~eof
            /\ eof' = TRUE /\ UNCHANGED <<got, tx>>
    /\ UNCHANGED <<spliced, sock, inq, rx, sent, app_fin, upstream, server, out, kernel, event>>

\* The dial completes; every later change of the socket is an edge too.
Connected ==
    /\ connecting /\ up /\ ~event
    /\ event' = TRUE
    /\ UNCHANGED <<spliced, appside, appvars, upstream, server, out, kernel>>

Open == up /\ ~connecting /\ ~rdhup /\ ~reset

ServerSend ==
    /\ Open /\ Len(served) < MaxDown
    /\ served' = Append(served, Len(served) + 1)
    /\ kernel' = Append(kernel, Len(served) + 1)
    /\ event' = TRUE
    /\ UNCHANGED <<spliced, appside, appvars, upstream, wire, rdhup, reset, out>>

ServerClose ==
    /\ Open
    /\ rdhup' = TRUE /\ event' = TRUE
    /\ UNCHANGED <<spliced, appside, appvars, upstream, wire, served, reset, out, kernel>>

ServerReset ==
    /\ Open
    /\ reset' = TRUE /\ event' = TRUE
    /\ UNCHANGED <<spliced, appside, appvars, upstream, wire, served, rdhup, out, kernel>>

\* The server takes a segment; a full send buffer that drains is an edge.
ServerReceive ==
    /\ out # <<>> /\ ~reset
    /\ wire' = Append(wire, Head(out)) /\ out' = Tail(out)
    /\ event' = (event \/ Len(out) = OutCap)
    /\ UNCHANGED <<spliced, appside, appvars, upstream, served, rdhup, reset, kernel>>

Done == ~up /\ UNCHANGED vars

Next ==
    \/ Service \/ OnReady
    \/ AppAck \/ AppSend \/ AppFin \/ AppReceive
    \/ Connected \/ ServerSend \/ ServerClose \/ ServerReset \/ ServerReceive
    \/ Done

\* The loop runs, and the app and the network deliver what is in flight.
Fairness == WF_vars(Service) /\ WF_vars(OnReady) /\ WF_vars(AppReceive)
            /\ WF_vars(ServerReceive) /\ WF_vars(Connected) /\ WF_vars(AppAck)

Spec == Init /\ [][Next]_vars /\ Fairness

-----------------------------------------------------------------------------
Segs(n) == Seq(1..n)

TypeOK ==
    /\ spliced \in BOOLEAN /\ sock \in Socks
    /\ sent \in Segs(MaxUp) /\ rx \in Segs(MaxUp)
    /\ to_upstream \in Segs(MaxUp) /\ wire \in Segs(MaxUp)
    /\ out \in Segs(MaxUp) /\ Len(out) <= OutCap
    /\ served \in Segs(MaxDown) /\ kernel \in Segs(MaxDown)
    /\ to_app \in Segs(MaxDown) /\ got \in Segs(MaxDown)
    /\ tx \in Segs(MaxDown) /\ Len(tx) <= TxCap
    /\ {app_fin, inq, eof, up, connecting, write_closed, rdhup, reset, event} \subseteq BOOLEAN

\* Toward the server nothing is lost, repeated or reordered while the app's
\* side is not reset: what it sent is on the wire, in the socket, in
\* to_upstream or still in the smoltcp socket, in this order.
UpstreamConserved ==
    sock # "Closed" => wire \o out \o to_upstream \o rx = sent

\* The server sees our FIN only after all the app sent before its own.
UpstreamFinLast ==
    write_closed /\ sock # "Closed" => app_fin /\ wire \o out = sent

\* The way to the server, as a whole: every buffer holds what it may, no byte is lost or
\* repeated across partial writes and full sockets, and the FIN comes last.
UpstreamExact == TypeOK /\ UpstreamConserved /\ UpstreamFinLast

\* Toward the app nothing is repeated, reordered or skipped: what arrives is a
\* run of what the server sent, from its first segment or, where the server spoke
\* before the app's handshake was over (NothingDropped), from a later one.
DownstreamContiguous ==
    \E k \in 0..Len(served) : IsPrefix(got \o tx, SubSeq(served, k + 1, Len(served)))

\* The app's data gets to the server through every full buffer on the way, as long as
\* the server neither resets the connection nor closes its own side.  After such a
\* close the flow may end with data still queued, which is dropped (AppDataSent).
AppDataArrives ==
    \A i \in 1..MaxUp : Len(sent) >= i ~> Len(wire) >= i \/ reset \/ rdhup

\* The app's FIN gets to the server.
HalfCloseArrives == app_fin ~> write_closed \/ sock = "Closed" \/ reset

\* forward.rs: "Upstream EOF -> half-close toward the app" and "Propagate the app's
\* half-close once its data is drained": a flow whose two sides close in order has sent
\* all the app's data on.
AppDataSent == ~up /\ ~reset => wire \o out = sent

\* forward.rs: "app-bound buffer full; wait for it to drain": what the server
\* sent is read once the app has made room for it.
ServerDataArrives ==
    \A i \in 1..MaxDown : Len(served) >= i ~> Len(got) >= i \/ reset
                                              \/ sock \notin {"Established", "CloseWait"}

\* stack.rs: "Close our side toward the app (send FIN) -- upstream reached EOF":
\* an app that got data and sees our FIN has what the server sent last.
EofMeansAll == eof => reset \/ IsSuffix(got, served)

\* stack.rs: "Returns how many were accepted (the socket's send buffer applies
\* backpressure)": what is read from the server is on its way to the app.
NothingDropped == sock \in {"SynReceived", "Established", "CloseWait"} =>
                    got \o tx \o to_app \o kernel = served \/ reset
=============================================================================
