--------------------------- MODULE TcpFlowsProofs ---------------------------
(***************************************************************************)
(* Proofs about TcpFlows for any set of flows and any bounds.  What a      *)
(* handler does is an operator on one flow's record, so the inductive      *)
(* invariant is a predicate on a record, kept by every operator, and the   *)
(* theorems lift it to all the flows.                                      *)
(***************************************************************************)
EXTENDS TcpFlows, TLAPS

Tunnelling == proxy \in {"http", "socks"}

Finished == {"CloseWait", "LastAck", "TimeWait", "Closed"}

\* A flow without an upstream has nothing of one left, and is on its way out.
Down(r) ==
    /\ ~r.up => /\ ~r.connecting /\ ~r.handshake /\ r.mitm = "none" /\ ~r.pending
                /\ r.queue = {} /\ ~r.write_closed /\ r.sock \in {"none", "Closed"}
    /\ r.up => r.sock # "none"
    /\ r.sock = "none" => r.inq = "none"
    /\ ~r.opened => ~r.up /\ r.sock = "none" /\ r.wire = {}

Deferred(r) ==
    /\ r.pending => /\ r.wire = {} /\ r.queue = {} /\ r.mitm = "none" /\ r.kind = "https"
                    /\ ~r.write_closed /\ ~r.fwd
    /\ r.hello # "none" => r.kind = "https"

\* A flow that carries encrypted DNS is spliced, or still undecided.
Held(r) ==
    r.filtered /\ (r.kind = "dot" \/ r.hello = "doh") =>
        /\ "raw" \notin r.wire \cup r.queue
        /\ r.up => r.mitm # "none" \/ r.pending

\* Before the tunnel is granted a flow is in the handshake, with nothing to
\* send, or forwards in absolute-URI form.
Gated(r) ==
    Tunnelling /\ ~r.tunnelled =>
        /\ r.wire \subseteq {"abs"}
        /\ r.up => \/ r.handshake /\ r.queue = {}
                   \/ r.fwd /\ r.queue \subseteq {"abs"} /\ r.mitm = "none" /\ ~r.pending

Closing(r) ==
    r.write_closed => /\ ~r.connecting /\ ~r.handshake
                      /\ r.mitm = "none" => r.queue = {} /\ r.rx = 0 /\ r.sock \in Finished

RecInv(r) == r \in FlowRec /\ Down(r) /\ Deferred(r) /\ Held(r) /\ Gated(r) /\ Closing(r)

IInv == TypeOK /\ \A f \in Flows : RecInv(flow[f])
-----------------------------------------------------------------------------
(* The stack and socket helpers keep a flow's invariant. *)

\* What the later steps of a handler still test.
Same(x, r) ==
    /\ x.up = r.up /\ x.connecting = r.connecting /\ x.handshake = r.handshake
    /\ x.mitm = r.mitm /\ x.pending = r.pending /\ x.opened = r.opened

\* A flow with an upstream has been opened.
LEMMA OpenWhileUp ==
    ASSUME NEW r, RecInv(r), r.up
    PROVE  r.opened
  BY DEF RecInv, FlowRec, Down

\* tcp_abort only finishes the socket.
LEMMA AbortKeeps ==
    ASSUME NEW r, RecInv(r), r.opened
    PROVE  RecInv(tcp_abort(r))
  BY DEF RecInv, FlowRec, Down, Deferred, Held, Gated, Closing, Tunnelling, Finished,
         tcp_abort, Socks

\* Changing the socket's state is harmless to an open flow that may still
\* receive, and to any flow when the new state is a finished one.
LEMMA SocketKeeps ==
    ASSUME NEW r, RecInv(r), r.up, NEW s \in Socks \ {"none"},
           r.write_closed /\ r.mitm = "none" => s \in Finished
    PROVE  RecInv([r EXCEPT !.sock = s])
  BY DEF RecInv, FlowRec, Down, Deferred, Held, Gated, Closing, Tunnelling, Finished

\* tcp_close_app moves the socket towards a finished state.
LEMMA CloseAppKeeps ==
    ASSUME NEW r, RecInv(r), r.up
    PROVE  RecInv(tcp_close_app(r)) /\ Same(tcp_close_app(r), r)
<1> DEFINE s == CASE r.sock = "Listen" -> "Closed"
                  [] r.sock \in {"SynReceived", "Established"} -> "FinWait"
                  [] r.sock = "CloseWait" -> "LastAck"
                  [] OTHER -> r.sock
<1>1. r \in FlowRec /\ r.sock \in Socks \ {"none"}
  BY DEF RecInv, FlowRec, Down
<1>2. s \in Socks \ {"none"} /\ (r.sock \in Finished => s \in Finished)
  BY <1>1 DEF Socks, Finished
<1>3. r.write_closed /\ r.mitm = "none" => s \in Finished
  BY <1>2 DEF RecInv, Closing
<1>4. tcp_close_app(r) = [r EXCEPT !.sock = s]
  BY DEF tcp_close_app
<1> HIDE DEF s
<1>5. RecInv([r EXCEPT !.sock = s])
  BY <1>2, <1>3, SocketKeeps
<1> QED
  BY <1>1, <1>4, <1>5 DEF FlowRec, Same

\* teardown_tcp leaves a flow without upstream whose socket can still finish.
LEMMA TeardownKeeps ==
    ASSUME NEW r, RecInv(r), r.sock \in {"none", "Closed"}
    PROVE  RecInv(teardown_tcp(r))
<1> DEFINE t == teardown_tcp(r)
<1>1. r \in FlowRec /\ 0 \in 0..MaxAge /\ 0 \in 0..1 /\ {} \in SUBSET Bytes /\ "none" \in Splices
  BY ConstantsAssumption DEF RecInv, Splices, MaxAge
<1>2. t \in FlowRec
  <2> DEFINE a == [r EXCEPT !.up = FALSE, !.connecting = FALSE, !.handshake = FALSE,
                            !.mitm = "none"]
             b == [a EXCEPT !.over = FALSE, !.pending = FALSE, !.buf = 0, !.fwd = FALSE]
  <2>1. a \in FlowRec
    BY <1>1 DEF FlowRec
  <2> HIDE DEF a
  <2>2. b \in FlowRec
    BY <1>1, <2>1 DEF FlowRec
  <2> HIDE DEF b
  <2>3. [b EXCEPT !.queue = {}, !.write_closed = FALSE, !.age = 0] \in FlowRec
    BY <1>1, <2>2 DEF FlowRec
  <2> QED
    BY <2>3 DEF teardown_tcp, a, b
<1>3. /\ t.up = FALSE /\ t.connecting = FALSE /\ t.handshake = FALSE /\ t.mitm = "none"
      /\ t.pending = FALSE /\ t.queue = {} /\ t.write_closed = FALSE
  BY <1>1 DEF FlowRec, teardown_tcp
<1>4. /\ t.sock = r.sock /\ t.inq = r.inq /\ t.kind = r.kind /\ t.hello = r.hello /\ t.opened = r.opened
      /\ t.filtered = r.filtered /\ t.tunnelled = r.tunnelled /\ t.wire = r.wire
  BY <1>1 DEF FlowRec, teardown_tcp
<1> HIDE DEF t
<1> QED
  <2>1. Down(t) /\ Deferred(t) /\ Held(t) /\ Gated(t) /\ Closing(t)
    BY <1>1, <1>2, <1>3, <1>4 DEF RecInv, FlowRec, Down, Deferred, Held, Gated, Closing
  <2> QED
    BY <1>2, <2>1 DEF RecInv, t

\* fail_proxy aborts the app's socket before the teardown.
LEMMA FailProxyKeeps ==
    ASSUME NEW r, RecInv(r), r.up
    PROVE  RecInv(fail_proxy(r))
<1>1. RecInv(tcp_abort(r)) /\ tcp_abort(r).sock = "Closed"
  BY OpenWhileUp, AbortKeeps DEF RecInv, FlowRec, tcp_abort
<1> QED
  BY <1>1, TeardownKeeps DEF fail_proxy

\* flush_to_upstream sends what may be sent: beyond the handshake a flow is
\* tunnelled, or forwards in absolute-URI form.
LEMMA FlushKeeps ==
    ASSUME NEW r, RecInv(r), NEW x \in flush_to_upstream(r)
    PROVE  RecInv(x) /\ Same(x, r)
<1>1. CASE x = r
  BY <1>1 DEF Same
<1>2. CASE x # r
  <2>1. /\ r.up /\ ~r.connecting /\ ~r.handshake /\ r.queue # {}
        /\ x \in {[r EXCEPT !.wire = r.wire \cup r.queue],
                  [r EXCEPT !.wire = r.wire \cup r.queue, !.queue = {}], tcp_abort(r)}
    BY <1>2 DEF flush_to_upstream
  <2>2. CASE x = tcp_abort(r)
    BY <2>1, <2>2, OpenWhileUp, AbortKeeps DEF tcp_abort, Same, RecInv, FlowRec
  <2>3. CASE x = [r EXCEPT !.wire = r.wire \cup r.queue]
    BY <2>1, <2>3 DEF RecInv, FlowRec, Down, Deferred, Held, Gated, Closing, Same
  <2>4. CASE x = [r EXCEPT !.wire = r.wire \cup r.queue, !.queue = {}]
    BY <2>1, <2>4 DEF RecInv, FlowRec, Down, Deferred, Held, Gated, Closing, Same
  <2> QED
    BY <2>1, <2>2, <2>3, <2>4
<1> QED
  BY <1>1, <1>2

\* The half-close is passed on only when nothing is left before it.
LEMMA HalfCloseKeeps ==
    ASSUME NEW r, RecInv(r), ~r.handshake, ~r.pending
    PROVE  RecInv(half_close(r)) /\ Same(half_close(r), r)
<1>1. CASE half_close(r) = r
  BY <1>1 DEF Same
<1>2. CASE half_close(r) # r
  <2>1. /\ half_close(r) = [r EXCEPT !.write_closed = TRUE]
        /\ r.up /\ tcp_app_finished(r) /\ r.queue = {} /\ ~r.connecting
    BY <1>2 DEF half_close
  <2>2. r.sock \in Finished /\ r.rx = 0
    BY <2>1 DEF tcp_app_finished, Finished
  <2>3. RecInv([r EXCEPT !.write_closed = TRUE])
    BY <2>1, <2>2, ZenonT(40) DEF RecInv, FlowRec, Down, Deferred, Held, Gated, Closing
  <2> QED
    BY <2>1, <2>3 DEF RecInv, FlowRec, Same
<1> QED
  BY <1>1, <1>2

\* tcp_take_app_data takes from the socket what the relay then keeps or queues.
LEMMA TakeKeeps ==
    ASSUME NEW r, RecInv(r)
    PROVE  RecInv(Take(r)) /\ Same(Take(r), r) /\ Take(r).sent = r.sent /\ Take(r).rx = 0
<1>1. 0 \in 0..MaxUnits
  BY ConstantsAssumption
<1>2. Take(r) \in FlowRec
  BY <1>1 DEF RecInv, FlowRec, Take
<1> QED
  BY <1>2 DEF Take, RecInv, FlowRec, Down, Deferred, Held, Gated, Closing, Same

-----------------------------------------------------------------------------
(* The splice *)

\* Where drive_mitm is called: past the connect and the handshake.
Spliced(r) == r.up /\ ~r.connecting /\ ~r.handshake /\ r.mitm # "none" /\ ~r.pending

\* A splice that has closed is flushed, and torn down or kept for the rest of the queue.
LEMMA MitmClosedKeeps ==
    ASSUME NEW r, RecInv(r), Spliced(r), NEW y \in MitmClosed(r)
    PROVE  RecInv(y) /\ Spliced(y)
<1>1. PICK x \in flush_to_upstream(r) :
        y = IF x.write_closed \/ x.connecting THEN tcp_close_app(x)
            ELSE [tcp_close_app(x) EXCEPT !.write_closed = TRUE]
  BY DEF MitmClosed
<1>2. RecInv(x) /\ Spliced(x)
  BY FlushKeeps DEF Spliced, Same
<1> DEFINE z == tcp_close_app(x)
<1>3. RecInv(z) /\ Spliced(z)
  BY <1>2, CloseAppKeeps DEF Spliced, Same
<1> HIDE DEF z
<1>4. RecInv([z EXCEPT !.write_closed = TRUE]) /\ Spliced([z EXCEPT !.write_closed = TRUE])
  BY <1>3 DEF RecInv, FlowRec, Down, Deferred, Held, Gated, Closing, Spliced
<1> QED
  BY <1>1, <1>3, <1>4 DEF z

\* drive_mitm queues TLS bytes only, and ends a splice that is over.
LEMMA DriveMitmKeeps ==
    ASSUME NEW r, RecInv(r), Spliced(r), NEW y \in drive_mitm(r)
    PROVE  RecInv(y) /\ Spliced(y)
<1>1. CASE y = r
  BY <1>1
<1>2. CASE y \in MitmClosed(r)
  BY <1>2, MitmClosedKeeps
<1>3. ASSUME NEW q \in {{}, {"tls"}}, y = [r EXCEPT !.queue = r.queue \cup q]
      PROVE  RecInv(y) /\ Spliced(y)
  <2>1. r.queue \cup q \in SUBSET Bytes
    BY <1>3 DEF RecInv, FlowRec, Bytes
  <2>2. y \in FlowRec
    BY <1>3, <2>1 DEF RecInv, FlowRec
  <2> QED
    BY <1>3, <2>2 DEF RecInv, FlowRec, Down, Deferred, Held, Gated, Closing, Spliced
<1>4. ASSUME NEW x \in BOOLEAN,
             y \in MitmClosed([r EXCEPT !.over = TRUE, !.rejected = r.rejected \/ x])
      PROVE  RecInv(y) /\ Spliced(y)
  <2> DEFINE w == [r EXCEPT !.over = TRUE, !.rejected = r.rejected \/ x]
  <2>1. (r.rejected \/ x) \in BOOLEAN
    BY DEF RecInv, FlowRec
  <2>2. w \in FlowRec
    BY <2>1 DEF RecInv, FlowRec
  <2>3. RecInv(w) /\ Spliced(w)
    BY <2>2 DEF RecInv, FlowRec, Down, Deferred, Held, Gated, Closing, Spliced
  <2> HIDE DEF w
  <2>4. y \in MitmClosed(w)
    BY <1>4 DEF w
  <2> QED
    BY <2>3, <2>4, MitmClosedKeeps
<1> QED
  BY <1>1, <1>2, <1>3, <1>4 DEF drive_mitm

-----------------------------------------------------------------------------
(* Proxy handshake *)

\* drive_proxy_handshake ends in a tunnel, in a refusal or still waits.
LEMMA DriveProxyHandshakeKeeps ==
    ASSUME NEW r, RecInv(r), r.up, r.handshake, ~r.connecting,
           NEW y \in drive_proxy_handshake(r)
    PROVE  RecInv(y)
<1>1. CASE y = [r EXCEPT !.handshake = FALSE, !.tunnelled = TRUE]
  BY <1>1 DEF RecInv, FlowRec, Down, Deferred, Held, Gated, Closing
<1>2. CASE y = fail_proxy([r EXCEPT !.refused80 = TRUE])
  <2> DEFINE w == [r EXCEPT !.refused80 = TRUE]
  <2>1. RecInv(w) /\ w.up
    BY DEF RecInv, FlowRec, Down, Deferred, Held, Gated, Closing
  <2> HIDE DEF w
  <2> QED
    BY <1>2, <2>1, FailProxyKeeps DEF w
<1> QED
  BY <1>1, <1>2, FailProxyKeeps DEF drive_proxy_handshake

-----------------------------------------------------------------------------
(* Classification *)

\* The bytes kept waiting fit the type: whatever is longer is decided on.
LEMMA WaitingKeeps ==
    ASSUME NEW r, RecInv(r), r.up, r.pending, Waiting(Buffered(r))
    PROVE  RecInv(Buffered(r))
<1> DEFINE b == Buffered(r)
<1>1. r \in FlowRec /\ r.buf + r.rx \in Nat /\ 0 \in 0..MaxUnits
  BY ConstantsAssumption DEF RecInv, FlowRec
<1>2. b = [r EXCEPT !.rx = 0, !.buf = r.buf + r.rx]
  BY DEF Buffered, Take
<1>3. b.buf = r.buf + r.rx
  BY <1>1, <1>2 DEF FlowRec
<1>4. r.buf + r.rx \in 0..1
  BY <1>1, <1>3 DEF Waiting
<1>5. b \in FlowRec
  BY <1>1, <1>2, <1>4, ZenonT(40) DEF FlowRec
<1> QED
  BY <1>2, <1>5 DEF RecInv, FlowRec, Down, Deferred, Held, Gated, Closing

\* A decided flow, before it is spliced, relayed or dropped.
LEMMA SettledFlow ==
    ASSUME NEW r, RecInv(r), r.up, r.pending, ~r.connecting, ~r.handshake
    PROVE  LET t == Settled(Buffered(r)) IN
           /\ t = [r EXCEPT !.rx = 0, !.buf = 0, !.pending = FALSE]
           /\ t \in FlowRec
           /\ t.up /\ ~t.connecting /\ ~t.handshake /\ ~t.pending /\ t.opened /\ ~t.fwd
           /\ t.queue = {} /\ t.wire = {} /\ t.mitm = "none" /\ ~t.write_closed
           /\ t.kind = "https" /\ t.sock # "none" /\ (Tunnelling => t.tunnelled)
           /\ t.hello = r.hello /\ t.sent = r.sent
<1> DEFINE t == Settled(Buffered(r))
<1>1. t = [r EXCEPT !.rx = 0, !.buf = 0, !.pending = FALSE]
  BY DEF Settled, Buffered, Take, RecInv, FlowRec
<1>2. r \in FlowRec /\ 0 \in 0..MaxUnits /\ 0 \in 0..1
  BY ConstantsAssumption DEF RecInv
<1>3. t \in FlowRec
  BY <1>1, <1>2, ZenonT(40) DEF FlowRec
<1> QED
  BY <1>1, <1>2, <1>3 DEF RecInv, FlowRec, Down, Deferred, Gated

\* classify_pending refuses, splices or relays a deferred flow, or keeps waiting.
LEMMA ClassifyKeeps ==
    ASSUME NEW f, NEW r, RecInv(r), r.up, r.pending, ~r.connecting, ~r.handshake,
           NEW y \in classify_pending(f, Buffered(r))
    PROVE  RecInv(y)
<1> DEFINE t == Settled(Buffered(r))
<1>0. /\ t = [r EXCEPT !.rx = 0, !.buf = 0, !.pending = FALSE]
      /\ t \in FlowRec
      /\ t.up /\ ~t.connecting /\ ~t.handshake /\ ~t.pending /\ t.opened /\ ~t.fwd
      /\ t.queue = {} /\ t.wire = {} /\ t.mitm = "none" /\ ~t.write_closed
      /\ t.kind = "https" /\ t.sock # "none" /\ (Tunnelling => t.tunnelled)
      /\ t.hello = r.hello /\ t.sent = r.sent
  BY SettledFlow
<1>1. CASE Waiting(Buffered(r))
  <2>1. y = Buffered(r)
    BY <1>1 DEF classify_pending
  <2> QED
    BY <1>1, <2>1, WaitingKeeps
<1>2. CASE y = Dropped(t)
  <2> DEFINE a == tcp_abort(Take(r))
  <2>1. Dropped(t) = teardown_tcp(a)
    <3> HIDE DEF t
    <3>1. r \in FlowRec
      BY DEF RecInv
    <3>2. a = [r EXCEPT !.rx = 0, !.sock = "Closed"]
      BY DEF tcp_abort, Take
    <3>3. tcp_abort(t) = [a EXCEPT !.buf = 0, !.pending = FALSE]
      BY <1>0, <3>1, <3>2 DEF tcp_abort, FlowRec
    <3> HIDE DEF a
    <3>4. teardown_tcp([a EXCEPT !.buf = 0, !.pending = FALSE]) = teardown_tcp(a)
      BY DEF teardown_tcp
    <3> QED
      BY <3>3, <3>4 DEF Dropped
  <2>2. RecInv(Take(r)) /\ Take(r).opened
    BY TakeKeeps, OpenWhileUp DEF Same
  <2>3. RecInv(tcp_abort(Take(r))) /\ tcp_abort(Take(r)).sock = "Closed"
    BY <2>2, AbortKeeps DEF RecInv, FlowRec, tcp_abort
  <2> QED
    BY <1>2, <2>1, <2>3, TeardownKeeps
<1>3. ASSUME NEW s \in {"doh", "inspect"}, y \in drive_mitm([t EXCEPT !.mitm = s]),
             s = "inspect" => r.hello # "doh"
      PROVE  RecInv(y)
  <2> DEFINE m == [t EXCEPT !.mitm = s]
  <2>1. s \in Splices /\ s # "none"
    BY DEF Splices
  <2>2. RecInv(m) /\ Spliced(m)
    <3> HIDE DEF t
    <3>1. m \in FlowRec
      BY <1>0, <2>1, ZenonT(40) DEF FlowRec
    <3> QED
      BY <1>0, <2>1, <3>1, <1>3
         DEF FlowRec, RecInv, Down, Deferred, Held, Gated, Closing, Spliced
  <2> HIDE DEF m
  <2> QED
    BY <1>3, <2>2, DriveMitmKeeps DEF m
<1>4. CASE y = [t EXCEPT !.queue = Buffered(r).queue \cup {"raw"}] /\ r.hello # "doh"
  <2>1. Buffered(r).queue = {}
    BY DEF Buffered, Take, RecInv, FlowRec, Deferred
  <2>2. {"raw"} \in SUBSET Bytes
    BY DEF Bytes
  <2> HIDE DEF t
  <2>3. y = [t EXCEPT !.queue = {"raw"}]
    BY <1>4, <2>1
  <2>4. y \in FlowRec
    BY <1>0, <2>2, <2>3, ZenonT(40) DEF FlowRec
  <2> QED
    BY <1>0, <1>4, <2>3, <2>4
       DEF RecInv, FlowRec, Down, Deferred, Held, Gated, Closing
<1>5. Buffered(r).hello = r.hello
  BY DEF Buffered, Take, RecInv, FlowRec
<1>6. ~Waiting(Buffered(r)) => \/ y = Dropped(t)
                                \/ \E s \in {"doh", "inspect"} :
                                      /\ y \in drive_mitm([t EXCEPT !.mitm = s])
                                      /\ s = "inspect" => r.hello # "doh"
                                \/ /\ y = [t EXCEPT !.queue = Buffered(r).queue \cup {"raw"}]
                                   /\ r.hello # "doh"
  BY <1>5 DEF classify_pending
<1> QED
  BY <1>1, <1>2, <1>3, <1>4, <1>6

-----------------------------------------------------------------------------
(* service() *)

\* Flushing and then half-closing, whichever the flush did.
LEMMA FlushAndHalfCloseKeeps ==
    ASSUME NEW S, \A x \in S : RecInv(x) /\ ~x.handshake /\ ~x.pending,
           NEW y \in FlushAndHalfClose(S)
    PROVE  RecInv(y)
<1>1. PICK x \in S : \E z \in flush_to_upstream(x) : y = half_close(z)
  BY DEF FlushAndHalfClose
<1>2. PICK z \in flush_to_upstream(x) : y = half_close(z)
  BY <1>1
<1>3. RecInv(z) /\ ~z.handshake /\ ~z.pending
  BY FlushKeeps DEF Same
<1> QED
  BY <1>2, <1>3, HalfCloseKeeps

\* Queueing what the relay read: raw bytes of a flow that is neither spliced nor
\* forwarded, or the absolute-URI form of one that is forwarded.
LEMMA QueueKeeps ==
    ASSUME NEW r, RecInv(r), r.up, ~r.connecting, ~r.handshake, ~r.pending,
           r.mitm = "none", r.rx > 0, NEW b \in {"raw", "abs"}, b = "raw" => ~r.fwd
    PROVE  LET q == [Take(r) EXCEPT !.queue = r.queue \cup {b}] IN
           RecInv(q) /\ ~q.handshake /\ ~q.pending
<1> DEFINE q == [Take(r) EXCEPT !.queue = r.queue \cup {b}]
<1>1. r \in FlowRec /\ 0 \in 0..MaxUnits /\ r.queue \cup {b} \in SUBSET Bytes
  BY ConstantsAssumption DEF RecInv, FlowRec, Bytes
<1>2. q = [r EXCEPT !.rx = 0, !.queue = r.queue \cup {b}]
  BY DEF Take
<1>3. q \in FlowRec
  BY <1>1, <1>2, ZenonT(40) DEF FlowRec
<1>4. ~r.write_closed
  <2>1. r.rx # 0
    BY <1>1 DEF FlowRec
  <2> QED
    BY <2>1 DEF RecInv, Closing
<1>5. Down(q) /\ Deferred(q) /\ Closing(q)
  BY <1>1, <1>2, <1>4 DEF RecInv, FlowRec, Down, Deferred, Closing
<1>6. Held(q) /\ Gated(q)
  BY <1>1, <1>2 DEF RecInv, FlowRec, Held, Gated
<1>7. ~q.handshake /\ ~q.pending
  BY <1>1, <1>2 DEF FlowRec
<1> QED
  BY <1>3, <1>5, <1>6, <1>7 DEF RecInv

\* What service() does for one active flow.
LEMMA RelayKeeps ==
    ASSUME NEW f, NEW r, RecInv(r), NEW y \in relay(f, r)
    PROVE  RecInv(y)
<1>1. CASE ~r.up
  BY <1>1, TakeKeeps DEF relay
<1>2. CASE r.up /\ r.connecting
  BY <1>2 DEF relay
<1>3. CASE r.up /\ ~r.connecting /\ r.handshake
  BY <1>3, DriveProxyHandshakeKeeps DEF relay
<1>4. CASE r.up /\ ~r.connecting /\ ~r.handshake /\ r.pending
  <2>1. PICK c \in classify_pending(f, Buffered(r)) :
          \E x \in flush_to_upstream(c) : y = AbandonedPending(x)
    BY <1>4 DEF relay
  <2>2. PICK x \in flush_to_upstream(c) : y = AbandonedPending(x)
    BY <2>1
  <2>3. RecInv(c)
    BY <1>4, ClassifyKeeps
  <2>4. RecInv(x)
    BY <2>3, FlushKeeps
  <2> QED
    BY <2>2, <2>4, OpenWhileUp, AbortKeeps DEF AbandonedPending
<1>5. CASE r.up /\ ~r.connecting /\ ~r.handshake /\ ~r.pending /\ r.mitm # "none"
  <2>1. y \in FlushAndHalfClose(drive_mitm(Take(r)))
    BY <1>5 DEF relay
  <2>2. RecInv(Take(r)) /\ Spliced(Take(r))
    BY <1>5, TakeKeeps DEF Spliced, Same
  <2>3. \A x \in drive_mitm(Take(r)) : RecInv(x) /\ ~x.handshake /\ ~x.pending
    BY <2>2, DriveMitmKeeps DEF Spliced
  <2> QED
    BY <2>1, <2>3, FlushAndHalfCloseKeeps
<1>6. CASE r.up /\ ~r.connecting /\ ~r.handshake /\ ~r.pending /\ r.mitm = "none"
  <2>1. CASE y = fail_proxy(Take(r))
    <3>1. RecInv(Take(r)) /\ Take(r).up
      BY <1>6, TakeKeeps DEF Same
    <3> QED
      BY <2>1, <3>1, FailProxyKeeps
  <2>2. ASSUME NEW b \in {"raw", "abs"}, b = "raw" => ~r.fwd, r.rx > 0,
               y \in FlushAndHalfClose({[Take(r) EXCEPT !.queue = r.queue \cup {b}]})
        PROVE  RecInv(y)
    BY <1>6, <2>2, QueueKeeps, FlushAndHalfCloseKeeps
  <2>3. CASE y \in FlushAndHalfClose({r})
    BY <1>6, <2>3, FlushAndHalfCloseKeeps
  <2> QED
    BY <1>6, <2>1, <2>2, <2>3 DEF relay
<1> QED
  BY <1>1, <1>2, <1>3, <1>4, <1>5, <1>6 DEF RecInv, FlowRec

\* A poll moves the socket and its queues; a finished one takes no more data.
LEMMA DeliveredKeeps ==
    ASSUME NEW r, RecInv(r)
    PROVE  RecInv(Delivered(r)) /\ Same(Delivered(r), r)
<1> DEFINE d == Delivered(r)
<1>1. r \in FlowRec /\ MaxUnits \in Nat
  BY ConstantsAssumption DEF RecInv
<1>2. PICK n, s : d = [r EXCEPT !.inq = "none", !.rx = n, !.sock = s]
                  /\ n \in 0..MaxUnits /\ s \in Socks
                  /\ (s = "none" <=> r.sock = "none")
                  /\ (r.sock = "Closed" => s = "Closed")
                  /\ (r.sock \in Finished => s \in Finished /\ n = r.rx)
  <2>1. CASE r.sock = "TimeWait"
    <3>1. d = [r EXCEPT !.inq = "none", !.rx = r.rx, !.sock = "Closed"]
      BY <1>1, <2>1 DEF Delivered, FlowRec
    <3> QED
      BY <1>1, <2>1, <3>1 DEF FlowRec, Socks, Finished
  <2>2. CASE r.sock # "TimeWait" /\ (r.sock = "Closed" \/ r.inq = "none")
    <3>1. d = [r EXCEPT !.inq = "none", !.rx = r.rx, !.sock = r.sock]
      BY <1>1, <2>2 DEF Delivered, FlowRec
    <3> QED
      BY <1>1, <2>2, <3>1 DEF FlowRec, Socks, Finished
  <2>3. CASE r.sock # "TimeWait" /\ ~(r.sock = "Closed" \/ r.inq = "none")
    <3> DEFINE fin == r.inq \in {"datafin", "fin"}
               dat == r.inq \in {"data", "datafin"}
               n == IF dat /\ r.sock \in {"SynReceived", "Established", "FinWait"}
                       /\ r.rx < MaxUnits THEN r.rx + 1 ELSE r.rx
               s == CASE r.inq = "rst" -> (IF r.sock \in {"Listen", "SynReceived"}
                                          THEN "Listen" ELSE "Closed")
                     [] r.sock = "Listen" -> (IF r.inq = "syn" THEN "SynReceived" ELSE "Listen")
                     [] r.sock = "SynReceived" -> (IF fin THEN "CloseWait" ELSE
                                                   IF r.inq = "syn" THEN "SynReceived"
                                                   ELSE "Established")
                     [] r.sock = "Established" -> (IF fin THEN "CloseWait" ELSE "Established")
                     [] r.sock = "FinWait" -> (IF fin THEN "TimeWait" ELSE "FinWait")
                     [] r.sock = "LastAck" -> (IF r.inq = "ack" THEN "Closed" ELSE "LastAck")
                     [] OTHER -> r.sock
    <3>1. d = [r EXCEPT !.inq = "none", !.rx = n, !.sock = s]
      BY <2>3 DEF Delivered
    <3>2. n \in 0..MaxUnits /\ (r.sock \in Finished => n = r.rx)
      BY <1>1 DEF FlowRec, Finished
    <3>3. /\ s \in Socks
          /\ (s = "none" <=> r.sock = "none")
          /\ (r.sock \in Finished => s \in Finished)
      BY <1>1, <2>3 DEF FlowRec, Socks, Finished, RecInv, Down
    <3> HIDE DEF n, s
    <3> QED
      BY <2>3, <3>1, <3>2, <3>3
  <2> QED
    BY <2>1, <2>2, <2>3
<1> HIDE DEF d
<1>3. d \in FlowRec
  BY <1>1, <1>2 DEF FlowRec, Segments
<1>4. RecInv(d) /\ Same(d, r)
  BY <1>2, <1>3 DEF RecInv, FlowRec, Down, Deferred, Held, Gated, Closing, Same, Finished
<1> QED
  BY <1>4 DEF d

\* A flow the stack removed is torn down.
LEMMA RemovedKeeps ==
    ASSUME NEW r, RecInv(r), r.sock = "Closed"
    PROVE  RecInv(Removed(r))
<1> DEFINE t == teardown_tcp(r)
<1>1. RecInv(t) /\ t.up = FALSE /\ 0 \in 0..MaxUnits
  <2>1. RecInv(t)
    BY TeardownKeeps
  <2>2. t.up = FALSE
    BY DEF RecInv, FlowRec, teardown_tcp
  <2> QED
    BY <2>1, <2>2, ConstantsAssumption
<1> HIDE DEF t
<1>2. [t EXCEPT !.sock = "none", !.rx = 0, !.inq = "none"] \in FlowRec
  BY <1>1 DEF RecInv, FlowRec, Socks, Segments
<1>3. RecInv([t EXCEPT !.sock = "none", !.rx = 0, !.inq = "none"])
  BY <1>1, <1>2 DEF RecInv, FlowRec, Down, Deferred, Held, Gated, Closing
<1> QED
  BY <1>3 DEF Removed, t

\* A reaper keeps a flow or fails it.
LEMMA ReapKeeps ==
    ASSUME NEW r, RecInv(r)
    PROVE  RecInv(reap_pending_sni(reap_proxy_handshakes(r)))
<1>1. ASSUME NEW x, RecInv(x) PROVE RecInv(reap_pending_sni(x))
  BY <1>1, OpenWhileUp, AbortKeeps DEF reap_pending_sni
<1>2. RecInv(reap_proxy_handshakes(r))
  BY FailProxyKeeps DEF reap_proxy_handshakes
<1> QED
  BY <1>1, <1>2

-----------------------------------------------------------------------------
(* Packets and readiness *)

\* open_tcp leaves no way to relay an encrypted-DNS flow raw.
LEMMA OpenTcpKeeps ==
    ASSUME NEW f \in Flows, RecInv(flow[f]), ~flow[f].opened, mode \in {"Off", "Block", "Filter"},
           NEW y \in open_tcp(f, [flow[f] EXCEPT !.sock = "Listen", !.inq = "syn",
                                      !.opened = TRUE, !.filtered = mode = "Filter"])
    PROVE  RecInv(y)
<1> DEFINE r == [flow[f] EXCEPT !.sock = "Listen", !.inq = "syn",
                               !.opened = TRUE, !.filtered = mode = "Filter"]
<1>1. /\ r \in FlowRec /\ ~r.up /\ r.wire = {} /\ r.queue = {} /\ r.mitm = "none" /\ ~r.pending
      /\ ~r.write_closed /\ ~r.connecting /\ ~r.handshake /\ r.opened
      /\ r.sock = "Listen" /\ r.inq = "syn" /\ (r.hello # "none" => r.kind = "https")
      /\ r.kind = flow[f].kind /\ r.hello = flow[f].hello /\ r.filtered = (mode = "Filter")
  BY ZenonT(40) DEF RecInv, FlowRec, Down, Deferred, Socks, Segments
<1>0. y \in open_tcp(f, r)
  OBVIOUS
<1> HIDE DEF r
<1>2. CASE y = tcp_abort(r)
  <2>1. y \in FlowRec
    BY <1>1, <1>2 DEF tcp_abort, FlowRec, Socks
  <2> QED
    BY <1>1, <1>2, <2>1
       DEF tcp_abort, RecInv, FlowRec, Down, Deferred, Held, Gated, Closing
<1>3. CASE y # tcp_abort(r)
  <2> DEFINE defer == mode = "Filter" /\ r.kind = "https"
             fwd == http_forward_80 /\ r.kind = "http" /\ proxy = "http"
             hs == proxy \in {"http", "socks"} /\ ~fwd
  <2>0. open_tcp(f, r) =
          {tcp_abort(r)} \cup
          {[r EXCEPT !.up = TRUE, !.connecting = TRUE, !.mitm = m, !.pending = defer,
                     !.fwd = fwd, !.handshake = hs] :
             m \in {x \in IF defer THEN {"none"} ELSE new_mitm_if_intercepting(f) :
                      ~requires_enc_dns_intercept(f) \/ x # "none"}}
    BY ZenonT(30) DEF open_tcp
  <2>1. PICK m \in IF defer THEN {"none"} ELSE new_mitm_if_intercepting(f) :
          /\ ~requires_enc_dns_intercept(f) \/ m # "none"
          /\ y = [r EXCEPT !.up = TRUE, !.connecting = TRUE, !.mitm = m, !.pending = defer,
                          !.fwd = fwd, !.handshake = hs]
    <3> HIDE DEF defer, fwd, hs
    <3> QED
      BY <1>0, <1>3, <2>0
  <2>2. defer \in BOOLEAN /\ fwd \in BOOLEAN /\ hs \in BOOLEAN /\ (fwd => r.kind = "http")
        /\ (defer => m = "none" /\ r.kind = "https")
    BY <2>1
  <2>3. m \in Splices /\ (m # "none" => r.kind \in {"dot", "https"})
    BY <1>1, <2>1 DEF new_mitm_if_intercepting, requires_enc_dns_intercept, Splices
  <2>4. r.filtered /\ (r.kind = "dot" \/ r.hello = "doh") => m # "none" \/ defer
    BY <1>1, <2>1 DEF requires_enc_dns_intercept
  <2>5. Tunnelling => hs \/ fwd
    BY DEF Tunnelling
  <2> HIDE DEF defer, fwd, hs
  <2>6. y \in FlowRec
    <3> DEFINE a == [r EXCEPT !.up = TRUE, !.connecting = TRUE, !.mitm = m]
    <3>1. a \in FlowRec
      BY <1>1, <2>3 DEF FlowRec
    <3> HIDE DEF a
    <3>2. [a EXCEPT !.pending = defer, !.fwd = fwd, !.handshake = hs] \in FlowRec
      BY <2>2, <3>1 DEF FlowRec
    <3> QED
      BY <2>1, <3>2 DEF a
  <2>7. Down(y) /\ Deferred(y) /\ Closing(y)
    BY <1>1, <2>1, <2>2 DEF FlowRec, Down, Deferred, Closing
  <2>8. Held(y) /\ Gated(y)
    BY <1>1, <2>1, <2>2, <2>3, <2>4, <2>5 DEF FlowRec, Held, Gated
  <2> QED
    BY <2>6, <2>7, <2>8 DEF RecInv
<1> QED
  BY <1>2, <1>3

\* What on_ready does for a flow's upstream.
LEMMA ReadyKeeps ==
    ASSUME NEW r, RecInv(r), r.up, ~r.connecting, NEW y \in ready(r)
    PROVE  RecInv(y)
<1>1. CASE r.handshake
  BY <1>1, DriveProxyHandshakeKeeps DEF ready
<1>2. CASE ~r.handshake
  <2>1. PICK x \in flush_to_upstream(r) :
          y \in IF x.mitm # "none"
                THEN {x} \cup drive_mitm(x) \cup {tcp_close_app(z) : z \in drive_mitm(x)}
                ELSE {x, tcp_close_app(x), tcp_abort(x)}
    BY <1>2 DEF ready
  <2>2. RecInv(x) /\ x.up /\ ~x.connecting /\ ~x.handshake
    BY <1>2, FlushKeeps DEF Same
  <2>3. CASE x.mitm # "none"
    <3>1. Spliced(x)
      BY <2>2, <2>3 DEF Spliced, RecInv, Deferred, FlowRec
    <3>2. \A z \in drive_mitm(x) : RecInv(z) /\ RecInv(tcp_close_app(z))
      BY <2>2, <3>1, DriveMitmKeeps, CloseAppKeeps DEF Spliced
    <3> QED
      BY <2>1, <2>2, <2>3, <3>2
  <2>4. CASE x.mitm = "none"
    BY <2>1, <2>2, <2>4, CloseAppKeeps, AbortKeeps, OpenWhileUp
  <2> QED
    BY <2>3, <2>4
<1> QED
  BY <1>1, <1>2 DEF RecInv, FlowRec

-----------------------------------------------------------------------------
(* The inductive invariant *)

\* No flow has an upstream at the start.
LEMMA InitInv == Init => IInv
<1> SUFFICES ASSUME Init PROVE IInv
  OBVIOUS
<1>1. ASSUME NEW f \in Flows PROVE RecInv(flow[f])
  <2>1. PICK k \in Kinds, h \in Hellos : flow[f] = Fresh(k, h)
    BY DEF Init
  <2>2. flow[f].kind # "https" => flow[f].hello = "none"
    BY DEF Init
  <2>3. k \in PortKinds /\ (k # "https" => h = "none") /\ 0 \in 0..MaxUnits /\ 0 \in 0..MaxAge
    BY <2>1, <2>2, ConstantsAssumption DEF Fresh, MaxAge
  <2>4. flow[f] \in FlowRec
    BY <2>1, <2>3 DEF Fresh, FlowRec, Socks, Segments, Splices, Bytes
  <2> QED
    BY <2>1, <2>3, <2>4 DEF Fresh, RecInv, Down, Deferred, Held, Gated, Closing
<1>2. flow \in [Flows -> FlowRec]
  BY <1>1 DEF Init, RecInv
<1>3. /\ mode \in {"Off", "Block", "Filter"} /\ ca \in BOOLEAN
      /\ proxy \in {"none", "http", "socks", "broken"}
      /\ inspect \subseteq Flows /\ blocked \subseteq Flows
      /\ servicing \in BOOLEAN /\ todo \subseteq Flows
      /\ answer \in {"none", "rst", "silent"}
  <2>1. inspect = {} /\ blocked = {} /\ todo = {} /\ servicing = FALSE /\ answer = "none"
    BY DEF Init
  <2>2. mode \in {"Off", "Block", "Filter"} /\ proxy \in {"none", "http", "socks", "broken"}
    BY DEF Init
  <2>3. ca \in BOOLEAN
    BY DEF Init
  <2> QED
    BY <2>1, <2>2, <2>3
<1>4. cmds \in 0..MaxCommands
  BY ConstantsAssumption DEF Init
<1> QED
  BY <1>1, <1>2, <1>3, <1>4 DEF IInv, TypeOK

\* One flow changes, to a record that keeps its invariant.
LEMMA OneFlowKeeps ==
    ASSUME IInv, NEW f \in Flows, NEW r, RecInv(r), proxy' = proxy,
           flow' = [flow EXCEPT ![f] = r]
    PROVE  /\ flow' \in [Flows -> FlowRec]
           /\ \A g \in Flows : RecInv(flow[g])'
<1>1. r \in FlowRec /\ flow \in [Flows -> FlowRec]
  BY DEF IInv, TypeOK, RecInv
<1>2. flow' \in [Flows -> FlowRec]
  BY <1>1
<1>3. ASSUME NEW g \in Flows PROVE RecInv(flow[g])'
  <2>1. RecInv(flow'[g])
    BY <1>1 DEF IInv
  <2> QED
    BY <2>1 DEF RecInv, Down, Deferred, Held, Gated, Closing, Tunnelling
<1> QED
  BY <1>2, <1>3

\* All flows change.
LEMMA AllFlowsKeep ==
    ASSUME proxy' = proxy, NEW d, flow' = [f \in Flows |-> d[f]],
           \A f \in Flows : RecInv(d[f])
    PROVE  /\ flow' \in [Flows -> FlowRec]
           /\ \A g \in Flows : RecInv(flow[g])'
<1>1. flow' \in [Flows -> FlowRec]
  BY DEF RecInv
<1>2. ASSUME NEW g \in Flows PROVE RecInv(flow[g])'
  <2>1. RecInv(flow'[g])
    OBVIOUS
  <2> QED
    BY <2>1 DEF RecInv, Down, Deferred, Held, Gated, Closing, Tunnelling
<1> QED
  BY <1>1, <1>2

\* A step that leaves the flows alone keeps their part.
LEMMA SameFlowsKeep ==
    ASSUME IInv, flow' = flow, proxy' = proxy
    PROVE  /\ flow' \in [Flows -> FlowRec]
           /\ \A g \in Flows : RecInv(flow[g])'
  BY DEF IInv, TypeOK, RecInv, Down, Deferred, Held, Gated, Closing, Tunnelling

\* The connect that completes clears connecting only.
LEMMA ConnectedKeeps ==
    ASSUME NEW r, RecInv(r), r.up
    PROVE  LET c == [r EXCEPT !.connecting = FALSE] IN RecInv(c) /\ c.up /\ ~c.connecting
<1> DEFINE c == [r EXCEPT !.connecting = FALSE]
<1>1. c \in FlowRec
  BY DEF RecInv, FlowRec
<1> QED
  BY <1>1 DEF RecInv, FlowRec, Down, Deferred, Held, Gated, Closing

\* A packet queued for a socket touches its queue and what the app has sent.
LEMMA PacketKeeps ==
    ASSUME NEW r, RecInv(r), r.sock # "none", NEW seg \in Segments, NEW n \in 0..MaxUnits
    PROVE  RecInv([r EXCEPT !.inq = seg, !.sent = n])
<1> DEFINE c == [r EXCEPT !.inq = seg, !.sent = n]
<1>1. c \in FlowRec
  BY DEF RecInv, FlowRec
<1> QED
  BY <1>1 DEF RecInv, FlowRec, Down, Deferred, Held, Gated, Closing

\* The inductive step, one case per action.
LEMMA StepInv == IInv /\ [Next]_vars => IInv'
<1> SUFFICES ASSUME IInv, [Next]_vars PROVE IInv'
  OBVIOUS
<1> USE DEF IInv
<1>1. ASSUME NEW f \in Flows, OnSyn(f) PROVE IInv'
  <2>1. CASE UNCHANGED flow
    BY <1>1, <2>1, SameFlowsKeep DEF OnSyn, TypeOK
  <2>2. CASE flow' # flow
    <3>1. PICK r \in open_tcp(f, [flow[f] EXCEPT !.sock = "Listen", !.inq = "syn",
                                     !.opened = TRUE, !.filtered = mode = "Filter"]) :
            flow' = [flow EXCEPT ![f] = r]
      BY <1>1, <2>2 DEF OnSyn
    <3>2. RecInv(r)
      BY <1>1, <3>1, OpenTcpKeeps DEF OnSyn, TypeOK
    <3>3. proxy' = proxy
      BY <1>1 DEF OnSyn
    <3>4. flow' \in [Flows -> FlowRec] /\ \A g \in Flows : RecInv(flow[g])'
      BY <3>1, <3>2, <3>3, OneFlowKeeps
    <3> QED
      BY <1>1, <3>4 DEF OnSyn, TypeOK
  <2> QED
    BY <2>1, <2>2
<1>2. ASSUME NEW f \in Flows, OnReady(f) PROVE IInv'
  <2>1. PICK r \in IF flow[f].connecting
                   THEN {tcp_abort([flow[f] EXCEPT !.connecting = FALSE])}
                        \cup ready([flow[f] EXCEPT !.connecting = FALSE])
                   ELSE ready(flow[f]) : flow' = [flow EXCEPT ![f] = r]
    BY <1>2 DEF OnReady
  <2>2. flow[f].up /\ proxy' = proxy /\ RecInv(flow[f])
    BY <1>2 DEF OnReady
  <2>3. RecInv(r)
    <3>1. CASE ~flow[f].connecting
      BY <2>1, <2>2, <3>1, ReadyKeeps
    <3>2. CASE flow[f].connecting
      <4> DEFINE c == [flow[f] EXCEPT !.connecting = FALSE]
      <4>1. RecInv(c) /\ c.up /\ ~c.connecting
        BY <2>2, ConnectedKeeps
      <4> HIDE DEF c
      <4>2. r = tcp_abort(c) \/ r \in ready(c)
        BY <2>1, <3>2 DEF c
      <4> QED
        BY <4>1, <4>2, ReadyKeeps, AbortKeeps, OpenWhileUp
    <3> QED
      BY <3>1, <3>2
  <2>4. flow' \in [Flows -> FlowRec] /\ \A g \in Flows : RecInv(flow[g])'
    BY <2>1, <2>2, <2>3, OneFlowKeeps
  <2> QED
    BY <1>2, <2>4 DEF OnReady, TypeOK
<1>3. ASSUME NEW f \in Flows, Relay(f) PROVE IInv'
  <2>1. PICK r \in relay(f, flow[f]) : flow' = [flow EXCEPT ![f] = r]
    BY <1>3 DEF Relay
  <2>2. proxy' = proxy /\ RecInv(r)
    BY <1>3, <2>1, RelayKeeps DEF Relay
  <2>3. flow' \in [Flows -> FlowRec] /\ \A g \in Flows : RecInv(flow[g])'
    BY <2>1, <2>2, OneFlowKeeps
  <2> QED
    BY <1>3, <2>3 DEF Relay, TypeOK
<1>4. ASSUME NEW f \in Flows, NEW seg \in Segments, OnPacket(f, seg) PROVE IInv'
  <2>1. CASE UNCHANGED flow
    BY <1>4, <2>1, SameFlowsKeep DEF OnPacket, TypeOK
  <2>2. CASE flow' # flow
    <3> DEFINE n == IF seg \in {"data", "datafin"} THEN flow[f].sent + 1 ELSE flow[f].sent
               r == [flow[f] EXCEPT !.inq = seg, !.sent = n]
    <3>1. flow' = [flow EXCEPT ![f] = r]
      BY <1>4, <2>2 DEF OnPacket, TypeOK
    <3>2. n \in 0..MaxUnits
      BY <1>4, ConstantsAssumption DEF OnPacket, MaySend, RecInv, FlowRec
    <3>3. flow[f].sock # "none"
      BY <1>4 DEF OnPacket, MaySend
    <3> HIDE DEF n
    <3>5. RecInv(r)
      BY <3>2, <3>3, PacketKeeps
    <3>6. proxy' = proxy
      BY <1>4 DEF OnPacket
    <3> HIDE DEF r
    <3>7. flow' \in [Flows -> FlowRec] /\ \A g \in Flows : RecInv(flow[g])'
      BY <3>1, <3>5, <3>6, OneFlowKeeps
    <3> QED
      BY <1>4, <3>7 DEF OnPacket, TypeOK
  <2> QED
    BY <2>1, <2>2
<1>5. ASSUME NEW m \in {"Off", "Block", "Filter"}, set_encrypted_dns_mode(m) PROVE IInv'
  <2>1. cmds' \in 0..MaxCommands
    BY <1>5, ConstantsAssumption DEF set_encrypted_dns_mode, Command, TypeOK
  <2>2. flow' \in [Flows -> FlowRec] /\ \A g \in Flows : RecInv(flow[g])'
    BY <1>5, SameFlowsKeep DEF set_encrypted_dns_mode, Command
  <2> QED
    BY <1>5, <2>1, <2>2 DEF set_encrypted_dns_mode, Command, TypeOK
<1>6. ASSUME NEW i \in SUBSET Flows, NEW b \in SUBSET Flows, set_firewall(i, b) PROVE IInv'
  <2>1. cmds' \in 0..MaxCommands
    BY <1>6, ConstantsAssumption DEF set_firewall, Command, TypeOK
  <2>2. flow' \in [Flows -> FlowRec] /\ \A g \in Flows : RecInv(flow[g])'
    BY <1>6, SameFlowsKeep DEF set_firewall, Command
  <2> QED
    BY <1>6, <2>1, <2>2 DEF set_firewall, Command, TypeOK
<1>7. CASE ServiceStart
  <2> DEFINE d == [f \in Flows |-> Delivered(flow[f])]
             gone == {f \in Live : d[f].sock = "Closed"}
             e == [f \in Flows |-> IF f \in gone THEN Removed(d[f]) ELSE d[f]]
  <2>1. flow' = e /\ todo' = Live \ gone /\ proxy' = proxy
    BY <1>7 DEF ServiceStart
  <2>2. ASSUME NEW f \in Flows PROVE RecInv(e[f])
    <3>1. RecInv(d[f])
      BY DeliveredKeeps
    <3>2. f \in gone => d[f].sock = "Closed"
      OBVIOUS
    <3> HIDE DEF d, gone
    <3> QED
      BY <3>1, <3>2, RemovedKeeps
  <2>3. flow' = [f \in Flows |-> e[f]] /\ todo' \subseteq Flows
    BY <2>1 DEF Live
  <2> HIDE DEF e
  <2>4. flow' \in [Flows -> FlowRec] /\ \A g \in Flows : RecInv(flow[g])'
    BY <2>1, <2>2, <2>3, AllFlowsKeep
  <2> QED
    BY <1>7, <2>3, <2>4 DEF ServiceStart, TypeOK
<1>8. CASE ServiceEnd
  <2> DEFINE e == [f \in Flows |-> reap_pending_sni(reap_proxy_handshakes(flow[f]))]
  <2>1. flow' = [f \in Flows |-> e[f]] /\ proxy' = proxy
    BY <1>8 DEF ServiceEnd
  <2>2. \A f \in Flows : RecInv(e[f])
    BY ReapKeeps
  <2> HIDE DEF e
  <2>3. flow' \in [Flows -> FlowRec] /\ \A g \in Flows : RecInv(flow[g])'
    BY <2>1, <2>2, AllFlowsKeep
  <2> QED
    BY <1>8, <2>3 DEF ServiceEnd, TypeOK
<1>9. CASE Tick
  <2> DEFINE e == [f \in Flows |-> IF flow[f].up /\ flow[f].age < MaxAge
                                  THEN [flow[f] EXCEPT !.age = flow[f].age + 1] ELSE flow[f]]
  <2>1. flow' = [f \in Flows |-> e[f]] /\ proxy' = proxy
    BY <1>9 DEF Tick
  <2>2. ASSUME NEW f \in Flows PROVE RecInv(e[f])
    <3>1. CASE e[f] = flow[f]
      BY <3>1
    <3>2. CASE e[f] # flow[f]
      <4>1. flow[f].age < MaxAge /\ e[f] = [flow[f] EXCEPT !.age = flow[f].age + 1]
        BY <3>2
      <4>2. flow[f].age + 1 \in 0..MaxAge
        BY <4>1, ConstantsAssumption DEF RecInv, FlowRec, MaxAge
      <4>3. e[f] \in FlowRec
        BY <4>1, <4>2 DEF RecInv, FlowRec
      <4> HIDE DEF e
      <4> QED
        BY <4>1, <4>3 DEF RecInv, FlowRec, Down, Deferred, Held, Gated, Closing
    <3> QED
      BY <3>1, <3>2
  <2> HIDE DEF e
  <2>3. flow' \in [Flows -> FlowRec] /\ \A g \in Flows : RecInv(flow[g])'
    BY <2>1, <2>2, AllFlowsKeep
  <2> QED
    BY <1>9, <2>3 DEF Tick, TypeOK
<1>10. CASE UNCHANGED vars
  BY <1>10, SameFlowsKeep DEF vars, TypeOK
<1> QED
  BY <1>1, <1>2, <1>3, <1>4, <1>5, <1>6, <1>7, <1>8, <1>9, <1>10 DEF Next

\* Whatever apps, proxies and servers do, and however the service loop, the readiness
\* events and the commands interleave, every flow keeps its invariant.
THEOREM Inductive == Spec => []IInv
<1> QED
  BY InitInv, StepInv, PTL DEF Spec

-----------------------------------------------------------------------------
\* The flow records keep their types, and the SNI buffer its cap.
THEOREM TypeCorrect == Spec => []TypeOK
<1>1. IInv => TypeOK
  BY DEF IInv
<1> QED
  BY <1>1, Inductive, PTL

\* Encrypted DNS fails closed: no byte of a filtered DoT or DoH flow goes
\* upstream raw, whatever happens to mode, rules, CA and pins in between.
THEOREM FailsClosed == Spec => []NoUnfilteredDns
<1>1. IInv => NoUnfilteredDns
  BY DEF IInv, RecInv, Held, NoUnfilteredDns
<1> QED
  BY <1>1, Inductive, PTL

\* With a proxy, nothing of an app is sent before the tunnel is granted.
THEOREM TunnelComesFirst == Spec => []TunnelFirst
<1>1. IInv => TunnelFirst
  BY DEF IInv, RecInv, Gated, Tunnelling, TunnelFirst
<1> QED
  BY <1>1, Inductive, PTL

\* Every way a flow loses its upstream closes the app's socket, and none leaves
\* an upstream behind.
THEOREM NoneOrphaned == Spec => []NoOrphans
<1>1. IInv => NoOrphans
  BY DEF IInv, RecInv, Down, NoOrphans
<1> QED
  BY <1>1, Inductive, PTL

\* Nothing of a flow whose SNI is awaited is on its way.
THEOREM PendingHolds == Spec => []PendingHoldsBack
<1>1. IInv => PendingHoldsBack
  BY DEF IInv, RecInv, Deferred, PendingHoldsBack
<1> QED
  BY <1>1, Inductive, PTL

\* The half-close reaches the upstream after all the app sent did.
THEOREM HalfCloseLast == Spec => []HalfCloseDrained
<1>1. IInv => HalfCloseDrained
  BY DEF IInv, RecInv, Closing, HalfCloseDrained
<1> QED
  BY <1>1, Inductive, PTL

-----------------------------------------------------------------------------
(* Pins: which step may splice a flow, and of which pair *)

\* A flow that is torn down or aborted, or whose packet is delivered, is not spliced.
LEMMA UnsplicedStays ==
    ASSUME NEW r \in FlowRec, r.mitm = "none"
    PROVE  /\ tcp_abort(r).mitm = "none" /\ tcp_close_app(r).mitm = "none"
           /\ teardown_tcp(r).mitm = "none" /\ fail_proxy(r).mitm = "none"
           /\ Take(r).mitm = "none" /\ half_close(r).mitm = "none"
           /\ AbandonedPending(r).mitm = "none" /\ Delivered(r).mitm = "none"
<1>1. tcp_abort(r).mitm = "none" /\ tcp_close_app(r).mitm = "none" /\ Take(r).mitm = "none"
  BY DEF tcp_abort, tcp_close_app, Take, FlowRec
<1>2. teardown_tcp(r).mitm = "none"
  BY DEF teardown_tcp, FlowRec
<1>3. tcp_abort(r) = [r EXCEPT !.sock = "Closed"] /\ "Closed" \in Socks
  BY DEF tcp_abort, Socks
<1>4. tcp_abort(r) \in FlowRec
  BY <1>3 DEF FlowRec
<1>5. fail_proxy(r).mitm = "none"
  BY <1>4 DEF fail_proxy, teardown_tcp, FlowRec
<1>6. half_close(r).mitm = "none"
  BY DEF half_close, FlowRec
<1>7. AbandonedPending(r).mitm = "none"
  BY <1>1 DEF AbandonedPending
<1>8. Delivered(r).mitm = "none"
  BY DEF Delivered, FlowRec
<1> QED
  BY <1>1, <1>2, <1>5, <1>6, <1>7, <1>8

\* Neither the proxy handshake nor the half-close splices a flow.
LEMMA DriveProxyHandshakeUnspliced ==
    ASSUME NEW r \in FlowRec, r.mitm = "none", NEW y \in drive_proxy_handshake(r)
    PROVE  y.mitm = "none"
<1>1. CASE y \in {r, [r EXCEPT !.handshake = FALSE, !.tunnelled = TRUE]}
  BY <1>1 DEF FlowRec
<1>2. CASE y = fail_proxy(r)
  BY <1>2, UnsplicedStays
<1>3. CASE y = fail_proxy([r EXCEPT !.refused80 = TRUE])
  <2> DEFINE w == [r EXCEPT !.refused80 = TRUE]
  <2>1. w \in FlowRec /\ w.mitm = "none"
    BY DEF FlowRec
  <2> HIDE DEF w
  <2> QED
    BY <1>3, <2>1, UnsplicedStays DEF w
<1> QED
  BY <1>1, <1>2, <1>3 DEF drive_proxy_handshake

LEMMA FlushAndHalfCloseUnspliced ==
    ASSUME NEW x, RecInv(x), x.mitm = "none", NEW y \in FlushAndHalfClose({x})
    PROVE  y.mitm = "none"
<1>1. PICK z \in flush_to_upstream(x) : y = half_close(z)
  BY DEF FlushAndHalfClose
<1>2. z \in FlowRec /\ z.mitm = "none"
  BY FlushKeeps DEF RecInv, Same
<1> QED
  BY <1>1, <1>2, UnsplicedStays

\* A deferred flow of a pinned pair is dropped or relayed.
LEMMA ClassifyUnspliced ==
    ASSUME NEW f, Pinned(f), NEW r, RecInv(r), r.up, r.pending, ~r.connecting, ~r.handshake,
           NEW y \in classify_pending(f, Buffered(r))
    PROVE  y.mitm = "none"
<1> DEFINE t == Settled(Buffered(r))
<1>1. t \in FlowRec /\ t.mitm = "none"
  BY SettledFlow
<1>2. Buffered(r).mitm = "none"
  BY DEF Buffered, Take, RecInv, FlowRec, Deferred
<1>3. \/ y = Buffered(r) \/ y = Dropped(t)
      \/ y = [t EXCEPT !.queue = Buffered(r).queue \cup {"raw"}]
  BY DEF classify_pending, can_intercept_enc_dns
<1> HIDE DEF t
<1>4. Dropped(t).mitm = "none"
  BY <1>1, UnsplicedStays DEF Dropped, fail_proxy
<1>5. [t EXCEPT !.queue = Buffered(r).queue \cup {"raw"}].mitm = "none"
  BY <1>1 DEF FlowRec
<1> QED
  BY <1>2, <1>3, <1>4, <1>5

\* service() leaves a pinned flow without a splice.
LEMMA RelayUnspliced ==
    ASSUME NEW f, Pinned(f), NEW r, RecInv(r), r.mitm = "none", NEW y \in relay(f, r)
    PROVE  y.mitm = "none"
<1>0. r \in FlowRec /\ RecInv(Take(r)) /\ Take(r).mitm = "none" /\ Take(r) \in FlowRec
  BY TakeKeeps DEF RecInv, Same
<1>1. CASE ~r.up \/ r.connecting
  BY <1>0, <1>1 DEF relay
<1>2. CASE r.up /\ ~r.connecting /\ r.handshake
  BY <1>0, <1>2, DriveProxyHandshakeUnspliced DEF relay
<1>3. CASE r.up /\ ~r.connecting /\ ~r.handshake /\ r.pending
  <2>1. PICK c \in classify_pending(f, Buffered(r)) :
          \E x \in flush_to_upstream(c) : y = AbandonedPending(x)
    BY <1>3 DEF relay
  <2>2. PICK x \in flush_to_upstream(c) : y = AbandonedPending(x)
    BY <2>1
  <2>3. RecInv(c) /\ c.mitm = "none"
    BY <1>3, ClassifyKeeps, ClassifyUnspliced
  <2>4. x \in FlowRec /\ x.mitm = "none"
    BY <2>3, FlushKeeps DEF RecInv, Same
  <2> QED
    BY <2>2, <2>4, UnsplicedStays
<1>4. CASE r.up /\ ~r.connecting /\ ~r.handshake /\ ~r.pending
  <2>1. CASE y = fail_proxy(Take(r))
    BY <1>0, <2>1, UnsplicedStays
  <2>2. ASSUME NEW b \in {"raw", "abs"}, b = "raw" => ~r.fwd, r.rx > 0,
               y \in FlushAndHalfClose({[Take(r) EXCEPT !.queue = r.queue \cup {b}]})
        PROVE  y.mitm = "none"
    <3> DEFINE q == [Take(r) EXCEPT !.queue = r.queue \cup {b}]
    <3>1. RecInv(q)
      BY <1>4, <2>2, QueueKeeps
    <3>2. q.mitm = "none"
      BY <1>0 DEF FlowRec
    <3> HIDE DEF q
    <3> QED
      BY <2>2, <3>1, <3>2, FlushAndHalfCloseUnspliced DEF q
  <2>3. CASE y \in FlushAndHalfClose({r})
    BY <2>3, FlushAndHalfCloseUnspliced
  <2> QED
    BY <1>4, <2>1, <2>2, <2>3 DEF relay
<1> QED
  BY <1>1, <1>2, <1>3, <1>4 DEF RecInv, FlowRec

\* on_ready never starts a splice.
LEMMA ReadyUnspliced ==
    ASSUME NEW r, RecInv(r), r.mitm = "none", NEW y \in ready(r)
    PROVE  y.mitm = "none"
<1>0. r \in FlowRec
  BY DEF RecInv
<1>1. CASE r.handshake
  BY <1>0, <1>1, DriveProxyHandshakeUnspliced DEF ready
<1>2. CASE ~r.handshake
  <2>1. \A x \in flush_to_upstream(r) : x \in FlowRec /\ x.mitm = "none"
    BY FlushKeeps DEF RecInv, Same
  <2>2. PICK x \in flush_to_upstream(r) : y \in {x, tcp_close_app(x), tcp_abort(x)}
    BY <1>2, <2>1 DEF ready
  <2> QED
    BY <2>1, <2>2, UnsplicedStays
<1> QED
  BY <1>1, <1>2

\* A flow of a pinned pair is opened without a splice, or refused.
LEMMA OpenUnspliced ==
    ASSUME NEW f, Pinned(f), NEW r \in FlowRec, r.mitm = "none", NEW y \in open_tcp(f, r)
    PROVE  y.mitm = "none"
<1>1. new_mitm_if_intercepting(f) = {"none"}
  BY DEF new_mitm_if_intercepting, can_intercept_enc_dns
<1>2. CASE y = tcp_abort(r)
  BY <1>2, UnsplicedStays
<1>3. CASE y # tcp_abort(r)
  <2> DEFINE defer == mode = "Filter" /\ r.kind = "https"
             fwd == http_forward_80 /\ r.kind = "http" /\ proxy = "http"
             hs == proxy \in {"http", "socks"} /\ ~fwd
  <2>1. \E m \in {x \in IF defer THEN {"none"} ELSE new_mitm_if_intercepting(f) :
                      ~requires_enc_dns_intercept(f) \/ x # "none"} :
          y = [r EXCEPT !.up = TRUE, !.connecting = TRUE, !.mitm = m, !.pending = defer,
                        !.fwd = fwd, !.handshake = hs]
    BY <1>3, ZenonT(30) DEF open_tcp
  <2> HIDE DEF defer, fwd, hs
  <2>2. y = [r EXCEPT !.up = TRUE, !.connecting = TRUE, !.mitm = "none", !.pending = defer,
                      !.fwd = fwd, !.handshake = hs]
    BY <1>1, <2>1
  <2> QED
    BY <2>2 DEF FlowRec
<1> QED
  BY <1>2, <1>3

\* Every step, for one flow.
LEMMA StepUnspliced ==
    ASSUME IInv, [Next]_vars, NEW f \in Flows, Pinned(f), flow[f].mitm = "none"
    PROVE  flow'[f].mitm = "none"
<1>0. flow \in [Flows -> FlowRec] /\ RecInv(flow[f]) /\ flow[f] \in FlowRec
  BY DEF IInv, TypeOK
<1>1. ASSUME NEW g \in Flows, OnSyn(g) PROVE flow'[f].mitm = "none"
  <2>1. CASE UNCHANGED flow \/ g # f
    BY <1>0, <1>1, <2>1 DEF OnSyn
  <2>2. CASE ~(UNCHANGED flow) /\ g = f
    <3> DEFINE r == [flow[f] EXCEPT !.sock = "Listen", !.inq = "syn",
                                    !.opened = TRUE, !.filtered = mode = "Filter"]
    <3>1. PICK y \in open_tcp(f, r) : flow' = [flow EXCEPT ![f] = y]
      BY <1>1, <2>2 DEF OnSyn
    <3>2. r \in FlowRec /\ r.mitm = "none"
      BY <1>0, ZenonT(40) DEF FlowRec, Socks, Segments
    <3> HIDE DEF r
    <3>3. y.mitm = "none"
      BY <3>2, OpenUnspliced
    <3> QED
      BY <1>0, <3>1, <3>3
  <2> QED
    BY <2>1, <2>2
<1>2. ASSUME NEW g \in Flows, OnReady(g) PROVE flow'[f].mitm = "none"
  <2>1. PICK y \in IF flow[g].connecting
                   THEN {tcp_abort([flow[g] EXCEPT !.connecting = FALSE])}
                        \cup ready([flow[g] EXCEPT !.connecting = FALSE])
                   ELSE ready(flow[g]) : flow' = [flow EXCEPT ![g] = y]
    BY <1>2 DEF OnReady
  <2>2. CASE g # f
    BY <1>0, <2>1, <2>2
  <2>3. CASE g = f
    <3> DEFINE c == [flow[f] EXCEPT !.connecting = FALSE]
    <3>1. RecInv(c) /\ c.mitm = "none" /\ c \in FlowRec
      BY <1>0, <1>2, <2>3, ConnectedKeeps, ZenonT(40) DEF OnReady, RecInv, FlowRec
    <3>2. y = tcp_abort(c) \/ y \in ready(c) \/ y \in ready(flow[f])
      BY <2>1, <2>3
    <3> HIDE DEF c
    <3>3. y.mitm = "none"
      BY <1>0, <3>1, <3>2, ReadyUnspliced, UnsplicedStays
    <3> QED
      BY <1>0, <2>1, <2>3, <3>3
  <2> QED
    BY <2>2, <2>3
<1>3. ASSUME NEW g \in Flows, Relay(g) PROVE flow'[f].mitm = "none"
  <2>1. PICK y \in relay(g, flow[g]) : flow' = [flow EXCEPT ![g] = y]
    BY <1>3 DEF Relay
  <2>2. g = f => y.mitm = "none"
    BY <1>0, <2>1, RelayUnspliced
  <2> QED
    BY <1>0, <2>1, <2>2
<1>4. ASSUME NEW g \in Flows, NEW seg \in Segments, OnPacket(g, seg)
      PROVE  flow'[f].mitm = "none"
  BY <1>0, <1>4 DEF OnPacket, FlowRec
<1>5. CASE ServiceStart
  <2> DEFINE d == [h \in Flows |-> Delivered(flow[h])]
             gone == {h \in Live : d[h].sock = "Closed"}
  <2>1. flow' = [h \in Flows |-> IF h \in gone THEN Removed(d[h]) ELSE d[h]]
    BY <1>5 DEF ServiceStart
  <2>2. d[f].mitm = "none" /\ d[f] \in FlowRec
    BY <1>0, DeliveredKeeps, UnsplicedStays DEF RecInv
  <2> HIDE DEF d, gone
  <2>3. Removed(d[f]).mitm = "none"
    BY <2>2 DEF Removed, teardown_tcp, FlowRec
  <2> QED
    BY <2>1, <2>2, <2>3
<1>6. CASE ServiceEnd
  <2> DEFINE x == reap_proxy_handshakes(flow[f])
  <2>1. flow'[f] = reap_pending_sni(x)
    BY <1>6 DEF ServiceEnd
  <2>2. x = flow[f] \/ x = fail_proxy(flow[f])
    BY DEF reap_proxy_handshakes
  <2>3. x \in FlowRec /\ x.mitm = "none"
    <3>1. CASE x = flow[f]
      BY <1>0, <3>1
    <3>2. CASE x # flow[f]
      <4>1. x = fail_proxy(flow[f]) /\ flow[f].up
        BY <3>2 DEF reap_proxy_handshakes
      <4> QED
        BY <1>0, <4>1, FailProxyKeeps, UnsplicedStays DEF RecInv
    <3> QED
      BY <3>1, <3>2
  <2> HIDE DEF x
  <2> QED
    BY <2>1, <2>3, UnsplicedStays DEF reap_pending_sni
<1>7. CASE Tick
  BY <1>0, <1>7 DEF Tick, FlowRec
<1>8. CASE UNCHANGED flow
  BY <1>8
<1> QED
  BY <1>1, <1>2, <1>3, <1>4, <1>5, <1>6, <1>7, <1>8
     DEF Next, vars, set_encrypted_dns_mode, set_firewall, Command

\* For any flows and any pin relation, a pair whose app has refused our leaf is never
\* spliced again: not a new flow of it in open_tcp, and not one in classify_pending that
\* was deferred before the refusal.
THEOREM PinsHold == Spec => PinnedNotSpliced
<1>1. IInv /\ [Next]_vars =>
        [\A f \in Flows : flow[f].mitm = "none" /\ flow'[f].mitm # "none" => ~Pinned(f)]_vars
  BY StepUnspliced
<1> QED
  BY <1>1, Inductive, PTL DEF Spec, PinnedNotSpliced
=============================================================================
