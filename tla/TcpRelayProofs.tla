--------------------------- MODULE TcpRelayProofs ---------------------------
(***************************************************************************)
(* Theorems about TcpRelay, for any number of segments and any buffers.    *)
(* What a handler does is an operator on the record Now, so the inductive  *)
(* invariant is a predicate on that record, kept by every operator.        *)
(***************************************************************************)
EXTENDS TcpRelay, SequenceTheorems, TLAPS

\* The states of a smoltcp socket past the app's FIN.
Finished == {"CloseWait", "LastAck", "Closing", "TimeWait"}

Rec == [sock : Socks, rx : Segs(MaxUp), tx : Segs(MaxDown), kernel : Segs(MaxDown),
        out : Segs(MaxUp), to_upstream : Segs(MaxUp), to_app : Segs(MaxDown),
        connecting : BOOLEAN, write_closed : BOOLEAN]

\* A record fits beside what the server has (w), what the app sent (s) and whether it
\* closed its side (f): its buffers are within their caps, what the app sent is on its
\* way in order, and our FIN follows an app's FIN with nothing left to send.
Fits(r, w, s, f) ==
    /\ r \in Rec /\ Len(r.out) <= OutCap /\ Len(r.tx) <= TxCap
    /\ r.sock \in Finished => f
    /\ r.sock # "Closed" => ((w \o r.out) \o r.to_upstream) \o r.rx = s
    /\ r.sock # "Closed" /\ r.write_closed => f /\ r.to_upstream = <<>> /\ r.rx = <<>>

IInv ==
    /\ TypeOK
    /\ inq => app_fin
    /\ Fits(Now, wire, sent, app_fin)

-----------------------------------------------------------------------------
(* Sequences *)

\* A write takes the front of a queue and leaves the rest.
LEMMA Split ==
    ASSUME NEW S, NEW s \in Seq(S), NEW n \in Nat, n <= Len(s)
    PROVE  /\ First(s, n) \in Seq(S) /\ Rest(s, n) \in Seq(S)
           /\ Len(First(s, n)) = n
           /\ First(s, n) \o Rest(s, n) = s
<1>1. Len(s) \in Nat /\ \A i \in 1..Len(s) : s[i] \in S
  BY LenProperties, ElementOfSeq
<1>2. First(s, n) \in Seq(S) /\ Len(First(s, n)) = n
  BY <1>1, SubSeqProperties DEF First
<1>3. Rest(s, n) \in Seq(S)
  <2>1. \A i \in (n + 1)..Len(s) : s[i] \in S
    BY <1>1
  <2> QED
    BY <1>1, <2>1, SubSeqProperties DEF Rest
<1>4. SubSeq(s, 1, n) \o SubSeq(s, n + 1, Len(s)) = SubSeq(s, 1, Len(s))
  <2>1. 1 \in 1..(Len(s) + 1) /\ n \in (1 - 1)..Len(s) /\ Len(s) \in n..Len(s)
    BY <1>1
  <2> QED
    BY <2>1, ConcatAdjacentSubSeq
<1> QED
  BY <1>2, <1>3, <1>4, SubSeqFull DEF First, Rest

\* What comes last in the last queue comes last in the whole.
LEMMA Appended ==
    ASSUME NEW S, NEW a \in Seq(S), NEW b \in Seq(S), NEW e \in S
    PROVE  a \o Append(b, e) = Append(a \o b, e)
OBVIOUS

-----------------------------------------------------------------------------
(* The operators on the record *)

LEMMA LeastProperties ==
    ASSUME NEW a \in Nat, NEW b \in Nat
    PROVE  Least(a, b) \in Nat /\ Least(a, b) <= a /\ Least(a, b) <= b
BY DEF Least

LEMMA AbortKeeps ==
    ASSUME NEW r, NEW w, NEW s, NEW f, Fits(r, w, s, f)
    PROVE  Fits(tcp_abort(r), w, s, f)
<1>1. <<>> \in Segs(MaxUp) /\ <<>> \in Segs(MaxDown) /\ Len(<<>>) = 0
  BY EmptySeq DEF Segs
<1> QED
  <2>1. tcp_abort(r) \in Rec /\ Len(tcp_abort(r).out) <= OutCap /\ tcp_abort(r).tx = <<>>
    BY <1>1 DEF Fits, Rec, tcp_abort, Socks
  <2>2. tcp_abort(r).sock = "Closed"
    BY DEF Fits, Rec, tcp_abort
  <2> QED
    BY <1>1, <2>1, <2>2, RelayAssumption DEF Fits, Finished

LEMMA CloseAppKeeps ==
    ASSUME NEW r, NEW w, NEW s, NEW f, Fits(r, w, s, f)
    PROVE  Fits(tcp_close_app(r), w, s, f)
<1> DEFINE c == CASE r.sock \in {"SynReceived", "Established"} -> "FinWait"
                  [] r.sock = "CloseWait" -> "LastAck"
                  [] OTHER -> r.sock
<1>1. /\ c \in Socks /\ (c = "Closed" <=> r.sock = "Closed")
      /\ c \in Finished => r.sock \in Finished
  BY DEF Fits, Rec, Socks, Finished
<1>2. tcp_close_app(r) = [r EXCEPT !.sock = c]
  BY DEF tcp_close_app
<1> HIDE DEF c
<1> QED
  BY <1>1, <1>2 DEF Fits, Rec

LEMMA HalfCloseKeeps ==
    ASSUME NEW r, NEW w, NEW s, NEW f, Fits(r, w, s, f)
    PROVE  Fits(half_close(r), w, s, f)
BY DEF Fits, Rec, half_close, tcp_app_finished, Finished

\* What is sent to the app fits into its socket's buffer.
LEMMA SendKeeps ==
    ASSUME NEW r, NEW w, NEW s, NEW f, Fits(r, w, s, f),
           NEW data \in Segs(MaxDown), Len(data) <= tcp_send_space(r)
    PROVE  /\ Fits(tcp_send_to_app(r, data), w, s, f)
           /\ tcp_send_to_app(r, data).kernel = r.kernel
           /\ tcp_send_to_app(r, data).to_app = r.to_app
<1>1. /\ r.tx \o data \in Segs(MaxDown)
      /\ Len(r.tx \o data) = Len(r.tx) + Len(data)
      /\ Len(r.tx) \in Nat /\ Len(data) \in Nat
  BY ConcatProperties, LenProperties DEF Fits, Rec, Segs
<1>2. Len(r.tx \o data) <= TxCap
  BY <1>1, RelayAssumption DEF tcp_send_space
<1> QED
  BY <1>1, <1>2 DEF Fits, Rec, tcp_send_to_app

\* The space toward the app is what the socket's buffer has left.
LEMMA SpaceProperties ==
    ASSUME NEW r, NEW w, NEW s, NEW f, Fits(r, w, s, f), NEW q \in Segs(MaxDown)
    PROVE  LET n == Least(Len(q), tcp_send_space(r))
           IN  /\ n \in Nat /\ n <= Len(q)
               /\ First(q, n) \in Segs(MaxDown) /\ Rest(q, n) \in Segs(MaxDown)
               /\ Len(First(q, n)) <= tcp_send_space(r)
<1> DEFINE n == Least(Len(q), tcp_send_space(r))
<1>1. Len(q) \in Nat /\ tcp_send_space(r) \in Nat
  <2>1. Len(q) \in Nat /\ Len(r.tx) \in Nat /\ Len(r.tx) <= TxCap
    BY LenProperties DEF Fits, Rec, Segs
  <2> QED
    BY <2>1, RelayAssumption DEF tcp_send_space
<1>2. n \in Nat /\ n <= Len(q) /\ n <= tcp_send_space(r)
  BY <1>1, LeastProperties
<1> HIDE DEF n
<1>3. First(q, n) \in Segs(MaxDown) /\ Rest(q, n) \in Segs(MaxDown) /\ Len(First(q, n)) = n
  BY <1>2, Split DEF Segs
<1> QED
  BY <1>2, <1>3 DEF n

LEMMA FlushAppKeeps ==
    ASSUME NEW r, NEW w, NEW s, NEW f, Fits(r, w, s, f)
    PROVE  Fits(flush_to_app(r), w, s, f)
<1> DEFINE n == Least(Len(r.to_app), tcp_send_space(r))
           b == tcp_send_to_app(r, First(r.to_app, n))
<1>1. r.to_app \in Segs(MaxDown)
  BY DEF Fits, Rec
<1>2. /\ First(r.to_app, n) \in Segs(MaxDown) /\ Rest(r.to_app, n) \in Segs(MaxDown)
      /\ Len(First(r.to_app, n)) <= tcp_send_space(r)
  BY <1>1, SpaceProperties
<1>3. Fits(b, w, s, f)
  BY <1>2, SendKeeps
<1>4. flush_to_app(r) = [b EXCEPT !.to_app = Rest(r.to_app, n)]
  BY DEF flush_to_app
<1> HIDE DEF b, n
<1> QED
  BY <1>2, <1>3, <1>4 DEF Fits, Rec

\* A write of any length keeps what is queued, in order.
LEMMA FlushUpKeeps ==
    ASSUME NEW r, NEW w \in Segs(MaxUp), NEW s, NEW f, Fits(r, w, s, f)
    PROVE  Fits(flush_to_upstream(r), w, s, f)
<1> DEFINE n == Least(Len(r.to_upstream), OutCap - Len(r.out))
           F == First(r.to_upstream, n)
           R == Rest(r.to_upstream, n)
<1>1. CASE r.connecting \/ r.to_upstream = <<>>
  BY <1>1 DEF flush_to_upstream
<1>2. CASE ~(r.connecting \/ r.to_upstream = <<>>) /\ reset
  BY <1>2, AbortKeeps DEF flush_to_upstream
<1>3. CASE ~(r.connecting \/ r.to_upstream = <<>>) /\ ~reset
  <2>1. /\ r.out \in Seq(1..MaxUp) /\ r.to_upstream \in Seq(1..MaxUp) /\ w \in Seq(1..MaxUp)
        /\ Len(r.out) \in Nat /\ Len(r.to_upstream) \in Nat /\ Len(r.out) <= OutCap
    BY LenProperties DEF Fits, Rec, Segs
  <2>2. OutCap - Len(r.out) \in Nat
    BY <2>1, RelayAssumption
  <2>3. n \in Nat /\ n <= Len(r.to_upstream) /\ n <= OutCap - Len(r.out)
    BY <2>1, <2>2, LeastProperties
  <2> HIDE DEF n
  <2>4. F \in Seq(1..MaxUp) /\ R \in Seq(1..MaxUp) /\ Len(F) = n /\ F \o R = r.to_upstream
    BY <2>1, <2>3, Split
  <2>5. flush_to_upstream(r) = [r EXCEPT !.out = r.out \o F, !.to_upstream = R]
    BY <1>3 DEF flush_to_upstream, n
  <2> HIDE DEF F, R
  <2>6. /\ r.out \o F \in Seq(1..MaxUp) /\ Len(r.out \o F) = Len(r.out) + n
        /\ (w \o (r.out \o F)) \o R = (w \o r.out) \o r.to_upstream
    <3>1. r.out \o F \in Seq(1..MaxUp) /\ Len(r.out \o F) = Len(r.out) + n
      BY <2>1, <2>4, ConcatProperties
    <3>2. PICK o \in Seq(1..MaxUp) : o = r.out
      BY <2>1
    <3>3. w \in Seq(1..MaxUp) /\ F \in Seq(1..MaxUp) /\ R \in Seq(1..MaxUp)
      BY <2>1, <2>4
    <3>4. (w \o (o \o F)) \o R = (w \o o) \o (F \o R)
      BY <3>3, SMTT(30)
    <3> QED
      BY <2>4, <3>1, <3>2, <3>4
  <2>7. Len(r.out \o F) <= OutCap
    BY <2>1, <2>3, <2>6, RelayAssumption
  <2>8. ~(r.sock # "Closed" /\ r.write_closed)
    BY <1>3 DEF Fits
  <2> QED
    BY <2>4, <2>5, <2>6, <2>7, <2>8 DEF Fits, Rec, Segs
<1> QED
  BY <1>1, <1>2, <1>3

LEMMA PumpKeeps ==
    ASSUME NEW r, NEW w, NEW s, NEW f, Fits(r, w, s, f)
    PROVE  Fits(pump(r), w, s, f)
<1>1. r.kernel \in Segs(MaxDown) /\ r.to_app \in Segs(MaxDown)
  BY DEF Fits, Rec
<1>2. Fits(pump_upstream_to_app(r), w, s, f)
  <2> DEFINE n == Least(Len(r.kernel), tcp_send_space(r))
             b == tcp_send_to_app(r, First(r.kernel, n))
             p == [b EXCEPT !.kernel = Rest(r.kernel, n)]
  <2>1. /\ First(r.kernel, n) \in Segs(MaxDown) /\ Rest(r.kernel, n) \in Segs(MaxDown)
        /\ Len(First(r.kernel, n)) <= tcp_send_space(r)
    BY <1>1, SpaceProperties
  <2>2. Fits(b, w, s, f)
    BY <2>1, SendKeeps
  <2>3. Fits(p, w, s, f)
    <3> HIDE DEF b, n
    <3> QED BY <2>1, <2>2 DEF Fits, Rec
  <2>4. pump_upstream_to_app(r) \in {tcp_abort(p), tcp_close_app(p), p}
    BY DEF pump_upstream_to_app
  <2> HIDE DEF p
  <2> QED
    BY <2>3, <2>4, AbortKeeps, CloseAppKeeps
<1>3. Fits(read_into_mitm(r), w, s, f)
  <2> DEFINE p == [r EXCEPT !.to_app = r.to_app \o r.kernel, !.kernel = <<>>]
  <2>1. r.to_app \o r.kernel \in Segs(MaxDown) /\ <<>> \in Segs(MaxDown)
    BY <1>1, ConcatProperties, EmptySeq DEF Segs
  <2>2. Fits(p, w, s, f)
    BY <2>1 DEF Fits, Rec
  <2> HIDE DEF p
  <2>3. read_into_mitm(r) \in {flush_to_app(r), flush_to_app(p)}
    BY DEF read_into_mitm, p
  <2> QED
    BY <2>2, <2>3, FlushAppKeeps
<1> QED
  BY <1>2, <1>3 DEF pump

\* service() takes what the app sent behind what is queued.
LEMMA TakenKeeps ==
    ASSUME NEW r, NEW w \in Segs(MaxUp), NEW s, NEW f, Fits(r, w, s, f)
    PROVE  Fits(Taken(r), w, s, f)
<1>1. PICK o \in Seq(1..MaxUp), q \in Seq(1..MaxUp), x \in Seq(1..MaxUp) :
        o = r.out /\ q = r.to_upstream /\ x = r.rx
  BY DEF Fits, Rec, Segs
<1>2. w \in Seq(1..MaxUp) /\ <<>> \in Seq(1..MaxUp)
  BY EmptySeq DEF Segs
<1>3. ((w \o o) \o (q \o x)) \o <<>> = ((w \o o) \o q) \o x
  BY <1>2
<1>4. q \o x \in Seq(1..MaxUp) /\ (q = <<>> /\ x = <<>> => q \o x = <<>>)
  OBVIOUS
<1>5. Taken(r) = [r EXCEPT !.to_upstream = q \o x, !.rx = <<>>]
  BY <1>1 DEF Taken
<1> QED
  BY <1>1, <1>2, <1>3, <1>4, <1>5 DEF Fits, Rec, Segs

LEMMA RelayKeeps ==
    ASSUME NEW r, NEW w \in Segs(MaxUp), NEW s, NEW f, Fits(r, w, s, f), NEW n \in relay(r)
    PROVE  Fits(n, w, s, f)
<1>1. CASE r.connecting
  BY <1>1 DEF relay
<1>2. CASE ~r.connecting
  <2>1. n = half_close(flush_to_app(flush_to_upstream(Taken(r))))
    BY <1>2 DEF relay
  <2>2. Fits(flush_to_upstream(Taken(r)), w, s, f)
    BY TakenKeeps, FlushUpKeeps
  <2> QED
    BY <2>1, <2>2, FlushAppKeeps, HalfCloseKeeps
<1> QED
  BY <1>1, <1>2

LEMMA ReadyKeeps ==
    ASSUME NEW r, NEW w \in Segs(MaxUp), NEW s, NEW f, Fits(r, w, s, f), NEW n \in ready(r)
    PROVE  Fits(n, w, s, f)
<1> DEFINE c == [r EXCEPT !.connecting = FALSE]
<1>1. Fits(c, w, s, f)
  BY DEF Fits, Rec
<1> HIDE DEF c
<1>2. Fits(tcp_abort(c), w, s, f) /\ Fits(flush_to_upstream(c), w, s, f)
  BY <1>1, AbortKeeps, FlushUpKeeps
<1>3. CASE n = tcp_abort(c)
  BY <1>2, <1>3
<1>4. ASSUME NEW p, p \in {pump(flush_to_upstream(c)), flush_to_upstream(c)},
             n \in {tcp_close_app(pump(p)), p}
      PROVE  Fits(n, w, s, f)
  <2>1. Fits(p, w, s, f)
    BY <1>2, <1>4, PumpKeeps
  <2> QED
    BY <1>4, <2>1, PumpKeeps, CloseAppKeeps
<1>5. \/ n = tcp_abort(c)
      \/ \E p \in {pump(flush_to_upstream(c)), flush_to_upstream(c)} :
            n \in {tcp_close_app(pump(p)), p}
  BY DEF ready, c
<1> QED
  BY <1>3, <1>4, <1>5

\* The poll moves the socket on, and past the app's FIN only once it has come.
LEMMA DeliveredKeeps ==
    ASSUME NEW r, NEW w, NEW s, NEW f, Fits(r, w, s, f), inq => f
    PROVE  Fits([r EXCEPT !.sock = Delivered(r.sock)], w, s, f)
<1> DEFINE d == Delivered(r.sock)
<1>1. d \in Socks /\ (d # "Closed" => r.sock # "Closed")
      /\ (d \in Finished => r.sock \in Finished \/ inq)
  BY DEF Fits, Rec, Delivered, Socks, Finished
<1>2. d = Delivered(r.sock)
  OBVIOUS
<1> HIDE DEF d
<1> QED
  BY <1>1, <1>2 DEF Fits, Rec

-----------------------------------------------------------------------------
(* The steps *)

\* Writing a record back makes it the record of the next state.
LEMMA SetNow ==
    ASSUME NEW r \in Rec, Set(r)
    PROVE  Now' = r
BY DEF Rec, Set, Now

\* The types of what the record holds, from the record.
LEMMA TypesOfNow ==
    ASSUME Now \in Rec
    PROVE  /\ sock \in Socks /\ rx \in Segs(MaxUp) /\ tx \in Segs(MaxDown)
           /\ kernel \in Segs(MaxDown) /\ out \in Segs(MaxUp) /\ to_upstream \in Segs(MaxUp)
           /\ to_app \in Segs(MaxDown) /\ connecting \in BOOLEAN /\ write_closed \in BOOLEAN
BY DEF Now, Rec

LEMMA InvInit == Init => IInv
<1> SUFFICES ASSUME Init PROVE IInv
  OBVIOUS
<1>1. <<>> \in Seq(1..MaxUp) /\ <<>> \in Seq(1..MaxDown) /\ Len(<<>>) = 0
  BY EmptySeq
<1>2. ((<<>> \o <<>>) \o <<>>) \o <<>> = <<>>
  OBVIOUS
<1>3. TypeOK
  <2>1. {app_fin, inq, eof, up, connecting, write_closed, rdhup, reset, event} \subseteq BOOLEAN
    BY DEF Init
  <2> QED
    BY <1>1, <2>1, RelayAssumption DEF Init, TypeOK, Socks, Segs
<1>4. Now \in Rec
  BY <1>1 DEF Init, Now, Rec, Socks, Segs
<1>5. /\ Now.out = <<>> /\ Now.tx = <<>> /\ Now.rx = <<>> /\ Now.to_upstream = <<>>
      /\ Now.sock = "SynReceived" /\ Now.write_closed = FALSE
      /\ wire = <<>> /\ sent = <<>> /\ inq = FALSE
  BY DEF Init, Now
<1> QED
  BY <1>1, <1>2, <1>3, <1>4, <1>5, RelayAssumption DEF IInv, Fits, Finished

\* The handlers' steps.
LEMMA HandlerStep ==
    ASSUME IInv, Service \/ OnReady
    PROVE  Fits(Now', wire', sent', app_fin')
<1>1. /\ wire \in Segs(MaxUp) /\ UNCHANGED <<wire, sent, app_fin>>
      /\ Fits(Now, wire, sent, app_fin) /\ (inq => app_fin)
  BY DEF IInv, TypeOK, Service, OnReady, server, appvars
<1>2. ASSUME Service PROVE \E n : Fits(n, wire, sent, app_fin) /\ Set(n)
  <2> DEFINE s == Delivered(sock)
             r == [Now EXCEPT !.sock = s]
  <2>1. Now.sock = sock
    BY DEF Now
  <2>2. Fits(r, wire, sent, app_fin)
    BY <1>1, <2>1, DeliveredKeeps
  <2>3. PICK n \in IF s = "Closed" THEN {r} ELSE relay(r) : Set(n)
    BY <1>2 DEF Service
  <2> HIDE DEF r
  <2> QED
    BY <1>1, <2>2, <2>3, RelayKeeps
<1>3. ASSUME OnReady PROVE \E n : Fits(n, wire, sent, app_fin) /\ Set(n)
  <2>1. PICK n \in ready(Now) : Set(n)
    BY <1>3 DEF OnReady
  <2> QED
    BY <1>1, <2>1, ReadyKeeps
<1>4. PICK n : Fits(n, wire, sent, app_fin) /\ Set(n)
  BY <1>2, <1>3
<1>5. Now' = n
  BY <1>4, SetNow DEF Fits
<1> QED
  BY <1>1, <1>4, <1>5

\* The steps of the app, its kernel and the server.
LEMMA AppStep ==
    ASSUME IInv, AppAck \/ AppSend \/ AppFin \/ AppReceive
    PROVE  IInv'
<1> USE RelayAssumption DEF IInv, appside, appvars, upstream, server
<1>1. ASSUME AppAck PROVE IInv'
  BY <1>1 DEF AppAck, TypeOK, Fits, Now, Rec, Socks, Finished
<1>2. ASSUME AppFin PROVE IInv'
  BY <1>2 DEF AppFin, TypeOK, Fits, Now, Rec
<1>3. ASSUME AppReceive PROVE IInv'
  <2>1. CASE tx # <<>>
    <3>1. /\ Tail(tx) \in Segs(MaxDown) /\ Append(got, Head(tx)) \in Segs(MaxDown)
          /\ Len(Tail(tx)) <= TxCap
      <4>1. /\ tx \in Seq(1..MaxDown) /\ got \in Seq(1..MaxDown)
            /\ Len(tx) \in Nat /\ Len(tx) <= TxCap
        BY LenProperties DEF TypeOK, Segs
      <4>2. Tail(tx) \in Seq(1..MaxDown) /\ Len(Tail(tx)) = Len(tx) - 1 /\ Head(tx) \in 1..MaxDown
        BY <2>1, <4>1, HeadTailProperties
      <4>3. Append(got, Head(tx)) \in Seq(1..MaxDown)
        BY <4>1, <4>2, AppendProperties
      <4> QED
        BY <4>1, <4>2, <4>3 DEF Segs
    <3> QED
      BY <1>3, <2>1, <3>1 DEF AppReceive, TypeOK, Fits, Now, Rec
  <2>2. CASE tx = <<>>
    BY <1>3, <2>2 DEF AppReceive, TypeOK, Fits, Now, Rec
  <2> QED
    BY <2>1, <2>2
<1>4. ASSUME AppSend PROVE IInv'
  <2> DEFINE e == Len(sent) + 1
  <2>1. e \in 1..MaxUp /\ sent \in Seq(1..MaxUp) /\ rx \in Seq(1..MaxUp)
        /\ wire \in Seq(1..MaxUp) /\ out \in Seq(1..MaxUp) /\ to_upstream \in Seq(1..MaxUp)
    BY <1>4, LenProperties DEF AppSend, TypeOK, Segs
  <2>2. sent' = Append(sent, e) /\ rx' = Append(rx, e)
    BY <1>4 DEF AppSend
  <2> HIDE DEF e
  <2>3. Append(sent, e) \in Seq(1..MaxUp) /\ Append(rx, e) \in Seq(1..MaxUp)
    BY <2>1, AppendProperties
  <2>4. ((wire \o out) \o to_upstream) \o Append(rx, e)
          = Append(((wire \o out) \o to_upstream) \o rx, e)
    <3>1. PICK a \in Seq(1..MaxUp) : a = (wire \o out) \o to_upstream
      <4>1. wire \o out \in Seq(1..MaxUp)
        BY <2>1, ConcatProperties
      <4> QED
        BY <2>1, <4>1, ConcatProperties
    <3>2. a \o Append(rx, e) = Append(a \o rx, e)
      BY <2>1, Appended
    <3> QED
      BY <3>1, <3>2
  <2>5. ((wire \o out) \o to_upstream) \o rx = sent /\ ~write_closed /\ sock \notin Finished
    BY <1>4 DEF AppSend, Fits, Now, Finished
  <2>6. TypeOK'
    BY <1>4, <2>2, <2>3 DEF AppSend, TypeOK, Segs
  <2>7. Now' = [sock |-> sock, rx |-> Append(rx, e), tx |-> tx, kernel |-> kernel, out |-> out,
                to_upstream |-> to_upstream, to_app |-> to_app, connecting |-> connecting,
                write_closed |-> write_closed]
    <3>1. UNCHANGED <<sock, tx, kernel, out, to_upstream, to_app, connecting, write_closed>>
      BY <1>4 DEF AppSend
    <3> QED
      BY <2>2, <3>1, Zenon DEF Now
  <2> QED
    BY <1>4, <2>2, <2>3, <2>4, <2>5, <2>6, <2>7 DEF AppSend, Fits, Now, Rec, Segs
<1> QED
  BY <1>1, <1>2, <1>3, <1>4

LEMMA ServerStep ==
    ASSUME IInv, Connected \/ ServerSend \/ ServerClose \/ ServerReset \/ ServerReceive
    PROVE  IInv'
<1> USE RelayAssumption DEF IInv, appside, appvars, upstream, server
<1>1. ASSUME Connected \/ ServerClose \/ ServerReset PROVE IInv'
  <2>1. /\ UNCHANGED <<spliced, sock, inq, rx, tx, sent, app_fin, got, eof, up, connecting,
                        to_upstream, write_closed, to_app, wire, served, out, kernel>>
        /\ rdhup' \in BOOLEAN /\ reset' \in BOOLEAN /\ event' \in BOOLEAN
    BY <1>1 DEF Connected, ServerClose, ServerReset, TypeOK
  <2>2. Now' = Now
    BY <2>1 DEF Now
  <2> QED
    BY <2>1, <2>2 DEF TypeOK
<1>2. ASSUME ServerSend PROVE IInv'
  <2>1. Append(served, Len(served) + 1) \in Segs(MaxDown)
        /\ Append(kernel, Len(served) + 1) \in Segs(MaxDown)
    BY <1>2, LenProperties, AppendProperties DEF ServerSend, TypeOK, Segs
  <2> QED
    BY <1>2, <2>1 DEF ServerSend, TypeOK, Fits, Now, Rec
<1>3. ASSUME ServerReceive PROVE IInv'
  <2>1. wire \in Seq(1..MaxUp) /\ out \in Seq(1..MaxUp) /\ out # <<>>
    BY <1>3 DEF ServerReceive, TypeOK, Segs
  <2>2. /\ Append(wire, Head(out)) \in Seq(1..MaxUp) /\ Tail(out) \in Seq(1..MaxUp)
        /\ Len(Tail(out)) = Len(out) - 1 /\ Len(out) \in Nat
    BY <2>1, HeadTailProperties, AppendProperties, LenProperties
  <2>3. Append(wire, Head(out)) \o Tail(out) = wire \o out
    BY <2>1
  <2>4. Len(Tail(out)) <= OutCap
    BY <2>2 DEF TypeOK
  <2>5. TypeOK'
    BY <1>3, <2>2, <2>4 DEF ServerReceive, TypeOK, Segs
  <2>6. Now' = [sock |-> sock, rx |-> rx, tx |-> tx, kernel |-> kernel, out |-> Tail(out),
                to_upstream |-> to_upstream, to_app |-> to_app, connecting |-> connecting,
                write_closed |-> write_closed]
    <3>1. /\ UNCHANGED <<sock, rx, tx, kernel, to_upstream, to_app, connecting, write_closed>>
          /\ out' = Tail(out)
      BY <1>3 DEF ServerReceive
    <3> QED
      BY <3>1, Zenon DEF Now
  <2> QED
    BY <1>3, <2>2, <2>3, <2>4, <2>5, <2>6 DEF ServerReceive, Fits, Now, Rec, Segs
<1> QED
  BY <1>1, <1>2, <1>3

LEMMA InvStep == IInv /\ [Next]_vars => IInv'
<1> SUFFICES ASSUME IInv, [Next]_vars PROVE IInv'
  OBVIOUS
<1>1. CASE UNCHANGED vars
  BY <1>1 DEF vars, appside, appvars, upstream, server, IInv, TypeOK, Fits, Now
<1>2. CASE Service \/ OnReady
  <2>1. Fits(Now', wire', sent', app_fin')
    BY <1>2, HandlerStep
  <2>2. /\ sock' \in Socks /\ rx' \in Segs(MaxUp) /\ tx' \in Segs(MaxDown)
        /\ kernel' \in Segs(MaxDown) /\ out' \in Segs(MaxUp) /\ to_upstream' \in Segs(MaxUp)
        /\ to_app' \in Segs(MaxDown) /\ connecting' \in BOOLEAN /\ write_closed' \in BOOLEAN
        /\ Len(out') <= OutCap /\ Len(tx') <= TxCap
    BY <2>1 DEF Fits, Now, Rec
  <2>3. /\ UNCHANGED <<spliced, appvars, server>>
        /\ inq' \in BOOLEAN /\ (inq' => inq) /\ up' \in BOOLEAN /\ event' \in BOOLEAN
    <3>1. {inq, up, event} \subseteq BOOLEAN
      BY DEF IInv, TypeOK
    <3>2. CASE Service
      BY <3>1, <3>2 DEF Service
    <3>3. CASE OnReady
      BY <3>1, <3>3 DEF OnReady
    <3> QED
      BY <1>2, <3>2, <3>3
  <2> QED
    BY <2>1, <2>2, <2>3 DEF IInv, TypeOK, appvars, server
<1>3. CASE AppAck \/ AppSend \/ AppFin \/ AppReceive
  BY <1>3, AppStep
<1>4. CASE Connected \/ ServerSend \/ ServerClose \/ ServerReset \/ ServerReceive
  BY <1>4, ServerStep
<1>5. CASE Done
  BY <1>1, <1>5 DEF Done
<1> QED
  BY <1>1, <1>2, <1>3, <1>4, <1>5 DEF Next

-----------------------------------------------------------------------------
\* For any number of segments and any buffers, everything the app sent is on its way to
\* the server, once and in order, and our FIN comes last (service, on_ready,
\* flush_to_upstream and the half-close).
THEOREM UpstreamIsExact == Spec => []UpstreamExact
<1>1. IInv => UpstreamExact
  <2> SUFFICES ASSUME IInv PROVE UpstreamExact
    OBVIOUS
  <2>1. TypeOK /\ UpstreamConserved
    BY DEF IInv, Fits, Now, UpstreamConserved
  <2>2. ASSUME write_closed, sock # "Closed" PROVE app_fin /\ wire \o out = sent
    <3>1. /\ app_fin /\ to_upstream = <<>> /\ rx = <<>>
          /\ ((wire \o out) \o to_upstream) \o rx = sent
      BY <2>2 DEF IInv, Fits, Now
    <3>2. wire \in Seq(1..MaxUp) /\ out \in Seq(1..MaxUp)
      BY <2>1 DEF TypeOK, Segs
    <3>3. ((wire \o out) \o <<>>) \o <<>> = wire \o out
      BY <3>2
    <3> QED
      BY <3>1, <3>3
  <2> QED
    BY <2>1, <2>2 DEF UpstreamExact, UpstreamFinLast
<1> QED
  BY <1>1, InvInit, InvStep, PTL DEF Spec

-----------------------------------------------------------------------------
(* The way to the app.  The segments carry their numbers, so a queue whose *)
(* numbers follow one another is a run of what the server sent: each queue *)
(* on the way begins where the one before it, nearer the app, ends.  The   *)
(* run starts at k, the number of segments dropped before the app's        *)
(* handshake was over.  Once the socket takes no more data the queues      *)
(* behind it may be skipped, and only what the socket holds still counts.  *)

\* The states in which our side has not been closed toward the app.
Live == {"SynReceived", "Established", "CloseWait"}

Runs(q, a) == \A i \in 1..Len(q) : q[i] = a + i

\* With the socket in state sk, the queues t (its buffer), b (to_app) and c (the kernel's)
\* follow on from the a-th segment, and the last of them is the server's e-th.
Ahead(sk, t, b, c, a, e) ==
    /\ Runs(t, a)
    /\ sk \in Live => /\ Runs(b, a + Len(t)) /\ Runs(c, a + Len(t) + Len(b))
                      /\ a + Len(t) + Len(b) + Len(c) = e
    /\ sk \notin Live => a + Len(t) <= e

\* So they do after the segments o, for some start of the run.
Follows(sk, t, b, c, o, e) == \E k \in Nat : Runs(o, k) /\ Ahead(sk, t, b, c, k + Len(o), e)

\* The record's queues follow on from what the app has; until its handshake is over it
\* has nothing, and only the splice queues in to_app.
Feeds(r, o, e) ==
    /\ Follows(r.sock, r.tx, r.to_app, r.kernel, o, e)
    /\ r.sock = "SynReceived" => o = <<>> /\ r.tx = <<>>
    /\ ~spliced => r.to_app = <<>>

DownInv == IInv /\ Runs(served, 0) /\ Feeds(Now, got, Len(served))

LEMMA RunsEmpty == ASSUME NEW a PROVE Runs(<<>>, a)
<1>1. Len(<<>>) = 0
  BY EmptySeq
<1> QED
  BY <1>1 DEF Runs

LEMMA RunsSplit ==
    ASSUME NEW S, NEW s \in Seq(S), NEW n \in Nat, n <= Len(s), NEW a \in Nat, Runs(s, a)
    PROVE  /\ Runs(First(s, n), a) /\ Runs(Rest(s, n), a + n)
           /\ First(s, n) \in Seq(S) /\ Rest(s, n) \in Seq(S)
           /\ Len(First(s, n)) = n /\ Len(Rest(s, n)) = Len(s) - n
<1>1. Len(s) \in Nat /\ \A i \in 1..Len(s) : s[i] \in S
  BY LenProperties, ElementOfSeq
<1>2. Len(First(s, n)) = n /\ \A i \in 1..n : First(s, n)[i] = s[i]
  <2>1. \A i \in 1..n : s[i] \in S
    BY <1>1
  <2>2. /\ Len(SubSeq(s, 1, n)) = IF 1 <= n THEN n - 1 + 1 ELSE 0
        /\ \A i \in 1..(n - 1 + 1) : SubSeq(s, 1, n)[i] = s[1 + i - 1]
    BY <2>1, SubSeqProperties
  <2> QED
    BY <2>2 DEF First
<1>3. Len(Rest(s, n)) = Len(s) - n /\ \A i \in 1..(Len(s) - n) : Rest(s, n)[i] = s[n + i]
  <2>1. \A i \in (n + 1)..Len(s) : s[i] \in S
    BY <1>1
  <2>2. /\ Len(SubSeq(s, n + 1, Len(s))) = IF n + 1 <= Len(s) THEN Len(s) - (n + 1) + 1 ELSE 0
        /\ \A i \in 1..(Len(s) - (n + 1) + 1) : SubSeq(s, n + 1, Len(s))[i] = s[(n + 1) + i - 1]
    BY <1>1, <2>1, SubSeqProperties
  <2> QED
    BY <1>1, <2>2 DEF Rest
<1>4. Runs(First(s, n), a)
  BY <1>1, <1>2 DEF Runs
<1>5. Runs(Rest(s, n), a + n)
  <2> SUFFICES ASSUME NEW i \in 1..(Len(s) - n) PROVE Rest(s, n)[i] = a + n + i
    BY <1>3 DEF Runs
  <2>1. n + i \in 1..Len(s) /\ a + (n + i) = a + n + i
    BY <1>1
  <2> QED
    BY <1>3, <2>1 DEF Runs
<1>6. First(s, n) \in Seq(S) /\ Rest(s, n) \in Seq(S)
  BY Split
<1> QED
  BY <1>2, <1>3, <1>4, <1>5, <1>6

LEMMA RunsJoin ==
    ASSUME NEW S, NEW s \in Seq(S), NEW t \in Seq(S), NEW a \in Nat,
           Runs(s, a), Runs(t, a + Len(s))
    PROVE  Runs(s \o t, a) /\ s \o t \in Seq(S) /\ Len(s \o t) = Len(s) + Len(t)
<1>1. Len(s) \in Nat /\ Len(t) \in Nat
  BY LenProperties
<1> QED
  BY <1>1, ConcatProperties DEF Runs

\* Whatever happens to the queues behind a socket that takes no more data, and whatever
\* the socket drops of its own, what it still holds follows on.
LEMMA Shut ==
    ASSUME NEW S, NEW t \in Seq(S), NEW b \in Seq(S), NEW c \in Seq(S), NEW a \in Nat,
           NEW e \in Nat, NEW sk, Ahead(sk, t, b, c, a, e), NEW ns, ns \notin Live,
           NEW d, NEW f, NEW u \in {t, <<>>}
    PROVE  Ahead(ns, u, d, f, a, e)
<1>1. /\ Len(t) \in Nat /\ Len(b) \in Nat /\ Len(c) \in Nat
      /\ Len(<<>>) = 0 /\ Runs(<<>>, a) /\ Runs(t, a)
  BY LenProperties, EmptySeq, RunsEmpty DEF Ahead
<1>2. a + Len(t) <= e
  <2>1. a + Len(t) + Len(b) + Len(c) = e \/ a + Len(t) <= e
    BY DEF Ahead
  <2> QED
    BY <1>1, <2>1
<1>3. a + Len(u) <= e /\ Runs(u, a)
  BY <1>1, <1>2
<1> QED
  BY <1>3 DEF Ahead

\* The front of b is written to the socket.
LEMMA Written ==
    ASSUME NEW S, NEW t \in Seq(S), NEW b \in Seq(S), NEW c \in Seq(S), NEW a \in Nat,
           NEW e \in Nat, NEW sk \in Live, Ahead(sk, t, b, c, a, e),
           NEW n \in Nat, n <= Len(b)
    PROVE  Ahead(sk, t \o First(b, n), Rest(b, n), c, a, e)
<1>1. Len(t) \in Nat /\ Len(b) \in Nat /\ Len(c) \in Nat
  BY LenProperties
<1>2. /\ Runs(t, a) /\ Runs(b, a + Len(t)) /\ Runs(c, a + Len(t) + Len(b))
      /\ a + Len(t) + Len(b) + Len(c) = e
  BY DEF Ahead
<1>3. PICK F \in Seq(S), R \in Seq(S) :
        /\ F = First(b, n) /\ R = Rest(b, n) /\ Len(F) = n /\ Len(R) = Len(b) - n
        /\ Runs(F, a + Len(t)) /\ Runs(R, a + Len(t) + n)
  BY <1>1, <1>2, RunsSplit
<1>4. Runs(t \o F, a) /\ Len(t \o F) = Len(t) + n
  BY <1>2, <1>3, RunsJoin
<1>5. /\ a + (Len(t) + n) = a + Len(t) + n
      /\ a + (Len(t) + n) + (Len(b) - n) = a + Len(t) + Len(b)
  BY <1>1
<1>6. /\ Runs(R, a + Len(t \o F)) /\ Runs(c, a + Len(t \o F) + Len(R))
      /\ a + Len(t \o F) + Len(R) + Len(c) = e
  BY <1>2, <1>3, <1>4, <1>5
<1> QED
  BY <1>3, <1>4, <1>6 DEF Ahead

\* The front of b is refused by a socket that holds nothing: the run starts later.
LEMMA Dropped ==
    ASSUME NEW S, NEW b \in Seq(S), NEW c \in Seq(S), NEW a \in Nat,
           NEW e \in Nat, NEW sk \in Live, Ahead(sk, <<>>, b, c, a, e),
           NEW n \in Nat, n <= Len(b)
    PROVE  Ahead(sk, <<>>, Rest(b, n), c, a + n, e)
<1>1. Len(b) \in Nat /\ Len(c) \in Nat /\ Len(<<>>) = 0 /\ Runs(<<>>, a + n)
  BY LenProperties, EmptySeq, RunsEmpty
<1>2. a + 0 = a /\ a + n + 0 = a + n /\ a + n + (Len(b) - n) = a + Len(b)
  BY <1>1
<1>3. /\ Runs(b, a) /\ Runs(c, a + Len(b)) /\ a + Len(b) + Len(c) = e
  BY <1>1, <1>2 DEF Ahead
<1>4. Runs(Rest(b, n), a + n) /\ Len(Rest(b, n)) = Len(b) - n
  BY <1>3, RunsSplit
<1> QED
  BY <1>1, <1>2, <1>3, <1>4 DEF Ahead

\* With one of the two queues empty it does not matter which.
LEMMA OneQueue ==
    ASSUME NEW S, NEW t \in Seq(S), NEW c \in Seq(S), NEW a \in Nat, NEW e \in Nat, NEW sk
    PROVE  Ahead(sk, t, <<>>, c, a, e) <=> Ahead(sk, t, c, <<>>, a, e)
<1>1. /\ Len(t) \in Nat /\ Len(c) \in Nat /\ Len(<<>>) = 0
      /\ Runs(<<>>, a + Len(t)) /\ Runs(<<>>, a + Len(t) + Len(c))
  BY LenProperties, EmptySeq, RunsEmpty
<1>2. a + Len(t) + 0 = a + Len(t) /\ a + Len(t) + 0 + Len(c) = a + Len(t) + Len(c) + 0
  BY <1>1
<1> QED
  BY <1>1, <1>2 DEF Ahead

\* Two queues in a row are one.
LEMMA Joined ==
    ASSUME NEW S, NEW t \in Seq(S), NEW b \in Seq(S), NEW c \in Seq(S), NEW a \in Nat,
           NEW e \in Nat, NEW sk, Ahead(sk, t, b, c, a, e)
    PROVE  Ahead(sk, t, b \o c, <<>>, a, e)
<1>1. /\ Len(t) \in Nat /\ Len(b) \in Nat /\ Len(c) \in Nat /\ Len(<<>>) = 0
      /\ a + Len(t) \in Nat
  BY LenProperties, EmptySeq
<1>2. CASE sk \in Live
  <2>1. /\ Runs(t, a) /\ Runs(b, a + Len(t)) /\ Runs(c, a + Len(t) + Len(b))
        /\ a + Len(t) + Len(b) + Len(c) = e
    BY <1>2 DEF Ahead
  <2>2. Runs(b \o c, a + Len(t)) /\ Len(b \o c) = Len(b) + Len(c)
    BY <1>1, <2>1, RunsJoin
  <2>3. a + Len(t) + (Len(b) + Len(c)) + 0 = a + Len(t) + Len(b) + Len(c)
    BY <1>1
  <2> QED
    BY <1>1, <1>2, <2>1, <2>2, <2>3, RunsEmpty DEF Ahead
<1>3. CASE sk \notin Live
  BY <1>3 DEF Ahead
<1> QED
  BY <1>2, <1>3

LEMMA SeqsOfRec ==
    ASSUME NEW r \in Rec
    PROVE  /\ r.tx \in Seq(1..MaxDown) /\ r.to_app \in Seq(1..MaxDown)
           /\ r.kernel \in Seq(1..MaxDown)
BY DEF Rec, Segs

-----------------------------------------------------------------------------
(* The operators on the record, for the way to the app *)

\* A handler that leaves the way to the app alone.
LEMMA SameFeeds ==
    ASSUME NEW r, NEW q, NEW o, NEW e, Feeds(r, o, e),
           q.sock = r.sock, q.tx = r.tx, q.to_app = r.to_app, q.kernel = r.kernel
    PROVE  Feeds(q, o, e)
BY DEF Feeds, Follows

\* A socket that is closed toward the app, with its buffer kept or cleared.
LEMMA ShutFeeds ==
    ASSUME NEW r \in Rec, NEW o \in Segs(MaxDown), NEW e \in Nat, Feeds(r, o, e),
           NEW q, q.sock \notin Live, q.tx \in {r.tx, <<>>}, q.to_app = r.to_app
    PROVE  Feeds(q, o, e)
<1>1. PICK k \in Nat : Runs(o, k) /\ Ahead(r.sock, r.tx, r.to_app, r.kernel, k + Len(o), e)
  BY DEF Feeds, Follows
<1>2. k + Len(o) \in Nat
  BY LenProperties DEF Segs
<1>3. Ahead(q.sock, q.tx, q.to_app, q.kernel, k + Len(o), e)
  BY <1>1, <1>2, SeqsOfRec, Shut
<1> QED
  BY <1>1, <1>3 DEF Feeds, Follows, Live

LEMMA AbortFeeds ==
    ASSUME NEW r \in Rec, NEW o \in Segs(MaxDown), NEW e \in Nat, Feeds(r, o, e)
    PROVE  Feeds(tcp_abort(r), o, e)
<1>1. /\ tcp_abort(r).sock = "Closed" /\ tcp_abort(r).tx = <<>>
      /\ tcp_abort(r).to_app = r.to_app
  BY DEF tcp_abort, Rec
<1> QED
  BY <1>1, ShutFeeds DEF Live

\* The socket's state may move on as long as it opens nothing that was closed.
LEMMA MovedFeeds ==
    ASSUME NEW r \in Rec, NEW o \in Segs(MaxDown), NEW e \in Nat, Feeds(r, o, e), NEW c,
           c \in Live => r.sock \in Live, c = "SynReceived" => r.sock = "SynReceived"
    PROVE  Feeds([r EXCEPT !.sock = c], o, e)
<1> DEFINE q == [r EXCEPT !.sock = c]
<1> SUFFICES Feeds(q, o, e)
  OBVIOUS
<1>1. q.sock = c /\ q.tx = r.tx /\ q.to_app = r.to_app /\ q.kernel = r.kernel
  BY DEF Rec
<1> HIDE DEF q
<1>2. CASE c \in Live
  BY <1>1, <1>2 DEF Feeds, Follows, Ahead
<1>3. CASE c \notin Live
  BY <1>1, <1>3, ShutFeeds
<1> QED
  BY <1>2, <1>3

LEMMA CloseAppFeeds ==
    ASSUME NEW r \in Rec, NEW o \in Segs(MaxDown), NEW e \in Nat, Feeds(r, o, e)
    PROVE  Feeds(tcp_close_app(r), o, e)
<1> DEFINE c == CASE r.sock \in {"SynReceived", "Established"} -> "FinWait"
                  [] r.sock = "CloseWait" -> "LastAck"
                  [] OTHER -> r.sock
<1>1. (c \in Live => r.sock \in Live) /\ (c = "SynReceived" => r.sock = "SynReceived")
  BY DEF Live
<1>2. tcp_close_app(r) = [r EXCEPT !.sock = c]
  BY DEF tcp_close_app
<1> HIDE DEF c
<1> QED
  BY <1>1, <1>2, MovedFeeds

\* How much of a queue is written to the app's socket.
LEMMA SpaceBounds ==
    ASSUME NEW r \in Rec, Len(r.tx) <= TxCap, NEW m \in Nat
    PROVE  LET n == Least(m, tcp_send_space(r)) IN n \in Nat /\ n <= m
<1>1. tcp_send_space(r) \in Nat
  <2>1. PICK t \in Seq(1..MaxDown) : t = r.tx
    BY SeqsOfRec
  <2>2. Len(t) \in Nat
    BY LenProperties
  <2> QED
    BY <2>1, <2>2, RelayAssumption DEF tcp_send_space
<1> QED
  BY <1>1, LeastProperties

\* What writing the front of a queue to the app's socket does, in any live state.
LEMMA PassedOn ==
    ASSUME NEW S, NEW t \in Seq(S), NEW b \in Seq(S), NEW c \in Seq(S), NEW o \in Seq(S),
           NEW k \in Nat, NEW e \in Nat, NEW sk \in Live, Runs(o, k),
           Ahead(sk, t, b, c, k + Len(o), e), sk = "SynReceived" => o = <<>> /\ t = <<>>,
           NEW n \in Nat, n <= Len(b), NEW u,
           sk = "SynReceived" => u = t, sk # "SynReceived" => u = t \o First(b, n)
    PROVE  Follows(sk, u, Rest(b, n), c, o, e)
<1>1. CASE sk # "SynReceived"
  <2>1. k + Len(o) \in Nat
    BY LenProperties
  <2>2. Ahead(sk, t \o First(b, n), Rest(b, n), c, k + Len(o), e)
    BY <2>1, Written
  <2> QED
    BY <1>1, <2>2 DEF Follows
<1>2. CASE sk = "SynReceived"
  <2>1. o = <<>> /\ t = <<>> /\ u = <<>> /\ Len(o) = 0 /\ k + Len(o) = k
    BY <1>2, EmptySeq
  <2>2. Ahead(sk, <<>>, b, c, k, e)
    BY <2>1
  <2>3. Ahead(sk, <<>>, Rest(b, n), c, k + n, e)
    BY <2>2, Dropped
  <2>4. k + n \in Nat /\ (k + n) + Len(o) = k + n /\ Runs(o, k + n)
    BY <2>1, RunsEmpty
  <2> QED
    BY <2>1, <2>3, <2>4 DEF Follows
<1> QED
  BY <1>1, <1>2

LEMMA FlushAppFeeds ==
    ASSUME NEW r \in Rec, Len(r.tx) <= TxCap, NEW o \in Segs(MaxDown), NEW e \in Nat,
           Feeds(r, o, e)
    PROVE  Feeds(flush_to_app(r), o, e)
<1> DEFINE n == Least(Len(r.to_app), tcp_send_space(r))
           q == flush_to_app(r)
<1> SUFFICES Feeds(q, o, e)
  OBVIOUS
<1>1. n \in Nat /\ n <= Len(r.to_app)
  BY SeqsOfRec, LenProperties, SpaceBounds
<1>2. /\ q.sock = r.sock /\ q.to_app = Rest(r.to_app, n) /\ q.kernel = r.kernel
      /\ q.tx = IF r.sock \in {"Established", "CloseWait"}
                THEN r.tx \o First(r.to_app, n) ELSE r.tx
  BY DEF flush_to_app, tcp_send_to_app, Rec
<1> HIDE DEF q, n
<1>3. ~spliced => q.to_app = <<>>
  <2> SUFFICES ASSUME ~spliced PROVE Rest(r.to_app, n) = <<>>
    BY <1>2
  <2>1. r.to_app = <<>> /\ Len(r.to_app) = 0
    BY EmptySeq DEF Feeds, Follows
  <2>2. 0 < n + 1 /\ n + 1 \in Int
    BY <1>1
  <2> QED
    BY <2>1, <2>2, SubSeqEmpty DEF Rest
<1>4. PICK k \in Nat : Runs(o, k) /\ Ahead(r.sock, r.tx, r.to_app, r.kernel, k + Len(o), e)
  BY DEF Feeds, Follows
<1>5. CASE r.sock \in Live
  <2>1. q.tx = IF r.sock = "SynReceived" THEN r.tx ELSE r.tx \o First(r.to_app, n)
    BY <1>2, <1>5 DEF Live
  <2>2. PICK j \in Nat : Runs(o, j) /\ Ahead(r.sock, q.tx, Rest(r.to_app, n), r.kernel,
                                             j + Len(o), e)
    <3>1. PICK t \in Seq(1..MaxDown), b \in Seq(1..MaxDown), c \in Seq(1..MaxDown),
               sk \in Live : t = r.tx /\ b = r.to_app /\ c = r.kernel /\ sk = r.sock
      BY <1>5, SeqsOfRec
    <3>2. PICK u : u = q.tx
      OBVIOUS
    <3>3. /\ o \in Seq(1..MaxDown) /\ n \in Nat /\ n <= Len(b)
          /\ Runs(o, k) /\ Ahead(sk, t, b, c, k + Len(o), e)
          /\ sk = "SynReceived" => o = <<>> /\ t = <<>>
          /\ sk = "SynReceived" => u = t
          /\ sk # "SynReceived" => u = t \o First(b, n)
      BY <1>1, <1>4, <2>1, <3>1, <3>2 DEF Feeds, Follows, Segs
    <3>4. Follows(sk, u, Rest(b, n), c, o, e)
      BY <3>3, PassedOn
    <3> QED
      BY <3>1, <3>2, <3>4 DEF Follows
  <2>3. q.sock = "SynReceived" => o = <<>> /\ q.tx = <<>>
    BY <1>2 DEF Feeds, Follows
  <2> QED
    BY <1>2, <1>3, <2>2, <2>3 DEF Feeds, Follows
<1>6. CASE r.sock \notin Live
  <2>1. q.tx = r.tx /\ q.sock = r.sock
    BY <1>2, <1>6 DEF Live
  <2>2. k + Len(o) \in Nat
    BY LenProperties DEF Segs
  <2>3. Ahead(q.sock, q.tx, q.to_app, q.kernel, k + Len(o), e)
    BY <1>4, <1>6, <2>1, <2>2, SeqsOfRec, Shut
  <2>4. q.sock # "SynReceived"
    BY <1>6, <2>1 DEF Live
  <2> QED
    BY <1>3, <1>4, <2>3, <2>4 DEF Feeds, Follows
<1> QED
  BY <1>5, <1>6

\* Reading straight into the app's socket, without the splice.
LEMMA PumpUpFeeds ==
    ASSUME NEW r \in Rec, Len(r.tx) <= TxCap, NEW o \in Segs(MaxDown), NEW e \in Nat,
           Feeds(r, o, e), ~spliced,
           NEW q \in Rec, NEW n, n = Least(Len(r.kernel), tcp_send_space(r)),
           q = [tcp_send_to_app(r, First(r.kernel, n)) EXCEPT !.kernel = Rest(r.kernel, n)]
    PROVE  Feeds(q, o, e)
<1>1. n \in Nat /\ n <= Len(r.kernel)
  BY SeqsOfRec, LenProperties, SpaceBounds
<1>2. /\ q.sock = r.sock /\ q.kernel = Rest(r.kernel, n) /\ q.to_app = r.to_app
      /\ q.tx = IF r.sock \in {"Established", "CloseWait"}
                THEN r.tx \o First(r.kernel, n) ELSE r.tx
  BY DEF tcp_send_to_app, Rec
<1>3. q.to_app = <<>> /\ r.to_app = <<>>
  BY <1>2 DEF Feeds, Follows
<1>4. PICK k \in Nat : Runs(o, k) /\ Ahead(r.sock, r.tx, r.to_app, r.kernel, k + Len(o), e)
  BY DEF Feeds, Follows
<1>5. k + Len(o) \in Nat
  BY LenProperties DEF Segs
<1>6. CASE r.sock \in Live
  <2>1. q.tx = IF r.sock = "SynReceived" THEN r.tx ELSE r.tx \o First(r.kernel, n)
    BY <1>2, <1>6 DEF Live
  <2>2. Ahead(r.sock, r.tx, r.kernel, <<>>, k + Len(o), e)
    BY <1>3, <1>4, <1>5, SeqsOfRec, OneQueue
  <2>3. /\ <<>> \in Seq(1..MaxDown) /\ o \in Seq(1..MaxDown)
        /\ r.sock = "SynReceived" => o = <<>> /\ r.tx = <<>>
    BY EmptySeq DEF Feeds, Follows, Segs
  <2>4. PICK j \in Nat : Runs(o, j) /\ Ahead(r.sock, q.tx, Rest(r.kernel, n), <<>>,
                                             j + Len(o), e)
    <3>1. PICK t \in Seq(1..MaxDown), b \in Seq(1..MaxDown), sk \in Live :
            t = r.tx /\ b = r.kernel /\ sk = r.sock
      BY <1>6, SeqsOfRec
    <3>2. PICK u : u = q.tx
      OBVIOUS
    <3>3. /\ o \in Seq(1..MaxDown) /\ n \in Nat /\ n <= Len(b)
          /\ Runs(o, k) /\ Ahead(sk, t, b, <<>>, k + Len(o), e)
          /\ sk = "SynReceived" => o = <<>> /\ t = <<>>
          /\ sk = "SynReceived" => u = t
          /\ sk # "SynReceived" => u = t \o First(b, n)
      BY <1>1, <1>4, <2>1, <2>2, <2>3, <3>1, <3>2
    <3>4. Follows(sk, u, Rest(b, n), <<>>, o, e)
      BY <2>3, <3>3, PassedOn
    <3> QED
      BY <3>1, <3>2, <3>4 DEF Follows
  <2>5. j + Len(o) \in Nat
    BY LenProperties DEF Segs
  <2>6. Ahead(q.sock, q.tx, q.to_app, q.kernel, j + Len(o), e)
    BY <1>2, <1>3, <2>4, <2>5, SeqsOfRec, OneQueue
  <2>7. q.sock = "SynReceived" => o = <<>> /\ q.tx = <<>>
    BY <1>2, <2>3
  <2> QED
    BY <1>3, <2>4, <2>6, <2>7 DEF Feeds, Follows
<1>7. CASE r.sock \notin Live
  <2>1. q.sock \notin Live /\ q.tx = r.tx /\ q.to_app = r.to_app
    BY <1>2, <1>7 DEF Live
  <2> QED
    BY <2>1, ShutFeeds
<1> QED
  BY <1>6, <1>7

LEMMA PumpFeeds ==
    ASSUME NEW r, NEW w, NEW s, NEW f, Fits(r, w, s, f),
           NEW o \in Segs(MaxDown), NEW e \in Nat, Feeds(r, o, e)
    PROVE  Feeds(pump(r), o, e)
<1>1. r \in Rec /\ Len(r.tx) <= TxCap /\ r.kernel \in Segs(MaxDown)
  BY DEF Fits, Rec
<1>2. ASSUME ~spliced PROVE Feeds(pump_upstream_to_app(r), o, e)
  <2> DEFINE n == Least(Len(r.kernel), tcp_send_space(r))
             b == tcp_send_to_app(r, First(r.kernel, n))
             p == [b EXCEPT !.kernel = Rest(r.kernel, n)]
  <2>1. p \in Rec
    <3>1. /\ First(r.kernel, n) \in Segs(MaxDown) /\ Rest(r.kernel, n) \in Segs(MaxDown)
          /\ Len(First(r.kernel, n)) <= tcp_send_space(r)
      BY <1>1, SpaceProperties
    <3>2. Fits(b, w, s, f)
      BY <3>1, SendKeeps
    <3> HIDE DEF b, n
    <3> QED
      BY <3>1, <3>2 DEF Fits, Rec
  <2>2. Feeds(p, o, e)
    BY <1>1, <1>2, <2>1, PumpUpFeeds
  <2>3. pump_upstream_to_app(r) \in {tcp_abort(p), tcp_close_app(p), p}
    BY DEF pump_upstream_to_app
  <2> HIDE DEF p
  <2> QED
    BY <2>1, <2>2, <2>3, AbortFeeds, CloseAppFeeds
<1>3. ASSUME spliced PROVE Feeds(read_into_mitm(r), o, e)
  <2> DEFINE p == [r EXCEPT !.to_app = r.to_app \o r.kernel, !.kernel = <<>>]
  <2>1. r.to_app \o r.kernel \in Segs(MaxDown) /\ <<>> \in Segs(MaxDown)
    BY <1>1, SeqsOfRec, ConcatProperties, EmptySeq DEF Segs
  <2>2. /\ p \in Rec /\ p.sock = r.sock /\ p.tx = r.tx
        /\ p.to_app = r.to_app \o r.kernel /\ p.kernel = <<>>
    BY <1>1, <2>1 DEF Rec
  <2> HIDE DEF p
  <2>3. Feeds(p, o, e)
    <3>1. PICK k \in Nat : Runs(o, k) /\ Ahead(r.sock, r.tx, r.to_app, r.kernel, k + Len(o), e)
      BY DEF Feeds, Follows
    <3>2. k + Len(o) \in Nat
      BY LenProperties DEF Segs
    <3>3. Ahead(r.sock, r.tx, r.to_app \o r.kernel, <<>>, k + Len(o), e)
      BY <1>1, <3>1, <3>2, SeqsOfRec, Joined
    <3>4. r.sock = "SynReceived" => o = <<>> /\ r.tx = <<>>
      BY DEF Feeds, Follows
    <3> QED
      BY <1>3, <2>2, <3>1, <3>3, <3>4 DEF Feeds, Follows
  <2>4. Feeds(flush_to_app(r), o, e) /\ Feeds(flush_to_app(p), o, e)
    BY <1>1, <2>2, <2>3, FlushAppFeeds
  <2>5. read_into_mitm(r) \in {flush_to_app(r), flush_to_app(p)}
    BY DEF read_into_mitm, p
  <2> QED
    BY <2>4, <2>5
<1> QED
  BY <1>2, <1>3 DEF pump

LEMMA FlushUpFeeds ==
    ASSUME NEW r \in Rec, NEW o \in Segs(MaxDown), NEW e \in Nat, Feeds(r, o, e)
    PROVE  Feeds(flush_to_upstream(r), o, e)
<1> DEFINE n == Least(Len(r.to_upstream), OutCap - Len(r.out))
           q == [r EXCEPT !.out = r.out \o First(r.to_upstream, n),
                          !.to_upstream = Rest(r.to_upstream, n)]
<1>1. flush_to_upstream(r) \in {r, tcp_abort(r), q}
  BY DEF flush_to_upstream
<1>2. q.sock = r.sock /\ q.tx = r.tx /\ q.to_app = r.to_app /\ q.kernel = r.kernel
  BY DEF Rec
<1> HIDE DEF q
<1> QED
  BY <1>1, <1>2, SameFeeds, AbortFeeds

LEMMA RelayFeeds ==
    ASSUME NEW r, NEW w \in Segs(MaxUp), NEW s, NEW f, Fits(r, w, s, f),
           NEW o \in Segs(MaxDown), NEW e \in Nat, Feeds(r, o, e), NEW n \in relay(r)
    PROVE  Feeds(n, o, e)
<1> DEFINE a == Taken(r)
           b == flush_to_upstream(a)
           c == flush_to_app(b)
<1>1. CASE r.connecting
  BY <1>1 DEF relay
<1>2. CASE ~r.connecting
  <2>1. n = half_close(c)
    BY <1>2 DEF relay
  <2>2. Fits(a, w, s, f) /\ Feeds(a, o, e)
    <3>1. a.sock = r.sock /\ a.tx = r.tx /\ a.to_app = r.to_app /\ a.kernel = r.kernel
      BY DEF Fits, Rec, Taken
    <3> QED
      BY <3>1, TakenKeeps, SameFeeds
  <2> HIDE DEF a
  <2>3. Fits(b, w, s, f) /\ Feeds(b, o, e)
    BY <2>2, FlushUpKeeps, FlushUpFeeds DEF Fits
  <2> HIDE DEF b
  <2>4. c \in Rec /\ Feeds(c, o, e)
    BY <2>3, FlushAppKeeps, FlushAppFeeds DEF Fits
  <2> HIDE DEF c
  <2>5. half_close(c) \in {c, [c EXCEPT !.write_closed = TRUE]}
    BY DEF half_close
  <2> QED
    BY <2>1, <2>4, <2>5, SameFeeds DEF Rec
<1> QED
  BY <1>1, <1>2

LEMMA ReadyFeeds ==
    ASSUME NEW r, NEW w \in Segs(MaxUp), NEW s, NEW f, Fits(r, w, s, f),
           NEW o \in Segs(MaxDown), NEW e \in Nat, Feeds(r, o, e), NEW n \in ready(r)
    PROVE  Feeds(n, o, e)
<1> DEFINE c == [r EXCEPT !.connecting = FALSE]
           b == flush_to_upstream(c)
<1>1. Fits(c, w, s, f) /\ Feeds(c, o, e)
  <2>1. c.sock = r.sock /\ c.tx = r.tx /\ c.to_app = r.to_app /\ c.kernel = r.kernel
    BY DEF Fits, Rec
  <2> QED
    BY <2>1, SameFeeds DEF Fits, Rec
<1>2. \/ n = tcp_abort(c)
      \/ \E p \in {pump(b), b} : n \in {tcp_close_app(pump(p)), p}
  BY DEF ready
<1> HIDE DEF c
<1>3. Feeds(tcp_abort(c), o, e)
  BY <1>1, AbortFeeds DEF Fits
<1>4. Fits(b, w, s, f) /\ Feeds(b, o, e)
  BY <1>1, FlushUpKeeps, FlushUpFeeds DEF Fits
<1> HIDE DEF b
<1>5. ASSUME NEW p \in {pump(b), b}, n \in {tcp_close_app(pump(p)), p}
      PROVE  Feeds(n, o, e)
  <2>1. Fits(p, w, s, f) /\ Feeds(p, o, e)
    BY <1>4, PumpKeeps, PumpFeeds
  <2>2. pump(p) \in Rec /\ Feeds(pump(p), o, e)
    BY <2>1, PumpKeeps, PumpFeeds DEF Fits
  <2> QED
    BY <1>5, <2>1, <2>2, CloseAppFeeds
<1> QED
  BY <1>2, <1>3, <1>5

-----------------------------------------------------------------------------
(* The steps, for the way to the app *)

LEMMA DownInit == Init => DownInv
<1> SUFFICES ASSUME Init PROVE DownInv
  OBVIOUS
<1>1. IInv
  BY InvInit
<1>2. /\ served = <<>> /\ got = <<>> /\ Now.sock = "SynReceived" /\ Now.tx = <<>>
      /\ Now.to_app = <<>> /\ Now.kernel = <<>>
  BY DEF Init, Now
<1>3. Len(<<>>) = 0 /\ Runs(<<>>, 0)
  BY EmptySeq, RunsEmpty
<1>4. Ahead("SynReceived", <<>>, <<>>, <<>>, 0, 0)
  BY <1>3 DEF Ahead, Live
<1>5. Follows("SynReceived", <<>>, <<>>, <<>>, <<>>, 0)
  BY <1>3, <1>4 DEF Follows
<1>6. Feeds(Now, got, Len(served))
  BY <1>2, <1>3, <1>5 DEF Feeds
<1> QED
  BY <1>1, <1>2, <1>3, <1>6 DEF DownInv

\* The handlers' steps.
LEMMA HandlerDown ==
    ASSUME DownInv, Service \/ OnReady
    PROVE  Feeds(Now, got, Len(served))'
<1>1. /\ IInv /\ wire \in Segs(MaxUp) /\ got \in Segs(MaxDown) /\ Len(served) \in Nat
      /\ UNCHANGED <<spliced, got, served>> /\ Feeds(Now, got, Len(served))
      /\ Fits(Now, wire, sent, app_fin) /\ (inq => app_fin)
  BY LenProperties DEF DownInv, IInv, TypeOK, Segs, Service, OnReady, server, appvars
<1>2. ASSUME Service
      PROVE  \E n : Fits(n, wire, sent, app_fin) /\ Feeds(n, got, Len(served)) /\ Set(n)
  <2> DEFINE s == Delivered(sock)
             r == [Now EXCEPT !.sock = s]
  <2>1. Now.sock = sock /\ Now \in Rec
    BY <1>1 DEF Now, Fits
  <2>2. Fits(r, wire, sent, app_fin)
    BY <1>1, <2>1, DeliveredKeeps
  <2>3. (s \in Live => sock \in Live) /\ (s = "SynReceived" => sock = "SynReceived")
    BY DEF Delivered, Live
  <2> HIDE DEF s
  <2>4. Feeds(r, got, Len(served))
    BY <1>1, <2>1, <2>3, MovedFeeds
  <2>5. PICK n \in IF s = "Closed" THEN {r} ELSE relay(r) : Set(n)
    BY <1>2 DEF Service, s
  <2> HIDE DEF r
  <2> QED
    BY <1>1, <2>2, <2>4, <2>5, RelayKeeps, RelayFeeds
<1>3. ASSUME OnReady
      PROVE  \E n : Fits(n, wire, sent, app_fin) /\ Feeds(n, got, Len(served)) /\ Set(n)
  <2>1. PICK n \in ready(Now) : Set(n)
    BY <1>3 DEF OnReady
  <2> QED
    BY <1>1, <2>1, ReadyKeeps, ReadyFeeds
<1>4. PICK n : Fits(n, wire, sent, app_fin) /\ Feeds(n, got, Len(served)) /\ Set(n)
  BY <1>2, <1>3
<1>5. Now' = n
  BY <1>4, SetNow DEF Fits
<1> QED
  BY <1>1, <1>4, <1>5 DEF Feeds

\* A step that leaves the way to the app alone, but may complete the app's handshake.
LEMMA IdleDown ==
    ASSUME DownInv, UNCHANGED <<spliced, tx, to_app, kernel, got, served>>,
           sock' \in Live => sock \in Live, sock' = "SynReceived" => sock = "SynReceived"
    PROVE  Feeds(Now, got, Len(served))'
<1> DEFINE q == [Now EXCEPT !.sock = sock']
<1>1. Now \in Rec /\ Now.sock = sock /\ got \in Segs(MaxDown) /\ Len(served) \in Nat
  BY LenProperties DEF DownInv, IInv, Fits, TypeOK, Segs, Now
<1>2. Feeds(q, got, Len(served))
  BY <1>1, MovedFeeds DEF DownInv
<1>3. /\ Now'.sock = q.sock /\ Now'.tx = q.tx /\ Now'.to_app = q.to_app
      /\ Now'.kernel = q.kernel
  BY DEF Now
<1> HIDE DEF q
<1>4. Feeds(Now', got, Len(served))
  BY <1>2, <1>3, SameFeeds
<1> QED
  BY <1>4 DEF Feeds

\* The app takes the first segment of the socket's buffer.
LEMMA ReceiveDown ==
    ASSUME DownInv, AppReceive
    PROVE  Feeds(Now, got, Len(served))'
<1>1. CASE tx = <<>>
  BY <1>1, IdleDown DEF AppReceive, upstream, server
<1>2. CASE tx # <<>>
  <2> DEFINE h == Head(tx)
             t == Tail(tx)
             e == Len(served)
  <2>1. /\ got' = Append(got, h) /\ tx' = t
        /\ UNCHANGED <<spliced, sock, to_app, kernel, served>>
    BY <1>2 DEF AppReceive, upstream, server
  <2>2. /\ tx \in Seq(1..MaxDown) /\ got \in Seq(1..MaxDown)
        /\ Len(got) \in Nat /\ Len(tx) \in Nat /\ Len(to_app) \in Nat /\ Len(kernel) \in Nat
    BY LenProperties DEF DownInv, IInv, TypeOK, Segs
  <2>3. /\ Follows(sock, tx, to_app, kernel, got, e) /\ sock # "SynReceived"
        /\ ~spliced => to_app = <<>>
    BY <1>2 DEF DownInv, Feeds, Now
  <2>4. PICK k \in Nat : Runs(got, k) /\ Ahead(sock, tx, to_app, kernel, k + Len(got), e)
    BY <2>3 DEF Follows
  <2>5. /\ t \in Seq(1..MaxDown) /\ Len(t) = Len(tx) - 1 /\ h \in 1..MaxDown /\ h = tx[1]
        /\ \A i \in 1..Len(t) : t[i] = tx[i + 1]
    <3>1. h = tx[1]
      BY <1>2, <2>2
    <3> QED
      BY <1>2, <2>2, <3>1, HeadTailProperties
  <2>6. Len(tx) >= 1 /\ \A i \in 1..Len(tx) : tx[i] = k + Len(got) + i
    <3>1. Len(tx) # 0
      BY <1>2, <2>2, EmptySeq
    <3> QED
      BY <2>2, <2>4, <3>1 DEF Ahead, Runs
  <2>7. /\ Len(Append(got, h)) = Len(got) + 1
        /\ \A i \in 1..Len(got) : Append(got, h)[i] = got[i]
        /\ Append(got, h)[Len(got) + 1] = h
    BY <2>2, <2>5, AppendProperties
  <2> HIDE DEF h, t, e
  <2>8. Runs(Append(got, h), k)
    <3>1. h = k + (Len(got) + 1)
      BY <2>2, <2>5, <2>6
    <3> QED
      BY <2>2, <2>4, <2>7, <3>1 DEF Runs
  <2>9. Runs(t, k + (Len(got) + 1))
    <3> SUFFICES ASSUME NEW i \in 1..Len(t) PROVE t[i] = k + (Len(got) + 1) + i
      BY DEF Runs
    <3>1. i + 1 \in 1..Len(tx) /\ i \in Nat
      BY <2>2, <2>5
    <3>2. t[i] = k + Len(got) + (i + 1)
      BY <2>5, <2>6, <3>1
    <3> QED
      BY <2>2, <3>1, <3>2
  <2>10. /\ k + (Len(got) + 1) + Len(t) = k + Len(got) + Len(tx)
    BY <2>2, <2>5
  <2>11. Ahead(sock, t, to_app, kernel, k + (Len(got) + 1), e)
    BY <2>4, <2>9, <2>10 DEF Ahead
  <2>12. Follows(sock, t, to_app, kernel, Append(got, h), e)
    BY <2>7, <2>8, <2>11 DEF Follows
  <2>13. Len(served') = e
    BY <2>1 DEF e
  <2> QED
    BY <2>1, <2>3, <2>12, <2>13 DEF Feeds, Now
<1> QED
  BY <1>1, <1>2

\* The server sends its next segment.
LEMMA SendDown ==
    ASSUME DownInv, ServerSend
    PROVE  Runs(served, 0)' /\ Feeds(Now, got, Len(served))'
<1> DEFINE e == Len(served)
           v == e + 1
<1>1. /\ served' = Append(served, v) /\ kernel' = Append(kernel, v)
      /\ UNCHANGED <<spliced, sock, tx, to_app, got>>
  BY DEF ServerSend, appside, appvars, upstream
<1>2. /\ served \in Seq(1..MaxDown) /\ kernel \in Seq(1..MaxDown) /\ e \in Nat
      /\ Len(got) \in Nat /\ Len(tx) \in Nat /\ Len(to_app) \in Nat /\ Len(kernel) \in Nat
      /\ v \in 1..MaxDown
  BY RelayAssumption, LenProperties DEF DownInv, IInv, TypeOK, Segs, ServerSend
<1>3. /\ Len(Append(served, v)) = e + 1 /\ Append(served, v)[e + 1] = v
      /\ \A i \in 1..e : Append(served, v)[i] = served[i]
  BY <1>2, AppendProperties
<1>4. /\ Len(Append(kernel, v)) = Len(kernel) + 1 /\ Append(kernel, v)[Len(kernel) + 1] = v
      /\ \A i \in 1..Len(kernel) : Append(kernel, v)[i] = kernel[i]
  BY <1>2, AppendProperties
<1>5. Runs(served, 0) /\ v = e + 1
  BY DEF DownInv
<1>6. /\ Follows(sock, tx, to_app, kernel, got, e)
      /\ (sock = "SynReceived" => got = <<>> /\ tx = <<>>) /\ (~spliced => to_app = <<>>)
  BY DEF DownInv, Feeds, Now
<1> HIDE DEF e, v
<1>7. Runs(Append(served, v), 0)
  BY <1>2, <1>3, <1>5 DEF Runs, e
<1>8. PICK k \in Nat : Runs(got, k) /\ Ahead(sock, tx, to_app, kernel, k + Len(got), e)
  BY <1>6 DEF Follows
<1>9. Ahead(sock, tx, to_app, Append(kernel, v), k + Len(got), v)
  <2> DEFINE b == k + Len(got) + Len(tx) + Len(to_app)
  <2>1. b \in Nat
    BY <1>2
  <2>2. CASE sock \in Live
    <3>1. Runs(kernel, b) /\ b + Len(kernel) = e
      BY <1>8, <2>2 DEF Ahead
    <3> HIDE DEF b
    <3>2. Runs(Append(kernel, v), b)
      <4>1. v = b + (Len(kernel) + 1)
        BY <1>2, <1>5, <2>1, <3>1
      <4> SUFFICES ASSUME NEW i \in 1..(Len(kernel) + 1) PROVE Append(kernel, v)[i] = b + i
        BY <1>4 DEF Runs
      <4>2. CASE i = Len(kernel) + 1
        BY <1>4, <4>1, <4>2
      <4>3. CASE i # Len(kernel) + 1
        <5>1. i \in 1..Len(kernel)
          BY <1>2, <4>3
        <5> QED
          BY <1>4, <3>1, <5>1 DEF Runs
      <4> QED
        BY <4>2, <4>3
    <3>3. b + Len(Append(kernel, v)) = v
      <4>1. b + (Len(kernel) + 1) = v
        BY <1>2, <1>5, <2>1, <3>1
      <4> QED
        BY <1>4, <4>1
    <3> QED
      BY <1>8, <2>2, <3>2, <3>3 DEF Ahead, b
  <2>3. CASE sock \notin Live
    <3>1. k + Len(got) + Len(tx) <= v
      BY <1>2, <1>5, <1>8, <2>3 DEF Ahead
    <3> QED
      BY <1>8, <2>3, <3>1 DEF Ahead
  <2> QED
    BY <2>2, <2>3
<1>10. Follows(sock, tx, to_app, Append(kernel, v), got, v)
  BY <1>8, <1>9 DEF Follows
<1>11. Len(served') = v
  BY <1>1, <1>3, <1>5
<1> QED
  BY <1>1, <1>6, <1>7, <1>10, <1>11 DEF Feeds, Now, Runs

LEMMA DownStep == DownInv /\ [Next]_vars => DownInv'
<1> SUFFICES ASSUME DownInv, [Next]_vars PROVE Runs(served, 0)' /\ Feeds(Now, got, Len(served))'
  BY InvStep DEF DownInv
<1>1. CASE Service \/ OnReady
  <2>1. UNCHANGED served
    BY <1>1 DEF Service, OnReady, server
  <2> QED
    BY <1>1, <2>1, HandlerDown DEF DownInv, Runs
<1>2. CASE AppReceive
  <2>1. UNCHANGED served
    BY <1>2 DEF AppReceive, server
  <2> QED
    BY <1>2, <2>1, ReceiveDown DEF DownInv, Runs
<1>3. CASE ServerSend
  BY <1>3, SendDown
<1>4. CASE \/ AppAck \/ AppSend \/ AppFin \/ Connected \/ ServerClose \/ ServerReset
           \/ ServerReceive \/ Done \/ UNCHANGED vars
  <2>1. /\ UNCHANGED <<spliced, tx, to_app, kernel, got, served>>
        /\ sock' = sock \/ (sock = "SynReceived" /\ sock' = "Established")
    BY <1>4 DEF AppAck, AppSend, AppFin, Connected, ServerClose, ServerReset, ServerReceive,
                Done, vars, appside, appvars, upstream, server
  <2>2. Feeds(Now, got, Len(served))'
    BY <2>1, IdleDown DEF Live
  <2> QED
    BY <2>1, <2>2 DEF DownInv, Runs
<1> QED
  BY <1>1, <1>2, <1>3, <1>4 DEF Next

-----------------------------------------------------------------------------
\* For any number of segments and any buffers, with the splice or without, what the app
\* receives and what waits in its socket is one run of what the server sent: nothing is
\* repeated, reordered or skipped by partial writes, a full buffer or a reset
\* (pump_upstream_to_app, read_upstream_into_mitm, flush_to_app, tcp_abort).
THEOREM DownstreamIsContiguous == Spec => []DownstreamContiguous
<1>1. DownInv => DownstreamContiguous
  <2> SUFFICES ASSUME DownInv PROVE DownstreamContiguous
    OBVIOUS
  <2> DEFINE e == Len(served)
             q == got \o tx
  <2>1. /\ served \in Seq(1..MaxDown) /\ got \in Seq(1..MaxDown) /\ tx \in Seq(1..MaxDown)
        /\ to_app \in Seq(1..MaxDown) /\ kernel \in Seq(1..MaxDown)
        /\ e \in Nat /\ Len(got) \in Nat /\ Len(tx) \in Nat
        /\ Len(to_app) \in Nat /\ Len(kernel) \in Nat
    BY LenProperties DEF DownInv, IInv, TypeOK, Segs
  <2>2. Follows(sock, tx, to_app, kernel, got, e)
    BY DEF DownInv, Feeds, Now
  <2>3. PICK k \in Nat : Runs(got, k) /\ Ahead(sock, tx, to_app, kernel, k + Len(got), e)
    BY <2>2 DEF Follows
  <2>4. Runs(q, k) /\ q \in Seq(1..MaxDown) /\ Len(q) = Len(got) + Len(tx)
    BY <2>1, <2>3, RunsJoin DEF Ahead
  <2>5. k + Len(q) <= e
    <3>1. \/ k + Len(got) + Len(tx) + Len(to_app) + Len(kernel) = e
          \/ k + Len(got) + Len(tx) <= e
      BY <2>3 DEF Ahead
    <3> QED
      BY <2>1, <2>4, <3>1
  <2>6. \A i \in 1..e : served[i] = i /\ served[i] \in 1..MaxDown
    <3>1. \A i \in 1..e : served[i] = 0 + i
      BY DEF DownInv, Runs
    <3>2. \A i \in 1..e : served[i] \in 1..MaxDown
      BY <2>1, ElementOfSeq
    <3> QED
      BY <2>1, <3>1, <3>2
  <2> HIDE DEF e, q
  <2> DEFINE t == SubSeq(served, k + 1, e)
  <2>7. /\ Len(q) \in Nat /\ k \in 0..e /\ Len(q) <= e - k
    BY <2>1, <2>4, <2>5
  <2>8. /\ t \in Seq(1..MaxDown) /\ Len(t) = e - k
        /\ \A i \in 1..(e - k) : t[i] = k + i
    <3>1. \A i \in (k + 1)..e : served[i] \in 1..MaxDown
      BY <2>1, <2>6, <2>7
    <3>2. /\ t \in Seq(1..MaxDown) /\ Len(t) = IF k + 1 <= e THEN e - (k + 1) + 1 ELSE 0
          /\ \A i \in 1..(e - (k + 1) + 1) : t[i] = served[(k + 1) + i - 1]
      BY <2>1, <3>1, SubSeqProperties
    <3> QED
      BY <2>1, <2>6, <2>7, <3>2
  <2> HIDE DEF t
  <2>9. /\ SubSeq(q, 1, Len(q)) = q
        /\ SubSeq(t, 1, Len(q)) \in Seq(1..MaxDown)
        /\ Len(SubSeq(t, 1, Len(q))) = Len(q)
        /\ \A i \in 1..Len(q) : SubSeq(t, 1, Len(q))[i] = t[i]
    <3>1. \A i \in 1..Len(q) : t[i] \in 1..MaxDown
      <4>1. \A i \in 1..Len(t) : t[i] \in 1..MaxDown
        BY <2>8, ElementOfSeq
      <4>2. \A i \in 1..Len(q) : i \in 1..Len(t)
        BY <2>1, <2>7, <2>8
      <4> QED
        BY <4>1, <4>2
    <3>2. /\ SubSeq(t, 1, Len(q)) \in Seq(1..MaxDown)
          /\ Len(SubSeq(t, 1, Len(q))) = IF 1 <= Len(q) THEN Len(q) - 1 + 1 ELSE 0
          /\ \A i \in 1..(Len(q) - 1 + 1) : SubSeq(t, 1, Len(q))[i] = t[1 + i - 1]
      BY <2>7, <3>1, SubSeqProperties
    <3>3. SubSeq(q, 1, Len(q)) = q
      BY <2>4, SubSeqFull
    <3> QED
      BY <2>7, <3>2, <3>3
  <2>10. q = SubSeq(t, 1, Len(q))
    <3>1. \A i \in 1..Len(q) : q[i] = SubSeq(t, 1, Len(q))[i]
      BY <2>4, <2>7, <2>8, <2>9 DEF Runs
    <3> QED
      BY <2>4, <2>9, <3>1, SeqEqual
  <2>11. IsPrefix(q, t)
    BY <2>7, <2>8, <2>9, <2>10 DEF IsPrefix
  <2> QED
    BY <2>7, <2>11 DEF DownstreamContiguous, q, t, e
<1> QED
  BY <1>1, DownInit, DownStep, PTL DEF Spec
=============================================================================
