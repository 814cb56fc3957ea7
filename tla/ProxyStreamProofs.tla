------------------------- MODULE ProxyStreamProofs -------------------------
(***************************************************************************)
(* Proofs about a flow through a proxy: whatever the segments its answer   *)
(* arrives in, the proxy is told what the whole of its answer asks for,    *)
(* and the tunnel opens on a grant only, at the origin's first byte; and   *)
(* of the next flow, in absolute form: whatever the segments of the app's  *)
(* stream, each request goes out once, as it is meant.                     *)
(***************************************************************************)
EXTENDS ProxyStream, TLAPS, SequenceTheorems, WellFoundedInduction

(* Least elements and sequences *)

LEMMA Least ==
    ASSUME NEW S, S \subseteq Nat, S # {}
    PROVE  \E n \in S : \A m \in S : n <= m
<1> DEFINE less == OpToRel(<, Nat)
<1>1. IsWellFoundedOn(less, Nat)
  BY NatLessThanWellFounded
<1>2. PICK n \in S : \A m \in S : ~ (<<m, n>> \in less)
  <2> HIDE DEF less
  <2> QED
    BY <1>1, WFMin
<1>3. \A m \in S : <<m, n>> \in less <=> m < n
  BY DEF OpToRel
<1> HIDE DEF less
<1>4. \A m \in S : ~ (m < n)
  BY <1>2, <1>3
<1> QED
  BY <1>4

LEMMA MinIsLeast ==
    ASSUME NEW S, S \subseteq Nat, S # {}
    PROVE  Min(S) \in S /\ \A m \in S : Min(S) <= m
BY Least DEF Min

LEMMA Part ==
    ASSUME NEW B, NEW b \in Seq(B), NEW m \in Nat, NEW n \in Nat,
           1 <= m, m <= n + 1, n <= Len(b)
    PROVE  /\ SubSeq(b, m, n) \in Seq(B)
           /\ Len(SubSeq(b, m, n)) = n - m + 1
           /\ \A i \in 1..(n - m + 1) : SubSeq(b, m, n)[i] = b[m + i - 1]
<1>1. \A i \in m..n : b[i] \in B
  BY LenProperties
<1>2. Len(SubSeq(b, m, n)) = IF m <= n THEN n - m + 1 ELSE 0
  BY <1>1, SubSeqProperties
<1> QED
  BY <1>1, <1>2, SubSeqProperties

LEMMA FrontOf ==
    ASSUME NEW B, NEW b \in Seq(B), NEW n \in Nat, n <= Len(b)
    PROVE  /\ SubSeq(b, 1, n) \in Seq(B) /\ Len(SubSeq(b, 1, n)) = n
           /\ \A i \in 1..n : SubSeq(b, 1, n)[i] = b[i]
<1>1. 1 <= n + 1 /\ n - 1 + 1 = n /\ \A i \in 1..n : 1 + i - 1 = i
  OBVIOUS
<1>2. /\ SubSeq(b, 1, n) \in Seq(B) /\ Len(SubSeq(b, 1, n)) = n - 1 + 1
      /\ \A i \in 1..(n - 1 + 1) : SubSeq(b, 1, n)[i] = b[1 + i - 1]
  BY <1>1, Part
<1> QED
  BY <1>1, <1>2

\* What is left of a stream b behind its first d bytes, and behind k more of them.
Behind(b, x, y, d) ==
    /\ Len(x) + Len(y) = Len(b) - d
    /\ \A i \in 1..Len(x) : x[i] = b[d + i]
    /\ \A k \in 0..Len(x) : SubSeq(x, k + 1, Len(x)) \o y = SubSeq(b, d + k + 1, Len(b))

LEMMA Left ==
    ASSUME NEW B, NEW b \in Seq(B), NEW x \in Seq(B), NEW y \in Seq(B), NEW d \in Nat,
           d <= Len(b), x \o y = SubSeq(b, d + 1, Len(b))
    PROVE  Behind(b, x, y, d)
<1>0. Len(x) \in Nat /\ Len(y) \in Nat /\ Len(b) \in Nat
  BY LenProperties
<1>1. Len(x) + Len(y) = Len(b) - d
  <2>1. Len(x \o y) = Len(x) + Len(y)
    BY ConcatProperties
  <2>2. Len(SubSeq(b, d + 1, Len(b))) = Len(b) - d
    BY <1>0, Part
  <2> QED
    BY <2>1, <2>2
<1>2. ASSUME NEW i \in 1..(Len(x) + Len(y))
      PROVE  b[d + i] = IF i <= Len(x) THEN x[i] ELSE y[i - Len(x)]
  <2>1. (x \o y)[i] = IF i <= Len(x) THEN x[i] ELSE y[i - Len(x)]
    BY <1>0, ConcatProperties
  <2>2. SubSeq(b, d + 1, Len(b))[i] = b[d + 1 + i - 1]
    BY <1>0, <1>1, Part
  <2>3. d + 1 + i - 1 = d + i
    OBVIOUS
  <2> QED
    BY <2>1, <2>2, <2>3
<1>3. \A i \in 1..Len(x) : x[i] = b[d + i]
  BY <1>0, <1>2
<1>4. ASSUME NEW k \in 0..Len(x)
      PROVE  SubSeq(x, k + 1, Len(x)) \o y = SubSeq(b, d + k + 1, Len(b))
  <2> DEFINE u == SubSeq(x, k + 1, Len(x))
             v == SubSeq(b, d + k + 1, Len(b))
  <2>1. u \in Seq(B) /\ Len(u) = Len(x) - k /\ \A i \in 1..Len(u) : u[i] = x[k + 1 + i - 1]
    BY <1>0, Part
  <2>2. v \in Seq(B) /\ Len(v) = Len(b) - d - k /\ \A i \in 1..Len(v) : v[i] = b[d + k + 1 + i - 1]
    BY <1>0, <1>1, Part
  <2> HIDE DEF u, v
  <2>3. u \o y \in Seq(B) /\ Len(u \o y) = Len(u) + Len(y)
    BY <2>1, ConcatProperties
  <2>4. ASSUME NEW i \in 1..Len(v)
        PROVE  (u \o y)[i] = v[i]
    <3>1. i \in 1..(Len(u) + Len(y)) /\ Len(u) \in Nat
      BY <1>0, <1>1, <2>1, <2>2
    <3>2. (u \o y)[i] = IF i <= Len(u) THEN u[i] ELSE y[i - Len(u)]
      BY ConcatProperties, <1>0, <2>1, <3>1
    <3>3. k + i \in 1..(Len(x) + Len(y))
      BY <1>0, <2>1, <3>1
    <3>4. b[d + (k + i)] = IF k + i <= Len(x) THEN x[k + i] ELSE y[k + i - Len(x)]
      BY SMTT(30), <1>2, <3>3
    <3>5. d + (k + i) = d + k + 1 + i - 1 /\ k + 1 + i - 1 = k + i
      OBVIOUS
    <3> QED
      BY SMTT(30), <1>0, <2>1, <2>2, <3>1, <3>2, <3>4, <3>5
  <2>5. Len(u \o y) = Len(v)
    BY <1>0, <1>1, <2>1, <2>2, <2>3
  <2>6. u \o y = v
    BY <2>2, <2>3, <2>4, <2>5, SeqEqual
  <2> QED
    BY <2>6 DEF u, v
<1> QED
  BY <1>1, <1>3, <1>4 DEF Behind


-----------------------------------------------------------------------------
(* The state of a handshake *)

Octets(r) == ToSet(r.bytes)

Machine(B) ==
    [kind : {"http", "socks5"}, user : BOOLEAN,
     phase : {"Start", "Greeted", "Authed", "Requested"}, inbuf : Seq(B), bound : Seq(B)]

Messages ==
    {"CONNECT", socks5_greeting(TRUE), socks5_greeting(FALSE), socks5_userpass, socks5_request}

\* How far a handshake is that took the first d bytes of the answer r for good and has
\* the conversation said behind it.
Reached(r, h, said, d) ==
    LET greeting == socks5_greeting(r.user)
    IN  \/ h.phase = "Start" /\ d = 0 /\ said = <<>>
        \/ r.kind = "http" /\ h.phase = "Requested" /\ d = 0 /\ said = <<"CONNECT">>
        \/ r.kind = "socks5" /\ h.phase = "Greeted" /\ d = 0 /\ said = <<greeting>>
        \/ /\ r.kind = "socks5" /\ h.phase = "Authed" /\ d = 2 /\ PasswordAsked(r.bytes, r.user)
           /\ said = <<greeting, socks5_userpass>>
        \/ /\ r.kind = "socks5" /\ h.phase = "Requested" /\ d = 2 /\ Opens(r.bytes, r.user, 2)
           /\ said = <<greeting, socks5_request>>
        \/ /\ r.kind = "socks5" /\ h.phase = "Requested" /\ d = 4 /\ Opens(r.bytes, r.user, 4)
           /\ said = <<greeting, socks5_userpass, socks5_request>>

\* The handshake h, with what is to come behind its buffer, is d bytes into r.
At(r, h, said, rest, d) ==
    /\ h \in Machine(Octets(r)) /\ rest \in Seq(Octets(r))
    /\ h.kind = r.kind /\ h.user = r.user /\ h.bound = <<>>
    /\ d \in 0..Len(r.bytes) /\ h.inbuf \o rest = SubSeq(r.bytes, d + 1, Len(r.bytes))
    /\ Reached(r, h, said, d)

\* What a step s of a handshake in which said was said may be.
After(r, said, rest, s) ==
    /\ s.step \in {"Write", "Read", "Done", "Err"}
    /\ s.step = "Write" =>
          /\ s.bytes \in Messages
          /\ \E d \in 0..Len(r.bytes) : At(r, s.hs, Append(said, s.bytes), rest, d)
    /\ s.step = "Read" => \E d \in 0..Len(r.bytes) : At(r, s.hs, said, rest, d)
    /\ s.step = "Done" =>
          /\ r.grant /\ s.hs.bound = r.bound /\ s.bytes \in Seq(Octets(r))
          /\ s.bytes \o rest = SubSeq(r.bytes, r.origin, Len(r.bytes))

LEMMA Answers ==
    ASSUME NEW r \in Replies
    PROVE  /\ r.bytes \in Seq(Octets(r)) /\ Len(r.bytes) \in Nat
           /\ r.user \in BOOLEAN /\ r.grant \in BOOLEAN
           /\ \/ r.kind = "http" /\ HttpReply(r)
              \/ r.kind = "socks5" /\ SocksReply(r)
<1>1. /\ r.user \in BOOLEAN /\ r.grant \in BOOLEAN
      /\ \/ r.kind = "http" /\ HttpReply(r)
         \/ r.kind = "socks5" /\ SocksReply(r)
  BY StreamAssumption
<1>2. CASE HttpReply(r)
  BY <1>1, <1>2, LenProperties DEF HttpReply, Octets
<1>3. CASE SocksReply(r)
  <2>1. r.bytes \in Seq(0..255)
    BY <1>3 DEF SocksReply
  <2>2. /\ Len(r.bytes) \in Nat /\ r.bytes \in [1..Len(r.bytes) -> 0..255]
        /\ DOMAIN r.bytes = 1..Len(r.bytes)
    BY <2>1, LenProperties
  <2>3. \A i \in 1..Len(r.bytes) : r.bytes[i] \in Octets(r)
    BY <2>2 DEF Octets, ToSet
  <2>4. r.bytes \in [1..Len(r.bytes) -> Octets(r)]
    BY <2>2, <2>3
  <2>5. r.bytes \in Seq(Octets(r))
    BY <2>2, <2>4, IsASeq
  <2> QED
    BY <1>1, <2>2, <2>5
<1> QED
  BY <1>1, <1>2, <1>3

-----------------------------------------------------------------------------
(* HTTP *)

\* The first place of a token.
LEMMA FirstPlace ==
    ASSUME NEW B, NEW x \in Seq(B), NEW v, NEW n, n = SelectInSeq(x, LAMBDA b : b = v)
    PROVE  \/ n = 0 /\ \A i \in 1..Len(x) : x[i] # v
           \/ n \in 1..Len(x) /\ x[n] = v /\ \A i \in 1..(n - 1) : x[i] # v
<1> DEFINE places == {i \in 1..Len(x) : x[i] = v}
<1>0. Len(x) \in Nat
  BY LenProperties
<1>1. n = IF places # {} THEN Min(places) ELSE 0
  BY DEF SelectInSeq
<1>2. CASE places = {}
  BY <1>1, <1>2
<1>3. CASE places # {}
  <2>1. places \subseteq Nat
    OBVIOUS
  <2>2. n = Min(places)
    BY <1>1, <1>3
  <2>3. n \in places /\ \A m \in places : n <= m
    <3> HIDE DEF places
    <3> QED
      BY <1>3, <2>1, <2>2, MinIsLeast
  <2>4. n \in 1..Len(x) /\ x[n] = v
    BY <2>3
  <2>5. ASSUME NEW i \in 1..(n - 1)
        PROVE  x[i] # v
    <3>1. i \in 1..Len(x) /\ ~ (n <= i)
      BY <1>0, <2>4
    <3> QED
      BY <2>3, <3>1
  <2> QED
    BY <2>4, <2>5
<1> QED
  BY <1>2, <1>3

LEMMA StatusMeans ==
    ASSUME NEW B, NEW x \in Seq(B), status(x) \in {"200", "204"}
    PROVE  \E s \in 1..(Len(x) - 1) :
              /\ x[s] = "SP" /\ x[s + 1] = status(x)
              /\ \A i \in 1..(s - 1) : x[i] \notin {"SP", "CR"}
<1> DEFINE c == SelectInSeq(x, LAMBDA b : b = "CR")
           line == SubSeq(x, 1, c - 1)
           s == SelectInSeq(line, LAMBDA b : b = "SP")
<1>0. Len(x) \in Nat
  BY LenProperties
<1>1. \/ c = 0 /\ \A i \in 1..Len(x) : x[i] # "CR"
      \/ c \in 1..Len(x) /\ x[c] = "CR" /\ \A i \in 1..(c - 1) : x[i] # "CR"
  BY FirstPlace
<1>2. status(x) = LET code == IF s = 0 \/ s = Len(line) THEN "none" ELSE line[s + 1]
                  IN  IF code \in Codes THEN code ELSE "none"
  BY DEF status
<1> HIDE DEF c
<1>3. /\ line \in Seq(B) /\ Len(line) = IF c = 0 THEN 0 ELSE c - 1
      /\ \A i \in 1..Len(line) : line[i] = x[i]
  <2>1. \A i \in 1..(c - 1) : x[i] \in B
    BY <1>0, <1>1, LenProperties
  <2>2. /\ line \in Seq(B) /\ Len(line) = IF 1 <= c - 1 THEN c - 1 - 1 + 1 ELSE 0
        /\ \A i \in 1..(c - 1 - 1 + 1) : line[i] = x[1 + i - 1]
    BY <1>0, <1>1, <2>1, SubSeqProperties
  <2> HIDE DEF line
  <2>3. Len(line) = IF c = 0 THEN 0 ELSE c - 1
    BY <1>0, <1>1, <2>2
  <2>4. ASSUME NEW i \in 1..Len(line)
        PROVE  line[i] = x[i]
    <3>1. i \in 1..(c - 1 - 1 + 1) /\ 1 + i - 1 = i
      BY <1>0, <1>1, <2>3
    <3> QED
      BY <2>2, <3>1
  <2> QED
    BY <2>2, <2>3, <2>4
<1> HIDE DEF line
<1>4. \/ s = 0 /\ \A i \in 1..Len(line) : line[i] # "SP"
      \/ s \in 1..Len(line) /\ line[s] = "SP" /\ \A i \in 1..(s - 1) : line[i] # "SP"
  <2>1. line \in Seq(B)
    BY <1>3
  <2> QED
    BY <2>1, FirstPlace
<1> HIDE DEF s
<1>5. ~ (s = 0 \/ s = Len(line)) /\ line[s + 1] = status(x)
  BY <1>2, <1>4
<1>6. /\ s \in 1..(Len(x) - 1) /\ s \in 1..Len(line) /\ s + 1 \in 1..Len(line)
      /\ \A i \in 1..(s - 1) : i \in 1..Len(line) /\ i \in 1..(c - 1) /\ i \in 1..Len(x)
  BY SMTT(30), <1>0, <1>1, <1>3, <1>4, <1>5
<1>7. x[s] = "SP" /\ x[s + 1] = status(x)
  BY <1>3, <1>4, <1>5, <1>6
<1>8. ASSUME NEW i \in 1..(s - 1)
      PROVE  x[i] \notin {"SP", "CR"}
  BY <1>1, <1>3, <1>4, <1>5, <1>6, <1>8
<1> QED
  BY <1>6, <1>7, <1>8

LEMMA HeadersEnd ==
    ASSUME NEW B, NEW x \in Seq(B), NEW end, end = find_headers_end(x)
    PROVE  \/ end = 0
           \/ /\ end \in 4..Len(x) /\ EmptyLine(x, end - 3)
              /\ \A i \in 1..(end - 4) : ~ EmptyLine(x, i)
<1> DEFINE ends == {i \in 1..(Len(x) - 3) : SubSeq(x, i, i + 3) = <<"CR", "LF", "CR", "LF">>}
<1>0. Len(x) \in Nat
  BY LenProperties
<1>1. end = IF ends = {} THEN 0 ELSE Min(ends) + 3
  BY DEF find_headers_end
<1>2. CASE ends = {}
  BY <1>1, <1>2
<1>3. CASE ends # {}
  <2> DEFINE m == Min(ends)
  <2>1. m \in ends /\ \A i \in ends : m <= i
    <3>1. ends \subseteq Nat
      OBVIOUS
    <3> HIDE DEF ends
    <3> QED
      BY <1>3, <3>1, MinIsLeast
  <2>2. end = m + 3
    BY <1>1, <1>3
  <2> HIDE DEF m
  <2>3. m \in 1..(Len(x) - 3) /\ SubSeq(x, m, m + 3) = <<"CR", "LF", "CR", "LF">>
    BY <2>1
  <2>4. end - 3 = m /\ end \in 4..Len(x) /\ m + 3 <= Len(x)
    BY <1>0, <2>2, <2>3
  <2>5. EmptyLine(x, end - 3)
    BY <2>3, <2>4 DEF EmptyLine
  <2>6. ASSUME NEW i \in 1..(end - 4), EmptyLine(x, i)
        PROVE  FALSE
    <3>1. i \in 1..(Len(x) - 3) /\ ~ (m <= i)
      BY <1>0, <2>2, <2>3
    <3>2. i \in ends
      BY <2>6, <3>1 DEF EmptyLine
    <3> QED
      BY <2>1, <3>1, <3>2
  <2> QED
    BY <2>4, <2>5, <2>6
<1> QED
  BY <1>2, <1>3

\* An empty line is where it is in what is behind, too.
LEMMA EmptyLineStays ==
    ASSUME NEW B, NEW b \in Seq(B), NEW x \in Seq(B), Len(x) <= Len(b),
           \A i \in 1..Len(x) : x[i] = b[i],
           NEW i \in 1..(Len(x) - 3)
    PROVE  EmptyLine(x, i) <=> EmptyLine(b, i)
<1>0. Len(x) \in Nat /\ Len(b) \in Nat
  BY LenProperties
<1>1. i + 3 <= Len(x) /\ i + 3 <= Len(b) /\ i \in Nat /\ 1 <= i
  BY <1>0
<1>2. SubSeq(x, i, i + 3) = SubSeq(b, i, i + 3)
  <2> DEFINE u == SubSeq(x, i, i + 3)
             v == SubSeq(b, i, i + 3)
  <2>1. u \in Seq(B) /\ Len(u) = i + 3 - i + 1 /\ \A j \in 1..(i + 3 - i + 1) : u[j] = x[i + j - 1]
    BY <1>0, <1>1, Part
  <2>2. v \in Seq(B) /\ Len(v) = i + 3 - i + 1 /\ \A j \in 1..(i + 3 - i + 1) : v[j] = b[i + j - 1]
    BY <1>0, <1>1, Part
  <2> HIDE DEF u, v
  <2>3. \A j \in 1..(i + 3 - i + 1) : i + j - 1 \in 1..Len(x)
    BY <1>0, <1>1
  <2>4. \A j \in 1..(i + 3 - i + 1) : u[j] = v[j]
    BY <2>1, <2>2, <2>3
  <2>5. u = v
    BY <2>1, <2>2, <2>4, SeqEqual
  <2> QED
    BY <2>5 DEF u, v
<1> QED
  BY <1>1, <1>2 DEF EmptyLine

LEMMA GrantIsOne ==
    ASSUME NEW b, NEW o \in Nat, NEW p \in Nat, HttpGrants(b, o), HttpGrants(b, p)
    PROVE  o = p
<1>1. o > 4 /\ EmptyLine(b, o - 4) /\ \A i \in 1..(o - 5) : ~ EmptyLine(b, i)
  BY DEF HttpGrants
<1>2. p > 4 /\ EmptyLine(b, p - 4) /\ \A i \in 1..(p - 5) : ~ EmptyLine(b, i)
  BY DEF HttpGrants
<1>3. o < p => o - 4 \in 1..(p - 5)
  BY <1>1
<1>4. p < o => p - 4 \in 1..(o - 5)
  BY <1>2
<1> QED
  BY <1>1, <1>2, <1>3, <1>4

\* A reply that its front x shows to grant does so as a whole.
LEMMA GrantShows ==
    ASSUME NEW B, NEW b \in Seq(B), NEW x \in Seq(B), Len(x) <= Len(b),
           \A i \in 1..Len(x) : x[i] = b[i],
           NEW end, end = find_headers_end(x), end # 0, status(x) \in {"200", "204"}
    PROVE  end \in 4..Len(x) /\ HttpGrants(b, end + 1)
<1>0. Len(x) \in Nat /\ Len(b) \in Nat
  BY LenProperties
<1>1. /\ end \in 4..Len(x) /\ EmptyLine(x, end - 3)
      /\ \A i \in 1..(end - 4) : ~ EmptyLine(x, i)
  BY HeadersEnd
<1>2. PICK s \in 1..(Len(x) - 1) :
         /\ x[s] = "SP" /\ x[s + 1] = status(x)
         /\ \A i \in 1..(s - 1) : x[i] \notin {"SP", "CR"}
  BY StatusMeans
<1> DEFINE o == end + 1
<1>3. /\ o > 4 /\ o - 4 = end - 3 /\ o - 5 = end - 4 /\ o - 2 = end - 1 /\ o \in Nat
      /\ end - 3 \in 1..(Len(x) - 3)
  BY SMTT(30), <1>0, <1>1
<1> HIDE DEF o
<1>4. EmptyLine(b, o - 4)
  BY ZenonT(60), <1>1, <1>3, EmptyLineStays
<1>5. \A i \in 1..(o - 5) : ~ EmptyLine(b, i)
  <2> TAKE i \in 1..(o - 5)
  <2>1. i \in 1..(end - 4) /\ i \in 1..(Len(x) - 3)
    BY SMTT(30), <1>0, <1>1, <1>3
  <2> QED
    BY <1>1, <2>1, EmptyLineStays
<1>6. s \in 1..(o - 2)
  <2>1. s <= end - 3 => s \in 1..(o - 2)
    BY <1>0, <1>1, <1>3
  <2>2. SUFFICES ASSUME end - 3 < s
                 PROVE  FALSE
    BY <1>0, <1>1, <2>1
  <2>3. x[end - 3] = "CR"
    <3> DEFINE u == SubSeq(x, end - 3, end - 3 + 3)
    <3>1. u = <<"CR", "LF", "CR", "LF">>
      BY <1>1 DEF EmptyLine
    <3>2. end - 3 \in Nat /\ 1 <= end - 3 /\ end - 3 <= end - 3 + 3 + 1 /\ end - 3 + 3 <= Len(x)
          /\ end - 3 + 3 \in Nat /\ 1 \in 1..(end - 3 + 3 - (end - 3) + 1)
          /\ end - 3 + 1 - 1 = end - 3
      BY <1>0, <1>1
    <3>3. u[1] = x[end - 3 + 1 - 1]
      BY <3>2, Part
    <3> HIDE DEF u
    <3>4. u[1] = "CR"
      BY <3>1
    <3> QED
      BY <3>2, <3>3, <3>4
  <2>4. end - 3 \in 1..(s - 1)
    BY <1>0, <1>1, <2>2
  <2> QED
    BY <1>2, <2>3, <2>4
<1>7. /\ b[s] = "SP" /\ b[s + 1] \in {"200", "204"}
      /\ \A i \in 1..(s - 1) : b[i] \notin {"SP", "CR"}
  <2>1. s \in 1..Len(x) /\ s + 1 \in 1..Len(x) /\ \A i \in 1..(s - 1) : i \in 1..Len(x)
    BY <1>0
  <2> QED
    BY <1>2, <2>1
<1>8. \E i \in 1..(o - 2) : /\ b[i] = "SP" /\ b[i + 1] \in {"200", "204"}
                           /\ \A j \in 1..(i - 1) : b[j] \notin {"SP", "CR"}
  BY <1>6, <1>7
<1>9. HttpGrants(b, o)
  BY <1>3, <1>4, <1>5, <1>8 DEF HttpGrants
<1> QED
  BY <1>1, <1>9 DEF o

LEMMA HttpTurn ==
    ASSUME NEW r \in Replies, r.kind = "http", NEW h, NEW said, NEW rest, NEW d,
           At(r, h, said, rest, d), NEW s, s = http_step(h)
    PROVE  After(r, said, rest, s)
<1> DEFINE B == Octets(r)
           b == r.bytes
           x == h.inbuf
           n == Len(r.bytes)
<1>1. b \in Seq(B) /\ n \in Nat /\ HttpReply(r)
  BY Answers
<1>2. /\ h \in Machine(B) /\ rest \in Seq(B)
      /\ h.kind = r.kind /\ h.user = r.user /\ h.bound = <<>>
      /\ x \o rest = SubSeq(b, d + 1, n) /\ Reached(r, h, said, d)
  BY DEF At
<1>3. /\ d = 0
      /\ \/ h.phase = "Start" /\ said = <<>>
         \/ h.phase = "Requested" /\ said = <<"CONNECT">>
  BY <1>2 DEF Reached
<1>4. x \in Seq(B)
  BY <1>2 DEF Machine
<1>5. CASE h.phase = "Start"
  <2> DEFINE g == [h EXCEPT !.phase = "Requested"]
  <2>1. s = [hs |-> g, step |-> "Write", bytes |-> "CONNECT"]
    BY <1>5 DEF http_step, Write
  <2>2. /\ g \in Machine(B) /\ g.kind = r.kind /\ g.user = r.user /\ g.bound = <<>>
        /\ g.inbuf = x /\ g.phase = "Requested"
    BY <1>2 DEF Machine
  <2> HIDE DEF g
  <2>3. Append(said, "CONNECT") = <<"CONNECT">>
    BY <1>3, <1>5
  <2>4. Reached(r, g, <<"CONNECT">>, 0)
    BY <2>2 DEF Reached
  <2>5. At(r, g, <<"CONNECT">>, rest, 0)
    BY <1>1, <1>2, <1>3, <2>2, <2>4 DEF At
  <2>6. 0 \in 0..n
    BY <1>1
  <2>7. s.step = "Write" /\ s.hs = g /\ s.bytes = "CONNECT"
    BY <2>1
  <2>8. \E e \in 0..n : At(r, s.hs, Append(said, s.bytes), rest, e)
    BY <2>3, <2>5, <2>6, <2>7
  <2>9. s.bytes \in Messages
    BY <2>7 DEF Messages
  <2> QED
    BY <2>7, <2>8, <2>9 DEF After
<1>6. CASE h.phase = "Requested"
  <2> DEFINE end == find_headers_end(x)
  <2>0. s = parse_http_reply(h)
    BY <1>6 DEF http_step
  <2>1. CASE end = 0
    <3>1. s = [hs |-> h, step |-> "Read", bytes |-> <<>>]
      BY <2>0, <2>1 DEF parse_http_reply, Read
    <3>2. 0 \in 0..n
      BY <1>1
    <3> QED
      BY <1>3, <3>1, <3>2 DEF After
  <2>2. CASE end # 0 /\ status(x) \notin {"200", "204"}
    <3>1. s.step = "Err"
      BY <2>0, <2>2 DEF parse_http_reply, Err
    <3> QED
      BY <3>1 DEF After
  <2>3. CASE end # 0 /\ status(x) \in {"200", "204"}
    <3>1. s = [hs |-> h, step |-> "Done", bytes |-> SubSeq(x, end + 1, Len(x))]
      <4>1. status(x) # "none"
        BY <2>3
      <4> QED
        BY <2>0, <2>3, <4>1 DEF parse_http_reply, Done
    <3>0. n = Len(b)
      OBVIOUS
    <3> HIDE DEF end, x, n, b, B
    <3>2. d \in Nat /\ d <= n
      BY <1>1, <1>3
    <3>3. /\ Len(x) + Len(rest) = n - d /\ \A i \in 1..Len(x) : x[i] = b[d + i]
          /\ \A k \in 0..Len(x) : SubSeq(x, k + 1, Len(x)) \o rest = SubSeq(b, d + k + 1, n)
      <4>1. x \o rest = SubSeq(b, d + 1, Len(b)) /\ d <= Len(b) /\ b \in Seq(B) /\ rest \in Seq(B)
        BY <1>1, <1>2, <3>0, <3>2
      <4>2. x \in Seq(B) /\ d \in Nat
        BY <1>4, <3>2
      <4>3. Behind(b, x, rest, d)
        BY <4>1, <4>2, Left
      <4> QED
        BY <3>0, <4>3 DEF Behind
    <3>4. Len(x) \in Nat /\ Len(rest) \in Nat
      BY <1>2, <1>4, LenProperties
    <3>5. Len(x) <= n /\ \A i \in 1..Len(x) : x[i] = b[i]
      BY <1>1, <1>3, <3>3, <3>4
    <3>6. end \in 4..Len(x) /\ HttpGrants(b, end + 1)
      BY <1>1, <1>4, <2>3, <3>0, <3>5, GrantShows DEF end
    <3>7. end + 1 \in 1..(n + 1)
      BY <1>1, <3>4, <3>5, <3>6
    <3>8. r.grant /\ r.bound = <<>>
      BY <1>1, <3>6, <3>7 DEF HttpReply, b, n
    <3>9. r.origin = end + 1
      <4>1. HttpGrants(b, r.origin)
        BY <1>1, <3>8 DEF HttpReply, b
      <4>2. r.origin \in Nat
        BY StreamAssumption
      <4>3. end + 1 \in Nat
        BY <3>7
      <4> QED
        BY <3>6, <4>1, <4>2, <4>3, GrantIsOne
    <3>10. SubSeq(x, end + 1, Len(x)) \o rest = SubSeq(b, end + 1, n)
      <4>1. end \in 0..Len(x) /\ d + end + 1 = end + 1
        BY <1>3, <3>4, <3>6
      <4> QED
        BY <3>3, <4>1
    <3>11. SubSeq(x, end + 1, Len(x)) \in Seq(B)
      BY <1>4, <3>4, <3>6, Part
    <3> DEFINE leftover == SubSeq(x, end + 1, Len(x))
    <3>12. s = [hs |-> h, step |-> "Done", bytes |-> leftover]
      BY <3>1
    <3> HIDE DEF leftover
    <3>13. s.step = "Done" /\ s.hs = h /\ s.bytes = leftover
      BY <3>12
    <3> QED
      BY <1>2, <3>8, <3>9, <3>10, <3>11, <3>13 DEF After, b, n, B, leftover
  <2> QED
    BY <2>1, <2>2, <2>3
<1> QED
  BY <1>3, <1>5, <1>6

-----------------------------------------------------------------------------
(* SOCKS5 *)

\* Two bytes are answered.
TwoTaken(b, x, y, d, S) ==
    /\ SubSeq(x, 3, Len(x)) \in S
    /\ SubSeq(x, 3, Len(x)) \o y = SubSeq(b, (d + 2) + 1, Len(b))
    /\ d + 2 \in 0..Len(b) /\ x[1] = b[d + 1] /\ x[2] = b[d + 2]

LEMMA TwoBytes ==
    ASSUME NEW B, NEW b \in Seq(B), NEW x \in Seq(B), NEW y \in Seq(B), NEW d \in Nat,
           d <= Len(b), x \o y = SubSeq(b, d + 1, Len(b)), ~ (Len(x) < 2)
    PROVE  TwoTaken(b, x, y, d, Seq(B))
<1>0. Len(x) \in Nat /\ Len(y) \in Nat /\ Len(b) \in Nat
  BY LenProperties
<1>1. Behind(b, x, y, d)
  BY Left
<1>2. Len(x) + Len(y) = Len(b) - d /\ \A i \in 1..Len(x) : x[i] = b[d + i]
  BY <1>1 DEF Behind
<1>3. \A k \in 0..Len(x) : SubSeq(x, k + 1, Len(x)) \o y = SubSeq(b, d + k + 1, Len(b))
  BY <1>1 DEF Behind
<1>4. SubSeq(x, 3, Len(x)) \o y = SubSeq(b, (d + 2) + 1, Len(b))
  <2>1. 2 \in 0..Len(x) /\ 2 + 1 = 3
    BY <1>0
  <2>2. SubSeq(x, 2 + 1, Len(x)) \o y = SubSeq(b, d + 2 + 1, Len(b))
    BY <1>3, <2>1
  <2> QED
    BY <2>1, <2>2
<1>5. SubSeq(x, 3, Len(x)) \in Seq(B)
  BY <1>0, Part
<1>6. d + 2 \in 0..Len(b) /\ x[1] = b[d + 1] /\ x[2] = b[d + 2]
  BY SMTT(30), <1>0, <1>2
<1> QED
  BY <1>4, <1>5, <1>6 DEF TwoTaken

\* The parts of parts.
LEMMA PartOfPart ==
    ASSUME NEW B, NEW b \in Seq(B), NEW x \in Seq(B), NEW d \in Nat, NEW n \in Nat, NEW m \in Nat,
           1 <= m, m <= n, n <= Len(x), d + n <= Len(b), \A i \in 1..Len(x) : x[i] = b[d + i]
    PROVE  SubSeq(SubSeq(x, 1, n), m, n) = SubSeq(b, d + m, d + n)
<1> DEFINE u == SubSeq(x, 1, n)
           v == SubSeq(u, m, n)
           w == SubSeq(b, d + m, d + n)
<1>0. Len(x) \in Nat /\ Len(b) \in Nat
  BY LenProperties
<1>1. u \in Seq(B) /\ Len(u) = n - 1 + 1 /\ \A i \in 1..(n - 1 + 1) : u[i] = x[1 + i - 1]
  BY <1>0, Part
<1> HIDE DEF u
<1>2. n - 1 + 1 = n
  OBVIOUS
<1>3. v \in Seq(B) /\ Len(v) = n - m + 1 /\ \A i \in 1..(n - m + 1) : v[i] = u[m + i - 1]
  BY <1>1, <1>2, Part
<1>4. w \in Seq(B) /\ Len(w) = d + n - (d + m) + 1
      /\ \A i \in 1..(d + n - (d + m) + 1) : w[i] = b[d + m + i - 1]
  BY <1>0, Part
<1> HIDE DEF v, w
<1>5. d + n - (d + m) + 1 = n - m + 1
  OBVIOUS
<1>6. ASSUME NEW i \in 1..(n - m + 1)
      PROVE  v[i] = w[i]
  <2>1. /\ m + i - 1 \in 1..n /\ m + i - 1 \in 1..Len(x)
        /\ 1 + (m + i - 1) - 1 = m + i - 1 /\ d + (m + i - 1) = d + m + i - 1
    BY <1>0
  <2>2. u[m + i - 1] = x[m + i - 1]
    BY <1>1, <1>2, <2>1
  <2>3. x[m + i - 1] = b[d + m + i - 1]
    BY <2>1
  <2> QED
    BY <1>3, <1>4, <1>5, <2>2, <2>3
<1>7. v = w
  BY <1>3, <1>4, <1>5, <1>6, SeqEqual
<1> QED
  BY <1>7 DEF u, v, w

\* A whole reply: its length n is that of the address its type says.
Whole(x, n) ==
    /\ Len(x) >= 5 /\ x[4] \in {1, 3, 4} /\ n \in 7..Len(x)
    /\ x[4] = 1 => n = 10
    /\ x[4] = 4 => n = 22
    /\ x[4] = 3 => n = 7 + x[5]

LEMMA ReplyWhole ==
    ASSUME NEW B, B \subseteq Nat, NEW x \in Seq(B), NEW n, n = socks5_reply_len(x), n # 0, n # -1
    PROVE  Whole(x, n)
<1>0. Len(x) \in Nat
  BY LenProperties
<1> DEFINE addr_len == CASE x[4] = 1 -> 4 [] x[4] = 4 -> 16 [] x[4] = 3 -> 1 + x[5]
<1>1. n = IF Len(x) < 4 \/ (x[4] = 3 /\ Len(x) < 5) THEN 0
          ELSE IF x[4] \notin {1, 3, 4} THEN -1
          ELSE IF Len(x) < 4 + addr_len + 2 THEN 0 ELSE 4 + addr_len + 2
  BY DEF socks5_reply_len
<1>2. ~ (Len(x) < 4 \/ (x[4] = 3 /\ Len(x) < 5)) /\ x[4] \in {1, 3, 4}
  <2> HIDE DEF addr_len
  <2> QED
    BY <1>1
<1>3. n = 4 + addr_len + 2 /\ ~ (Len(x) < 4 + addr_len + 2)
  <2> HIDE DEF addr_len
  <2> QED
    BY <1>1, <1>2
<1>4. CASE x[4] = 1
  <2>1. addr_len = 4
    BY <1>4
  <2> HIDE DEF addr_len
  <2> QED
    BY <1>0, <1>2, <1>3, <1>4, <2>1 DEF Whole
<1>5. CASE x[4] = 4
  <2>1. addr_len = 16
    BY <1>5
  <2> HIDE DEF addr_len
  <2> QED
    BY <1>0, <1>2, <1>3, <1>5, <2>1 DEF Whole
<1>6. CASE x[4] = 3
  <2>1. addr_len = 1 + x[5]
    BY <1>6
  <2>2. Len(x) >= 5
    BY <1>0, <1>2, <1>6
  <2>3. x[5] \in Nat
    <3>1. 5 \in 1..Len(x)
      BY <1>0, <2>2
    <3>2. x[5] \in B
      BY <3>1, LenProperties
    <3> QED
      BY <3>2
  <2> HIDE DEF addr_len
  <2> QED
    BY SMTT(30), <1>0, <1>2, <1>3, <1>6, <2>1, <2>2, <2>3 DEF Whole
<1> QED
  BY <1>2, <1>4, <1>5, <1>6

\* A reply whose front x is a success grants as a whole, behind its first d bytes.
Succeeds(b, x, y, d, user, n, o) ==
    /\ n \in 7..Len(x) /\ o \in 1..(Len(b) + 1)
    /\ SocksGrants(b, user, d, o)
    /\ parse_socks5_bound(SubSeq(x, 1, n)) = Bound(b, d, o)
    /\ SubSeq(x, n + 1, Len(x)) \o y = SubSeq(b, o, Len(b))

LEMMA SuccessShows ==
    ASSUME NEW B, B \subseteq Nat, NEW b \in Seq(B), NEW x \in Seq(B), NEW y \in Seq(B),
           NEW d \in Nat, Behind(b, x, y, d), NEW user, Opens(b, user, d),
           NEW n \in Nat, Whole(x, n), x[1] = 5, x[2] = 0,
           NEW o \in Nat, o = d + n + 1
    PROVE  Succeeds(b, x, y, d, user, n, o)
<1>0. Len(x) \in Nat /\ Len(y) \in Nat /\ Len(b) \in Nat
  BY LenProperties
<1>2. Len(x) + Len(y) = Len(b) - d /\ \A i \in 1..Len(x) : x[i] = b[d + i]
  BY DEF Behind
<1>3. \A k \in 0..Len(x) : SubSeq(x, k + 1, Len(x)) \o y = SubSeq(b, d + k + 1, Len(b))
  BY DEF Behind
<1>4. /\ Len(x) >= 5 /\ x[4] \in {1, 3, 4} /\ n \in 7..Len(x)
      /\ x[4] = 1 => n = 10
      /\ x[4] = 4 => n = 22
      /\ x[4] = 3 => n = 7 + x[5]
  BY DEF Whole
<1>5. /\ x[1] = b[d + 1] /\ x[2] = b[d + 2] /\ x[4] = b[d + 4] /\ x[5] = b[d + 5]
      /\ Len(b) >= d + 5 /\ d + n <= Len(b) /\ n \in Nat /\ d \in Nat
  <2>1. 1 \in 1..Len(x) /\ 2 \in 1..Len(x) /\ 4 \in 1..Len(x) /\ 5 \in 1..Len(x)
    BY <1>0, <1>4
  <2>2. x[1] = b[d + 1] /\ x[2] = b[d + 2] /\ x[4] = b[d + 4] /\ x[5] = b[d + 5]
    BY <1>2, <2>1
  <2>3. n \in Nat /\ d \in Nat /\ n <= Len(x) /\ Len(x) + Len(y) = Len(b) - d
    BY <1>0, <1>2, <1>4
  <2>4. Len(b) >= d + 5 /\ d + n <= Len(b)
    BY <1>0, <1>4, <2>3
  <2> QED
    BY <2>2, <2>3, <2>4
<1>6. o \in 1..(Len(b) + 1) /\ o - 1 = d + n /\ o - 1 <= Len(b)
  <2>1. d + n <= Len(b) /\ n \in Nat /\ d \in Nat
    BY <1>5
  <2>2. o = d + n + 1
    OBVIOUS
  <2> QED
    BY ONLY <1>0, <2>1, <2>2
<1>7. o = d + Address(b, d) + 7
  <2>1. CASE b[d + 4] = 1
    <3>1. Address(b, d) = 4 /\ n = 10
      BY <1>4, <1>5, <2>1 DEF Address
    <3> QED
      BY <1>5, <3>1
  <2>2. CASE b[d + 4] = 4
    <3>1. Address(b, d) = 16 /\ n = 22
      BY <1>4, <1>5, <2>2 DEF Address
    <3> QED
      BY <1>5, <3>1
  <2>3. CASE b[d + 4] = 3
    <3>1. Address(b, d) = 1 + x[5] /\ n = 7 + x[5]
      BY <1>4, <1>5, <2>3 DEF Address
    <3>2. x[5] \in Nat
      <4>1. 5 \in 1..Len(x)
        BY <1>0, <1>4
      <4>2. x[5] \in B
        BY <4>1, LenProperties
      <4> QED
        BY <4>2
    <3>3. \A v \in Nat : d + (7 + v) + 1 = d + (1 + v) + 7
      OBVIOUS
    <3> QED
      BY <3>1, <3>2, <3>3
  <2> QED
    BY <1>4, <1>5, <2>1, <2>2, <2>3
<1>8. SocksGrants(b, user, d, o)
  BY <1>4, <1>5, <1>6, <1>7 DEF SocksGrants
<1>9. parse_socks5_bound(SubSeq(x, 1, n)) = Bound(b, d, o)
  <2> DEFINE front == SubSeq(x, 1, n)
  <2>1. front[4] = x[4]
    <3>1. /\ 1 \in Nat /\ 1 <= 1 /\ 1 <= n + 1 /\ n <= Len(x) /\ 4 \in 1..(n - 1 + 1) /\ 1 + 4 - 1 = 4
      BY <1>0, <1>4
    <3>2. front[4] = x[1 + 4 - 1]
      BY <1>5, <3>1, Part
    <3> QED
      BY <3>1, <3>2
  <2>2. SubSeq(front, 5, n) = SubSeq(b, d + 5, o - 1)
    <3>1. SubSeq(front, 5, n) = SubSeq(b, d + 5, d + n)
      <4>1. /\ d \in Nat /\ n \in Nat /\ 5 \in Nat /\ 1 <= 5 /\ 5 <= n /\ n <= Len(x) /\ d + n <= Len(b)
        BY <1>0, <1>4, <1>5
      <4>2. \A i \in 1..Len(x) : x[i] = b[d + i]
        BY <1>2
      <4>3. b \in Seq(B) /\ x \in Seq(B)
        OBVIOUS
      <4>4. SubSeq(SubSeq(x, 1, n), 5, n) = SubSeq(b, d + 5, d + n)
        BY ONLY <4>1, <4>2, <4>3, PartOfPart
      <4> QED
        BY <4>4, Zenon
    <3> QED
      BY <1>6, <3>1
  <2> HIDE DEF front
  <2>3. parse_socks5_bound(front) = IF x[4] = 3 THEN <<>> ELSE SubSeq(front, 5, n)
    <3>1. CASE x[4] = 1
      <4>1. front[4] = 1 /\ n = 10
        BY <1>4, <2>1, <3>1
      <4> QED
        BY <3>1, <4>1 DEF parse_socks5_bound
    <3>2. CASE x[4] = 4
      <4>1. front[4] = 4 /\ front[4] # 1 /\ n = 22
        BY <1>4, <2>1, <3>2
      <4>2. parse_socks5_bound(front) = SubSeq(front, 5, 22)
        BY <4>1 DEF parse_socks5_bound
      <4> QED
        BY <3>2, <4>1, <4>2
    <3>3. CASE x[4] = 3
      BY <1>4, <2>1, <3>3 DEF parse_socks5_bound
    <3> QED
      BY <1>4, <3>1, <3>2, <3>3
  <2>4. parse_socks5_bound(front) = Bound(b, d, o)
    BY <1>5, <2>2, <2>3 DEF Bound
  <2> QED
    BY <2>4 DEF front
<1>10. SubSeq(x, n + 1, Len(x)) \o y = SubSeq(b, o, Len(b))
  <2>1. n \in 0..Len(x)
    BY <1>0, <1>4
  <2> QED
    BY <1>3, <2>1
<1> QED
  BY <1>4, <1>6, <1>8, <1>9, <1>10 DEF Succeeds

LEMMA OpensOnce ==
    ASSUME NEW b, NEW user, NEW n \in {2, 4}, NEW m \in {2, 4}, Opens(b, user, n), Opens(b, user, m)
    PROVE  n = m
BY DEF Opens, PasswordAsked

LEMMA AppendAt ==
    ASSUME NEW S, NEW s \in Seq(S), NEW e \in S, NEW i \in 1..Len(s)
    PROVE  Append(s, e)[i] = s[i]
BY AppendProperties

LEMMA AppendedOne ==
    ASSUME NEW u, NEW v
    PROVE  Append(<<u>>, v) = <<u, v>>
<1> DEFINE B == {u, v}
           s == <<u>>
           t == Append(s, v)
           q == <<u, v>>
<1>1. s \in Seq(B) /\ v \in B /\ q \in Seq(B) /\ Len(q) = 2 /\ Len(s) = 1
      /\ s[1] = u /\ q[1] = u /\ q[2] = v
  OBVIOUS
<1> HIDE DEF B, s, q
<1>2. t \in Seq(B) /\ Len(t) = 2 /\ t[2] = v /\ t[1] = u
  <2>1. t \in Seq(B)
    BY <1>1, AppendProperties
  <2>2. Len(t) = Len(s) + 1
    BY ZenonT(60), <1>1, AppendProperties
  <2>3. t[Len(s) + 1] = v
    BY <1>1, AppendProperties
  <2>4. 1 \in 1..Len(s)
    BY <1>1
  <2>5. t[1] = s[1]
    BY <1>1, <2>4, AppendProperties
  <2> QED
    BY <1>1, <2>1, <2>2, <2>3, <2>5
<1> HIDE DEF t
<1>3. \A i \in 1..2 : t[i] = q[i]
  BY <1>1, <1>2
<1>4. t = q
  BY <1>1, <1>2, <1>3, SeqEqual
<1> QED
  BY <1>4 DEF t, s, q

LEMMA AppendedTwo ==
    ASSUME NEW u, NEW v, NEW w
    PROVE  Append(<<u, v>>, w) = <<u, v, w>>
<1> DEFINE B == {u, v, w}
           s == <<u, v>>
           t == Append(s, w)
           q == <<u, v, w>>
<1>1. s \in Seq(B) /\ w \in B /\ q \in Seq(B) /\ Len(q) = 3 /\ Len(s) = 2
      /\ s[1] = u /\ s[2] = v /\ q[1] = u /\ q[2] = v /\ q[3] = w
  OBVIOUS
<1> HIDE DEF B, s, q
<1>2. t \in Seq(B) /\ Len(t) = 3 /\ t[3] = w /\ t[1] = u /\ t[2] = v
  <2>1. t \in Seq(B)
    BY <1>1, AppendProperties
  <2>2. Len(t) = Len(s) + 1
    BY ZenonT(60), <1>1, AppendProperties
  <2>3. t[Len(s) + 1] = w
    BY <1>1, AppendProperties
  <2>4. 1 \in 1..Len(s) /\ 2 \in 1..Len(s)
    BY <1>1
  <2>5. t[1] = s[1]
    BY SMTT(30), <1>1, <2>4, AppendProperties
  <2>6. t[2] = s[2]
    BY <1>1, <2>4, AppendAt
  <2> QED
    BY <1>1, <2>1, <2>2, <2>3, <2>5, <2>6
<1> HIDE DEF t
<1>3. \A i \in 1..3 : t[i] = q[i]
  <2>1. \A i \in 1..3 : i = 1 \/ i = 2 \/ i = 3
    OBVIOUS
  <2>2. t[1] = q[1] /\ t[2] = q[2] /\ t[3] = q[3]
    BY <1>1, <1>2
  <2> QED
    BY <2>1, <2>2
<1>4. t = q
  BY <1>1, <1>2, <1>3, SeqEqual
<1> QED
  BY <1>4 DEF t, s, q

LEMMA Appended ==
    /\ \A u, v : Append(<<u>>, v) = <<u, v>>
    /\ \A u, v, w : Append(<<u, v>>, w) = <<u, v, w>>
BY AppendedOne, AppendedTwo

Phases == {"Start", "Greeted", "Authed", "Requested"}

MovedTo(B, h, z, phase, g) ==
    /\ g \in Machine(B) /\ g.kind = h.kind /\ g.user = h.user /\ g.bound = h.bound
    /\ g.inbuf = z /\ g.phase = phase

LEMMA Moved ==
    ASSUME NEW B, NEW h \in Machine(B), NEW z \in Seq(B), NEW phase \in Phases,
           NEW g, g = [[h EXCEPT !.inbuf = z] EXCEPT !.phase = phase]
    PROVE  MovedTo(B, h, z, phase, g)
<1>1. h = [kind |-> h.kind, user |-> h.user, phase |-> h.phase, inbuf |-> h.inbuf, bound |-> h.bound]
  BY DEF Machine
<1>2. g = [kind |-> h.kind, user |-> h.user, phase |-> phase, inbuf |-> z, bound |-> h.bound]
  BY <1>1
<1>3. h.kind \in {"http", "socks5"} /\ h.user \in BOOLEAN /\ h.bound \in Seq(B)
  BY DEF Machine
<1> QED
  BY <1>2, <1>3 DEF Machine, Phases, MovedTo

\* A handshake takes the two bytes at the front of its buffer.
TookTwo(r, h, rest, d) == TwoTaken(r.bytes, h.inbuf, rest, d, Seq(Octets(r)))

LEMMA Takes ==
    ASSUME NEW r \in Replies, NEW h, NEW said, NEW rest, NEW d,
           At(r, h, said, rest, d), ~ (Len(h.inbuf) < 2)
    PROVE  TookTwo(r, h, rest, d)
<1> DEFINE B == Octets(r)
           b == r.bytes
           x == h.inbuf
<1>1. b \in Seq(B) /\ Len(b) \in Nat
  BY Answers
<1>2. x \in Seq(B) /\ rest \in Seq(B) /\ d \in 0..Len(b) /\ x \o rest = SubSeq(b, d + 1, Len(b))
  BY DEF At, Machine
<1>3. ~ (Len(x) < 2)
  OBVIOUS
<1> HIDE DEF B, b, x
<1>4. d \in Nat /\ d <= Len(b)
  BY <1>1, <1>2
<1>5. TwoTaken(b, x, rest, d, Seq(B))
  BY <1>1, <1>2, <1>3, <1>4, TwoBytes
<1> QED
  BY <1>5 DEF TookTwo, B, b, x

\* A handshake that took them and speaks is at the bytes behind them.
LEMMA TakesAndWrites ==
    ASSUME NEW r \in Replies, NEW h, NEW said, NEW rest, NEW d,
           At(r, h, said, rest, d), TookTwo(r, h, rest, d),
           NEW phase \in Phases, NEW message \in Messages, NEW s, s = Write(Dropped2(h), phase, message),
           \A g : g.phase = phase => Reached(r, g, Append(said, message), d + 2)
    PROVE  After(r, said, rest, s)
<1> DEFINE z == SubSeq(h.inbuf, 3, Len(h.inbuf))
           g == [[h EXCEPT !.inbuf = z] EXCEPT !.phase = phase]
<1>1. s = [hs |-> g, step |-> "Write", bytes |-> message]
  BY DEF Write, Dropped2
<1>2. h \in Machine(Octets(r)) /\ z \in Seq(Octets(r)) /\ rest \in Seq(Octets(r))
      /\ h.kind = r.kind /\ h.user = r.user /\ h.bound = <<>>
  BY DEF At, TookTwo, TwoTaken
<1>3. z \o rest = SubSeq(r.bytes, (d + 2) + 1, Len(r.bytes)) /\ d + 2 \in 0..Len(r.bytes)
  BY DEF TookTwo, TwoTaken
<1>a. g = [[h EXCEPT !.inbuf = z] EXCEPT !.phase = phase]
  OBVIOUS
<1> HIDE DEF z, g
<1>4. /\ g \in Machine(Octets(r)) /\ g.kind = h.kind /\ g.user = h.user /\ g.bound = h.bound
      /\ g.inbuf = z /\ g.phase = phase
  <2>1. MovedTo(Octets(r), h, z, phase, g)
    BY <1>2, <1>a, Moved
  <2> QED
    BY <2>1 DEF MovedTo
<1>5. s.step = "Write" /\ s.hs = g /\ s.bytes = message
  BY <1>1
<1>6. At(r, g, Append(said, message), rest, d + 2)
  BY <1>2, <1>3, <1>4 DEF At
<1> QED
  BY <1>3, <1>5, <1>6 DEF After

\* Nor does a handshake move that waits or fails.
LEMMA WaitsOrFails ==
    ASSUME NEW r, NEW h, NEW said, NEW rest, NEW d,
           At(r, h, said, rest, d), NEW s, s = Read(h) \/ s.step = "Err"
    PROVE  After(r, said, rest, s)
<1>1. CASE s = Read(h)
  <2>1. s.step = "Read" /\ s.hs = h
    BY <1>1 DEF Read
  <2>2. d \in 0..Len(r.bytes)
    BY DEF At
  <2> QED
    BY <2>1, <2>2 DEF After
<1>2. CASE s.step = "Err"
  BY <1>2 DEF After
<1> QED
  BY <1>1, <1>2

LEMMA StartTurn ==
    ASSUME NEW r \in Replies, r.kind = "socks5", NEW h, h.phase = "Start", NEW said, NEW rest, NEW d,
           At(r, h, said, rest, d), NEW s, s = socks5_step(h)
    PROVE  After(r, said, rest, s)
<1> DEFINE g == [h EXCEPT !.phase = "Greeted"]
           greeting == socks5_greeting(r.user)
<1>1. /\ h \in Machine(Octets(r)) /\ rest \in Seq(Octets(r)) /\ d \in 0..Len(r.bytes)
      /\ h.kind = r.kind /\ h.user = r.user /\ h.bound = <<>>
      /\ h.inbuf \o rest = SubSeq(r.bytes, d + 1, Len(r.bytes))
      /\ d = 0 /\ said = <<>>
  BY DEF At, Reached
<1>2. s = [hs |-> g, step |-> "Write", bytes |-> greeting]
  BY <1>1 DEF socks5_step, Write
<1>3. /\ g \in Machine(Octets(r)) /\ g.kind = r.kind /\ g.user = r.user /\ g.bound = <<>>
      /\ g.inbuf = h.inbuf /\ g.phase = "Greeted"
  BY <1>1 DEF Machine
<1>4. Append(said, greeting) = <<greeting>>
  BY <1>1
<1>5. Reached(r, g, Append(said, greeting), d)
  BY <1>1, <1>3, <1>4 DEF Reached
<1> HIDE DEF g, greeting
<1>6. s.step = "Write" /\ s.hs = g /\ s.bytes = greeting
  BY <1>2
<1>7. At(r, g, Append(said, greeting), rest, d)
  BY <1>1, <1>3, <1>5 DEF At
<1>8. greeting \in Messages
  BY Answers DEF greeting, Messages
<1> QED
  BY <1>1, <1>6, <1>7, <1>8 DEF After

LEMMA GreetedTurn ==
    ASSUME NEW r \in Replies, r.kind = "socks5", NEW h, h.phase = "Greeted", NEW said, NEW rest, NEW d,
           At(r, h, said, rest, d), NEW s, s = socks5_step(h)
    PROVE  After(r, said, rest, s)
<1> DEFINE greeting == socks5_greeting(r.user)
<1>1. d = 0 /\ said = <<greeting>> /\ h.user = r.user
  BY DEF At, Reached
<1>2. s = Greeted(h)
  BY DEF socks5_step
<1>3. CASE Len(h.inbuf) < 2 \/ s.step = "Err"
  <2>1. s = Read(h) \/ s.step = "Err"
    BY <1>2, <1>3 DEF Greeted
  <2> QED
    BY <2>1, WaitsOrFails
<1>4. CASE ~ (Len(h.inbuf) < 2) /\ s.step # "Err"
  <2>1. TookTwo(r, h, rest, d)
    BY <1>4, Takes
  <2>2. h.inbuf[1] = r.bytes[1] /\ h.inbuf[2] = r.bytes[2] /\ Len(r.bytes) >= 2
    <3>1. d + 1 = 1 /\ d + 2 = 2
      BY <1>1
    <3>2. Len(r.bytes) \in Nat
      BY Answers
    <3> QED
      BY <2>1, <3>1, <3>2 DEF TookTwo, TwoTaken
  <2>3. h.inbuf[1] = 5
    BY <1>2, <1>4 DEF Greeted, Err
  <2>4. CASE h.inbuf[2] = 0
    <3>1. s = Write(Dropped2(h), "Requested", socks5_request)
      BY <1>2, <1>4, <2>3, <2>4 DEF Greeted
    <3>2. Opens(r.bytes, r.user, 2)
      BY <2>2, <2>3, <2>4 DEF Opens
    <3>3. Append(said, socks5_request) = <<greeting, socks5_request>> /\ d + 2 = 2
      BY <1>1, Appended
    <3>4. \A g : g.phase = "Requested" => Reached(r, g, Append(said, socks5_request), d + 2)
      BY <3>2, <3>3 DEF Reached
    <3>5. "Requested" \in Phases /\ socks5_request \in Messages
      BY DEF Phases, Messages
    <3> QED
      BY <2>1, <3>1, <3>4, <3>5, TakesAndWrites
  <2>5. CASE h.inbuf[2] = 2 /\ h.user
    <3>1. s = Write(Dropped2(h), "Authed", socks5_userpass)
      BY <1>2, <1>4, <2>3, <2>5 DEF Greeted
    <3>2. PasswordAsked(r.bytes, r.user)
      BY <1>1, <2>2, <2>3, <2>5 DEF PasswordAsked
    <3>3. Append(said, socks5_userpass) = <<greeting, socks5_userpass>> /\ d + 2 = 2
      BY <1>1, Appended
    <3>4. \A g : g.phase = "Authed" => Reached(r, g, Append(said, socks5_userpass), d + 2)
      BY <3>2, <3>3 DEF Reached
    <3>5. "Authed" \in Phases /\ socks5_userpass \in Messages
      BY DEF Phases, Messages
    <3> QED
      BY <2>1, <3>1, <3>4, <3>5, TakesAndWrites
  <2>6. h.inbuf[2] = 0 \/ (h.inbuf[2] = 2 /\ h.user)
    BY <1>2, <1>4, <2>3 DEF Greeted, Err
  <2> QED
    BY <2>4, <2>5, <2>6
<1> QED
  BY <1>3, <1>4

LEMMA AuthedTurn ==
    ASSUME NEW r \in Replies, r.kind = "socks5", NEW h, h.phase = "Authed", NEW said, NEW rest, NEW d,
           At(r, h, said, rest, d), NEW s, s = socks5_step(h)
    PROVE  After(r, said, rest, s)
<1> DEFINE greeting == socks5_greeting(r.user)
<1>1. d = 2 /\ said = <<greeting, socks5_userpass>> /\ PasswordAsked(r.bytes, r.user)
  BY DEF At, Reached
<1>2. s = Authed(h)
  BY DEF socks5_step
<1>3. CASE Len(h.inbuf) < 2 \/ s.step = "Err"
  <2>1. s = Read(h) \/ s.step = "Err"
    BY <1>2, <1>3 DEF Authed
  <2> QED
    BY <2>1, WaitsOrFails
<1>4. CASE ~ (Len(h.inbuf) < 2) /\ s.step # "Err"
  <2>1. TookTwo(r, h, rest, d)
    BY <1>4, Takes
  <2>2. h.inbuf[2] = r.bytes[4] /\ Len(r.bytes) >= 4
    <3>1. d + 2 = 4
      BY <1>1
    <3>2. Len(r.bytes) \in Nat
      BY Answers
    <3> QED
      BY <2>1, <3>1, <3>2 DEF TookTwo, TwoTaken
  <2>3. h.inbuf[2] = 0
    BY <1>2, <1>4 DEF Authed, Err
  <2>4. s = Write(Dropped2(h), "Requested", socks5_request)
    BY <1>2, <1>4, <2>3 DEF Authed
  <2>5. Opens(r.bytes, r.user, 4)
    BY <1>1, <2>2, <2>3 DEF Opens
  <2>6. Append(said, socks5_request) = <<greeting, socks5_userpass, socks5_request>> /\ d + 2 = 4
    BY <1>1, Appended
  <2>7. \A g : g.phase = "Requested" => Reached(r, g, Append(said, socks5_request), d + 2)
    BY <2>5, <2>6 DEF Reached
  <2>8. "Requested" \in Phases /\ socks5_request \in Messages
    BY DEF Phases, Messages
  <2> QED
    BY <2>1, <2>4, <2>7, <2>8, TakesAndWrites
<1> QED
  BY <1>3, <1>4

LEMMA RequestedTurn ==
    ASSUME NEW r \in Replies, r.kind = "socks5", NEW h, h.phase = "Requested", NEW said, NEW rest, NEW d,
           At(r, h, said, rest, d), NEW s, s = socks5_step(h)
    PROVE  After(r, said, rest, s)
<1> DEFINE B == Octets(r)
           b == r.bytes
           x == h.inbuf
           n == socks5_reply_len(x)
           o == d + n + 1
<1>1. b \in Seq(B) /\ Len(b) \in Nat /\ SocksReply(r)
  BY Answers
<1>2. B \subseteq Nat
  <2>1. b \in [1..Len(b) -> 0..255] /\ DOMAIN b = 1..Len(b)
    BY <1>1, LenProperties DEF SocksReply
  <2>2. \A i \in DOMAIN b : b[i] \in 0..255
    BY <2>1
  <2>3. \A v \in B : \E i \in DOMAIN b : v = b[i]
    BY DEF Octets, ToSet
  <2>4. 0..255 \subseteq Nat
    OBVIOUS
  <2> QED
    BY <2>2, <2>3, <2>4, Zenon
<1>3. /\ x \in Seq(B) /\ rest \in Seq(B) /\ h \in Machine(B)
      /\ d \in 0..Len(b) /\ x \o rest = SubSeq(b, d + 1, Len(b))
  BY DEF At, Machine
<1>4. d \in {2, 4} /\ Opens(b, r.user, d)
  BY DEF At, Reached
<1>5. s = IF n = 0 THEN Read(h)
          ELSE IF n = -1 THEN Err(h, "Socks5Malformed")
          ELSE IF x[1] # 5 THEN Err(h, "Socks5Version")
          ELSE IF x[2] # 0 THEN Err(h, "Socks5Reply")
          ELSE Done([h EXCEPT !.bound = parse_socks5_bound(SubSeq(x, 1, n)), !.inbuf = SubSeq(@, 1, n)],
                    SubSeq(x, n + 1, Len(x)))
  BY DEF socks5_step, Requested
<1>6. CASE n = 0 \/ n = -1 \/ x[1] # 5 \/ x[2] # 0
  <2> HIDE DEF n, x
  <2>1. s = Read(h) \/ s.step = "Err"
    BY <1>5, <1>6 DEF Err
  <2> QED
    BY <2>1, WaitsOrFails
<1>7. CASE n # 0 /\ n # -1 /\ x[1] = 5 /\ x[2] = 0
  <2>1. Whole(x, n)
    <3> HIDE DEF B, x
    <3> QED
      BY <1>2, <1>3, <1>7, ReplyWhole
  <2> HIDE DEF n
  <2>2. n \in Nat
    BY <2>1 DEF Whole
  <2>3. d \in Nat /\ o \in Nat
    BY <1>4, <2>2
  <2>4. Behind(b, x, rest, d)
    <3>1. d \in Nat /\ d <= Len(b)
      BY <1>1, <1>3
    <3> HIDE DEF B, b, x
    <3> QED
      BY <1>1, <1>3, <3>1, Left
  <2>5. o = d + n + 1
    OBVIOUS
  <2> HIDE DEF o
  <2>6. /\ n \in 7..Len(x) /\ o \in 1..(Len(b) + 1)
        /\ SocksGrants(b, r.user, d, o)
        /\ parse_socks5_bound(SubSeq(x, 1, n)) = Bound(b, d, o)
        /\ SubSeq(x, n + 1, Len(x)) \o rest = SubSeq(b, o, Len(b))
    <3> HIDE DEF B, b, x
    <3>1. x[1] = 5 /\ x[2] = 0 /\ b \in Seq(B)
      BY <1>1, <1>7
    <3>2. Opens(b, r.user, d)
      BY <1>4
    <3>3. x \in Seq(B) /\ rest \in Seq(B)
      BY <1>3
    <3>4. Succeeds(b, x, rest, d, r.user, n, o)
      BY ONLY <1>2, <2>1, <2>2, <2>3, <2>4, <2>5, <3>1, <3>2, <3>3, SuccessShows
    <3> QED
      BY <3>4 DEF Succeeds
  <2>7. r.grant
    BY <1>1, <1>4, <2>6 DEF SocksReply
  <2>8. SocksGrants(b, r.user, d, r.origin) /\ r.bound = Bound(b, d, r.origin)
    BY <1>1, <1>4, <2>7 DEF SocksReply
  <2>9. r.origin = o
    BY <2>6, <2>8 DEF SocksGrants
  <2> DEFINE g == [h EXCEPT !.bound = parse_socks5_bound(SubSeq(x, 1, n)), !.inbuf = SubSeq(@, 1, n)]
             leftover == SubSeq(x, n + 1, Len(x))
  <2>10. s = [hs |-> g, step |-> "Done", bytes |-> leftover]
    BY <1>5, <1>7 DEF Done
  <2>11. g.bound = Bound(b, d, o)
    BY <1>3, <2>6 DEF Machine
  <2>12. leftover \in Seq(B) /\ leftover \o rest = SubSeq(b, o, Len(b))
    <3>1. leftover \o rest = SubSeq(b, o, Len(b))
      BY <2>6
    <3> HIDE DEF x, B, b
    <3>2. Len(x) \in Nat /\ n \in 7..Len(x)
      BY <1>3, <2>6, LenProperties
    <3>3. leftover \in Seq(B)
      BY <1>3, <3>2, Part
    <3> QED
      BY <3>1, <3>3
  <2> HIDE DEF g, leftover
  <2>13. s.step = "Done" /\ s.hs = g /\ s.bytes = leftover
    BY <2>10
  <2> QED
    BY <2>7, <2>8, <2>9, <2>11, <2>12, <2>13 DEF After
<1> QED
  BY <1>6, <1>7

\* Every turn: what a step of a handshake at some byte of the answer may be.
LEMMA Turn ==
    ASSUME NEW r \in Replies, NEW h, NEW said, NEW rest, NEW d,
           At(r, h, said, rest, d), NEW s,
           s = IF h.kind = "http" THEN http_step(h) ELSE socks5_step(h)
    PROVE  After(r, said, rest, s)
<1>1. h.kind = r.kind /\ h.phase \in Phases
  BY DEF At, Machine, Phases
<1>2. CASE r.kind = "http"
  BY <1>1, <1>2, HttpTurn
<1>3. CASE r.kind = "socks5"
  <2>1. s = socks5_step(h)
    BY <1>1, <1>3
  <2>2. h.phase = "Start" \/ h.phase = "Greeted" \/ h.phase = "Authed" \/ h.phase = "Requested"
    BY <1>1 DEF Phases
  <2> QED
    BY <1>3, <2>1, <2>2, StartTurn, GreetedTurn, AuthedTurn, RequestedTurn
<1> QED
  BY <1>2, <1>3, Answers

-----------------------------------------------------------------------------
(* The conversation *)

LEMMA Joined ==
    /\ \A u, v : <<u>> \o <<v>> = <<u, v>>
    /\ \A u, v, w : <<u>> \o <<v>> \o <<w>> = <<u, v, w>>
    /\ \A u : <<u>> \o <<>> = <<u>>
<1>1. \A u, v : <<u>> \o <<v>> = <<u, v>>
  <2> TAKE u, v
  <2>1. <<u>> \in Seq({u, v})
    OBVIOUS
  <2>2. <<u>> \o <<v>> = Append(<<u>>, v)
    BY <2>1, AppendIsConcat
  <2> QED
    BY <2>2, Appended
<1>2. \A u, v, w : <<u>> \o <<v>> \o <<w>> = <<u, v, w>>
  <2> TAKE u, v, w
  <2>1. <<u, v>> \in Seq({u, v, w})
    OBVIOUS
  <2>2. <<u, v>> \o <<w>> = Append(<<u, v>>, w)
    BY <2>1, AppendIsConcat
  <2> QED
    BY <1>1, <2>2, Appended
<1>3. \A u : <<u>> \o <<>> = <<u>>
  <2> TAKE u
  <2>1. <<u>> \in Seq({u})
    OBVIOUS
  <2> QED
    BY <2>1, ConcatEmptySeq
<1> QED
  BY <1>1, <1>2, <1>3

LEMMA Fronts ==
    ASSUME NEW u, NEW v, NEW w
    PROVE  /\ IsPrefix(<<>>, <<u>>) /\ IsPrefix(<<>>, <<u, v>>) /\ IsPrefix(<<>>, <<u, v, w>>)
           /\ IsPrefix(<<u>>, <<u>>) /\ IsPrefix(<<u>>, <<u, v>>) /\ IsPrefix(<<u>>, <<u, v, w>>)
           /\ IsPrefix(<<u, v>>, <<u, v>>) /\ IsPrefix(<<u, v>>, <<u, v, w>>)
           /\ IsPrefix(<<u, v, w>>, <<u, v, w>>)
BY DEF IsPrefix

LEMMA SaidSoFar ==
    ASSUME NEW r \in Replies, NEW h, NEW said, NEW rest, NEW d, At(r, h, said, rest, d)
    PROVE  IsPrefix(said, r.told)
<1> DEFINE greeting == socks5_greeting(r.user)
           asked == PasswordAsked(r.bytes, r.user)
           opened == \E n \in {2, 4} : Opens(r.bytes, r.user, n)
<1>1. Reached(r, h, said, d)
  BY DEF At
<1>2. CASE r.kind = "http"
  <2>1. r.told = <<"CONNECT">> /\ said \in {<<>>, <<"CONNECT">>}
    BY <1>1, <1>2, Answers DEF Reached, HttpReply
  <2>2. CASE said = <<>>
    BY <2>1, <2>2, Fronts
  <2>3. CASE said = <<"CONNECT">>
    BY <2>1, <2>3, Fronts
  <2> QED
    BY <2>1, <2>2, <2>3
<1>3. CASE r.kind = "socks5"
  <2>1. r.told = <<greeting>> \o (IF asked THEN <<socks5_userpass>> ELSE <<>>)
                     \o (IF opened THEN <<socks5_request>> ELSE <<>>)
    BY <1>3, Answers DEF SocksReply
  <2>2. \/ said = <<>>
        \/ said = <<greeting>>
        \/ said = <<greeting, socks5_userpass>> /\ asked
        \/ said = <<greeting, socks5_request>> /\ ~ asked /\ opened
        \/ said = <<greeting, socks5_userpass, socks5_request>> /\ asked /\ opened
    BY <1>1, <1>3 DEF Reached, Opens, PasswordAsked
  <2> HIDE DEF greeting, asked, opened
  <2>3. /\ r.told \in {<<greeting>>, <<greeting, socks5_userpass>>, <<greeting, socks5_request>>,
                       <<greeting, socks5_userpass, socks5_request>>}
        /\ asked => r.told \in {<<greeting, socks5_userpass>>,
                                <<greeting, socks5_userpass, socks5_request>>}
        /\ ~ asked /\ opened => r.told = <<greeting, socks5_request>>
        /\ asked /\ opened => r.told = <<greeting, socks5_userpass, socks5_request>>
    <3>1. CASE asked /\ opened
      BY <2>1, <3>1, Joined
    <3>2. CASE asked /\ ~ opened
      <4>1. r.told = <<greeting>> \o <<socks5_userpass>> \o <<>>
        BY <2>1, <3>2
      <4>2. <<greeting, socks5_userpass>> \in Seq({greeting, socks5_userpass})
        OBVIOUS
      <4> QED
        BY <3>2, <4>1, <4>2, Joined, ConcatEmptySeq
    <3>3. CASE ~ asked /\ opened
      <4>1. r.told = <<greeting>> \o <<>> \o <<socks5_request>>
        BY <2>1, <3>3
      <4> QED
        BY <3>3, <4>1, Joined
    <3>4. CASE ~ asked /\ ~ opened
      <4>1. r.told = <<greeting>> \o <<>> \o <<>>
        BY <2>1, <3>4
      <4> QED
        BY <3>4, <4>1, Joined
    <3> QED
      BY <3>1, <3>2, <3>3, <3>4
  <2>4. CASE asked
    <3>1. r.told \in {<<greeting, socks5_userpass>>, <<greeting, socks5_userpass, socks5_request>>}
      BY <2>3, <2>4
    <3>2. CASE said = <<>>
      BY <3>1, <3>2, Fronts
    <3>3. CASE said = <<greeting>>
      BY <3>1, <3>3, Fronts
    <3>4. CASE said = <<greeting, socks5_userpass>>
      BY <3>1, <3>4, Fronts
    <3>5. CASE said = <<greeting, socks5_userpass, socks5_request>> /\ opened
      <4>1. r.told = said
        BY <2>3, <2>4, <3>5
      <4> QED
        BY <3>5, <4>1, Fronts
    <3> QED
      BY <2>2, <2>4, <3>2, <3>3, <3>4, <3>5
  <2>5. CASE ~ asked /\ said # <<greeting, socks5_request>>
    <3>1. said = <<>> \/ said = <<greeting>>
      BY <2>2, <2>5
    <3>2. CASE said = <<>>
      BY <2>3, <3>2, Fronts
    <3>3. CASE said = <<greeting>>
      BY <2>3, <3>3, Fronts
    <3> QED
      BY <3>1, <3>2, <3>3
  <2>6. CASE ~ asked /\ said = <<greeting, socks5_request>>
    <3>1. said # <<>> /\ said # <<greeting>>
      BY <2>6
    <3>2. opened
      BY <2>2, <2>6, <3>1
    <3>3. r.told = said
      BY <2>3, <2>6, <3>2
    <3> QED
      BY <2>6, <3>3, Fronts
  <2> QED
    BY <2>4, <2>5, <2>6
<1> QED
  BY <1>2, <1>3, Answers

\* A part of a message.
HalfMessages == [of : Messages, half : 1..2]

LEMMA HalvedIs ==
    ASSUME NEW s \in Seq(Messages)
    PROVE  /\ Halved(s) \in Seq(HalfMessages) /\ Len(Halved(s)) = 2 * Len(s)
           /\ \A i \in 1..(2 * Len(s)) :
                 Halved(s)[i] = [of |-> s[(i + 1) \div 2], half |-> 2 - (i % 2)]
<1> DEFINE n == Len(s)
           f == Halved(s)
<1>1. n \in Nat /\ 2 * n \in Nat
  BY LenProperties
<1>2. \A i \in 1..(2 * n) : (i + 1) \div 2 \in 1..n /\ 2 - (i % 2) \in 1..2
  <2> HIDE DEF n
  <2> QED
    BY <1>1
<1>3. \A i \in 1..(2 * n) : [of |-> s[(i + 1) \div 2], half |-> 2 - (i % 2)] \in HalfMessages
  <2> TAKE i \in 1..(2 * n)
  <2>1. s[(i + 1) \div 2] \in Messages
    BY <1>2, ElementOfSeq
  <2> QED
    BY <1>2, <2>1 DEF HalfMessages
<1>4. f = [i \in 1..(2 * n) |-> [of |-> s[(i + 1) \div 2], half |-> 2 - (i % 2)]]
  BY DEF Halved
<1>5. f \in [1..(2 * n) -> HalfMessages]
  BY <1>3, <1>4
<1>6. f \in Seq(HalfMessages)
  BY <1>1, <1>5, SeqDef
<1>7. Len(f) = 2 * n
  <2>1. DOMAIN f = 1..(2 * n) /\ DOMAIN f = 1..Len(f) /\ Len(f) \in Nat
    BY <1>5, <1>6, LenProperties
  <2> HIDE DEF f, n
  <2> QED
    BY <1>1, <2>1
<1> QED
  BY <1>4, <1>6, <1>7

Grows(s, m) == Halved(Append(s, m)) = Halved(s) \o Halved(<<m>>)

LEMMA HalvedGrows ==
    ASSUME NEW s \in Seq(Messages), NEW m \in Messages
    PROVE  Append(s, m) \in Seq(Messages) /\ Halved(<<m>>) \in Seq(HalfMessages) /\ Grows(s, m)
<1> DEFINE n == Len(s)
           t == Append(s, m)
           f == Halved(t)
           g == Halved(s)
           h == Halved(<<m>>)
<1>1. n \in Nat /\ t \in Seq(Messages) /\ Len(t) = n + 1 /\ t[n + 1] = m
      /\ \A j \in 1..n : t[j] = s[j]
  BY LenProperties, AppendProperties
<1>2. <<m>> \in Seq(Messages) /\ Len(<<m>>) = 1 /\ <<m>>[1] = m
  OBVIOUS
<1>3. /\ f \in Seq(HalfMessages) /\ Len(f) = 2 * (n + 1)
      /\ \A i \in 1..(2 * (n + 1)) : f[i] = [of |-> t[(i + 1) \div 2], half |-> 2 - (i % 2)]
  BY <1>1, HalvedIs
<1>4. /\ g \in Seq(HalfMessages) /\ Len(g) = 2 * n
      /\ \A i \in 1..(2 * n) : g[i] = [of |-> s[(i + 1) \div 2], half |-> 2 - (i % 2)]
  BY HalvedIs
<1>5. /\ h \in Seq(HalfMessages) /\ Len(h) = 2
      /\ \A i \in 1..2 : h[i] = [of |-> <<m>>[(i + 1) \div 2], half |-> 2 - (i % 2)]
  <2>1. /\ h \in Seq(HalfMessages) /\ Len(h) = 2 * Len(<<m>>)
        /\ \A i \in 1..(2 * Len(<<m>>)) : h[i] = [of |-> <<m>>[(i + 1) \div 2], half |-> 2 - (i % 2)]
    BY <1>2, HalvedIs
  <2>2. 2 * Len(<<m>>) = 2
    BY <1>2
  <2> HIDE DEF h
  <2> QED
    BY <2>1, <2>2
<1>6. h[1] = [of |-> m, half |-> 1] /\ h[2] = [of |-> m, half |-> 2]
  <2>1. (1 + 1) \div 2 = 1 /\ (2 + 1) \div 2 = 1 /\ 2 - (1 % 2) = 1 /\ 2 - (2 % 2) = 2
        /\ 1 \in 1..2 /\ 2 \in 1..2
    OBVIOUS
  <2> HIDE DEF h
  <2> QED
    BY <1>2, <1>5, <2>1
<1> HIDE DEF n, t, f, g, h
<1>7. /\ g \o h \in Seq(HalfMessages) /\ Len(g \o h) = 2 * n + 2
      /\ \A i \in 1..(2 * n + 2) : (g \o h)[i] = IF i <= 2 * n THEN g[i] ELSE h[i - 2 * n]
  <2>1. /\ g \o h \in Seq(HalfMessages) /\ Len(g \o h) = Len(g) + Len(h)
        /\ \A i \in 1..(Len(g) + Len(h)) : (g \o h)[i] = IF i <= Len(g) THEN g[i] ELSE h[i - Len(g)]
    BY <1>4, <1>5, ConcatProperties
  <2> QED
    BY <1>4, <1>5, <2>1
<1>8. \A i \in 1..(2 * n + 2) : f[i] = (g \o h)[i]
  <2> TAKE i \in 1..(2 * n + 2)
  <2>1. f[i] = [of |-> t[(i + 1) \div 2], half |-> 2 - (i % 2)]
    BY <1>1, <1>3
  <2>2. CASE i <= 2 * n
    <3>1. (i + 1) \div 2 \in 1..n /\ i \in 1..(2 * n)
      BY <1>1, <2>2
    <3> QED
      BY <1>1, <1>4, <1>7, <2>1, <2>2, <3>1
  <2>3. CASE i = 2 * n + 1
    <3>1. (i + 1) \div 2 = n + 1 /\ 2 - (i % 2) = 1 /\ i - 2 * n = 1 /\ ~ (i <= 2 * n)
      BY <1>1, <2>3
    <3> QED
      BY <1>1, <1>6, <1>7, <2>1, <3>1
  <2>4. CASE i = 2 * n + 2
    <3>1. (i + 1) \div 2 = n + 1 /\ 2 - (i % 2) = 2 /\ i - 2 * n = 2 /\ ~ (i <= 2 * n)
      BY <1>1, <2>4
    <3> QED
      BY <1>1, <1>6, <1>7, <2>1, <3>1
  <2>5. i <= 2 * n \/ i = 2 * n + 1 \/ i = 2 * n + 2
    <3>1. n \in Nat /\ i \in Int /\ i <= 2 * n + 2
      BY <1>1
    <3> QED
      BY <3>1
  <2> QED
    BY <2>2, <2>3, <2>4, <2>5
<1>9. f = g \o h
  <2>1. Len(f) = Len(g \o h) /\ 1..Len(f) = 1..(2 * n + 2)
    BY <1>1, <1>3, <1>7
  <2> QED
    BY <1>3, <1>7, <1>8, <2>1, SeqEqual
<1> QED
  BY <1>1, <1>5, <1>9 DEF Grows, f, g, h, t

\* Of the front of a conversation the parts are the front of its parts.
LEMMA HalvedFront ==
    ASSUME NEW s \in Seq(Messages), NEW t \in Seq(Messages), IsPrefix(s, t)
    PROVE  IsPrefix(Halved(s), Halved(t))
<1> DEFINE n == Len(s)
           f == Halved(s)
           g == Halved(t)
<1>1. n \in Nat /\ Len(t) \in Nat /\ n <= Len(t)
  BY LenProperties DEF IsPrefix
<1>2. \A j \in 1..n : s[j] = t[j]
  <2>1. SubSeq(s, 1, n) = SubSeq(t, 1, n)
    BY DEF IsPrefix
  <2>2. \A j \in 1..n : SubSeq(s, 1, n)[j] = s[j] /\ SubSeq(t, 1, n)[j] = t[j]
    BY <1>1, FrontOf
  <2> QED
    BY <2>1, <2>2
<1>3. /\ f \in Seq(HalfMessages) /\ Len(f) = 2 * n
      /\ \A i \in 1..(2 * n) : f[i] = [of |-> s[(i + 1) \div 2], half |-> 2 - (i % 2)]
  BY HalvedIs
<1>4. /\ g \in Seq(HalfMessages) /\ Len(g) = 2 * Len(t)
      /\ \A i \in 1..(2 * Len(t)) : g[i] = [of |-> t[(i + 1) \div 2], half |-> 2 - (i % 2)]
  BY HalvedIs
<1> HIDE DEF n, f, g
<1>5. 2 * n \in Nat /\ 2 * n <= 2 * Len(t)
  BY <1>1
<1>6. \A i \in 1..(2 * n) : f[i] = g[i]
  <2> TAKE i \in 1..(2 * n)
  <2>1. (i + 1) \div 2 \in 1..n /\ i \in 1..(2 * Len(t))
    BY <1>1
  <2> QED
    BY <1>2, <1>3, <1>4, <2>1
<1>7. /\ SubSeq(f, 1, 2 * n) \in Seq(HalfMessages) /\ Len(SubSeq(f, 1, 2 * n)) = 2 * n
      /\ \A i \in 1..(2 * n) : SubSeq(f, 1, 2 * n)[i] = f[i]
  BY <1>3, <1>5, FrontOf
<1>8. /\ SubSeq(g, 1, 2 * n) \in Seq(HalfMessages) /\ Len(SubSeq(g, 1, 2 * n)) = 2 * n
      /\ \A i \in 1..(2 * n) : SubSeq(g, 1, 2 * n)[i] = g[i]
  BY <1>4, <1>5, FrontOf
<1>9. SubSeq(f, 1, 2 * n) = SubSeq(g, 1, 2 * n)
  BY <1>6, <1>7, <1>8, SeqEqual
<1> QED
  BY <1>3, <1>4, <1>5, <1>9 DEF IsPrefix, f, g

LEMMA ToldIs ==
    ASSUME NEW r \in Replies
    PROVE  r.told \in Seq(Messages)
<1>1. CASE r.kind = "http"
  <2>1. r.told = <<"CONNECT">> /\ "CONNECT" \in Messages
    BY <1>1, Answers DEF HttpReply, Messages
  <2> QED
    BY <2>1
<1>2. CASE r.kind = "socks5"
  <2> DEFINE a == <<socks5_greeting(r.user)>>
             b == IF PasswordAsked(r.bytes, r.user) THEN <<socks5_userpass>> ELSE <<>>
             c == IF \E n \in {2, 4} : Opens(r.bytes, r.user, n) THEN <<socks5_request>> ELSE <<>>
  <2>1. r.told = (a \o b) \o c
    BY <1>2, Answers DEF SocksReply
  <2>2. socks5_greeting(r.user) \in Messages /\ socks5_userpass \in Messages /\ socks5_request \in Messages
    BY Answers DEF Messages
  <2>3. a \in Seq(Messages) /\ b \in Seq(Messages) /\ c \in Seq(Messages)
    BY <2>2
  <2> HIDE DEF a, b, c
  <2>4. a \o b \in Seq(Messages)
    BY <2>3, ConcatProperties
  <2> QED
    BY <2>1, <2>3, <2>4, ConcatProperties
<1> QED
  BY <1>1, <1>2, Answers

LEMMA SaidInHalves ==
    ASSUME NEW r \in Replies, NEW h, NEW said \in Seq(Messages), NEW rest, NEW d,
           At(r, h, said, rest, d)
    PROVE  IsPrefix(Halved(said), Halved(r.told))
<1>1. IsPrefix(said, r.told)
  BY SaidSoFar
<1> QED
  BY <1>1, ToldIs, HalvedFront

-----------------------------------------------------------------------------
(* The invariant *)

\* What was read and not yet fed is behind the buffer.
Fed == [hs EXCEPT !.inbuf = hs.inbuf \o input]

Sequences ==
    /\ input \in Seq(Octets(reply)) /\ sock \in Seq(Octets(reply))
    /\ coming \in Seq(Octets(reply)) /\ to_app \in Seq(Octets(reply))
    /\ wrote \in Seq(HalfMessages) /\ hs_out \in Seq(HalfMessages)

\* Between two turns all that was read was fed; during them nothing is queued.
Driver ==
    /\ pc \in {"idle", "stepping"}
    /\ pc = "idle" => input = <<>>
    /\ pc = "stepping" => mode = "handshake" /\ hs_out = <<>>

\* The handshake is at some byte of the answer.
Shaking ==
    mode = "handshake" =>
        /\ to_app = <<>> /\ hs \in Machine(Octets(reply))
        /\ \E d \in 0..Len(reply.bytes), said \in Seq(Messages) :
              wrote \o hs_out = Halved(said) /\ At(reply, Fed, said, sock \o coming, d)

IInv == reply \in Replies /\ Sequences /\ Driver /\ Shaking /\ TunnelExact /\ ConversationExact

\* The same bytes, cut elsewhere.
LEMMA Recut ==
    ASSUME NEW r \in Replies, NEW h, NEW h2, NEW said, NEW rest, NEW rest2, NEW d,
           At(r, h, said, rest, d), h2 \in Machine(Octets(r)), rest2 \in Seq(Octets(r)),
           h2.kind = h.kind, h2.user = h.user, h2.phase = h.phase, h2.bound = h.bound,
           h2.inbuf \o rest2 = h.inbuf \o rest
    PROVE  At(r, h2, said, rest2, d)
<1>1. Reached(r, h, said, d) <=> Reached(r, h2, said, d)
  BY DEF Reached
<1> QED
  BY <1>1 DEF At

\* A handshake with another buffer.
LEMMA Buffered ==
    ASSUME NEW B, NEW h \in Machine(B), NEW z \in Seq(B), NEW g, g = [h EXCEPT !.inbuf = z]
    PROVE  /\ g \in Machine(B) /\ g.kind = h.kind /\ g.user = h.user /\ g.bound = h.bound
           /\ g.phase = h.phase /\ g.inbuf = z
BY DEF Machine

LEMMA Buffer ==
    ASSUME NEW B, NEW h \in Machine(B)
    PROVE  h.inbuf \in Seq(B) /\ [h EXCEPT !.inbuf = h.inbuf \o <<>>] = h
<1>1. h.inbuf \in Seq(B)
  BY DEF Machine
<1>2. h.inbuf \o <<>> = h.inbuf
  BY <1>1, ConcatEmptySeq
<1>3. [h EXCEPT !.inbuf = h.inbuf] = h
  BY DEF Machine
<1> QED
  BY <1>1, <1>2, <1>3

LEMMA Concat ==
    ASSUME NEW S, NEW s \in Seq(S), NEW t \in Seq(S)
    PROVE  s \o t \in Seq(S) /\ s \o <<>> = s /\ <<>> \o s = s /\ <<>> \in Seq(S)
BY ConcatProperties, ConcatEmptySeq

Associates(s, t, u) == (s \o t) \o u = s \o (t \o u)

LEMMA Associative ==
    ASSUME NEW S, NEW s \in Seq(S), NEW t \in Seq(S), NEW u \in Seq(S)
    PROVE  Associates(s, t, u)
BY ConcatAssociative DEF Associates

\* Some of what is to come arrives.
LEMMA Cut ==
    ASSUME NEW S, NEW s \in Seq(S), NEW c \in Seq(S), NEW n \in 0..Len(c)
    PROVE  /\ s \o SubSeq(c, 1, n) \in Seq(S) /\ SubSeq(c, n + 1, Len(c)) \in Seq(S)
           /\ (s \o SubSeq(c, 1, n)) \o SubSeq(c, n + 1, Len(c)) = s \o c
<1> DEFINE u == SubSeq(c, 1, n)
           v == SubSeq(c, n + 1, Len(c))
<1>0. Len(c) \in Nat /\ n \in Nat /\ 0 <= n /\ n <= Len(c)
  BY LenProperties
<1>1. u \in Seq(S) /\ v \in Seq(S)
  BY <1>0, Part
<1>2. u \o v = c
  <2>1. SubSeq(c, 1, Len(c)) = c
    BY SubSeqFull
  <2>2. 1 \in 1..(Len(c) + 1) /\ n \in (1 - 1)..Len(c) /\ Len(c) \in n..Len(c)
    BY <1>0
  <2>3. u \o v = SubSeq(c, 1, Len(c))
    BY <2>2, ConcatAdjacentSubSeq
  <2> QED
    BY <2>1, <2>3
<1> HIDE DEF u, v
<1>3. s \o u \in Seq(S) /\ (s \o u) \o v = s \o (u \o v)
  <2>1. s \o u \in Seq(S)
    BY <1>1, Concat
  <2>2. (s \o u) \o v = s \o (u \o v)
    <3>1. Associates(s, u, v)
      BY <1>1, Associative
    <3> QED
      BY <3>1 DEF Associates
  <2> QED
    BY <2>1, <2>2
<1>4. (s \o u) \o v = s \o c
  BY <1>2, <1>3
<1> QED
  BY <1>1, <1>3, <1>4 DEF u, v

-----------------------------------------------------------------------------
(* The steps *)

LEMMA InitInv == Init => IInv
<1> SUFFICES ASSUME Init
             PROVE  IInv
  OBVIOUS
<1> DEFINE B == Octets(reply)
<1>1. /\ reply \in Replies /\ mode = "handshake" /\ hs = Handshake(reply.kind, reply.user)
      /\ hs_out = <<>> /\ pc = "idle" /\ input = <<>> /\ coming = reply.bytes /\ sock = <<>>
      /\ wrote = <<>> /\ to_app = <<>>
  BY DEF Init
<1>2. reply.bytes \in Seq(B) /\ Len(reply.bytes) \in Nat /\ reply.user \in BOOLEAN
      /\ reply.kind \in {"http", "socks5"}
  BY <1>1, Answers
<1>3. <<>> \in Seq(B) /\ <<>> \in Seq(Messages) /\ <<>> \in Seq(HalfMessages)
  OBVIOUS
<1>4. Sequences
  BY <1>1, <1>2, <1>3 DEF Sequences
<1>5. /\ hs \in Machine(B) /\ hs.kind = reply.kind /\ hs.user = reply.user
      /\ hs.phase = "Start" /\ hs.bound = <<>> /\ hs.inbuf = <<>>
  BY <1>1, <1>2, <1>3 DEF Handshake, Machine
<1>6. Fed = hs
  BY <1>1, <1>5, Buffer DEF Fed
<1>7. hs.inbuf \o (sock \o coming) = SubSeq(reply.bytes, 0 + 1, Len(reply.bytes))
  <2>1. hs.inbuf \o (sock \o coming) = reply.bytes
    BY <1>1, <1>2, <1>5, Concat
  <2>2. SubSeq(reply.bytes, 1, Len(reply.bytes)) = reply.bytes
    BY <1>2, SubSeqFull
  <2>3. 0 + 1 = 1
    OBVIOUS
  <2> QED
    BY <2>1, <2>2, <2>3
<1>8. wrote \o hs_out = Halved(<<>>) /\ sock \o coming \in Seq(B)
  <2>1. Halved(<<>>) \in Seq(HalfMessages) /\ Len(Halved(<<>>)) = 0
    <3>1. Halved(<<>>) \in Seq(HalfMessages) /\ Len(Halved(<<>>)) = 2 * Len(<<>>)
      BY <1>3, HalvedIs
    <3>2. Len(<<>>) = 0
      BY EmptySeq
    <3> QED
      BY <3>1, <3>2
  <2>2. Halved(<<>>) = <<>>
    BY <2>1, EmptySeq
  <2>3. wrote \o hs_out = <<>>
    BY <1>1, <1>3, Concat
  <2> QED
    BY <1>1, <1>2, <1>3, <2>2, <2>3, Concat
<1>9. At(reply, hs, <<>>, sock \o coming, 0)
  <2>1. Reached(reply, hs, <<>>, 0)
    BY <1>5 DEF Reached
  <2>2. 0 \in 0..Len(reply.bytes)
    BY <1>2
  <2> QED
    BY <1>5, <1>7, <1>8, <2>1, <2>2 DEF At
<1>10. Shaking
  <2>1. 0 \in 0..Len(reply.bytes)
    BY <1>2
  <2> QED
    BY <1>1, <1>3, <1>5, <1>6, <1>8, <1>9, <2>1 DEF Shaking
<1>11. ConversationExact
  BY <1>1, <1>3, <1>8, <1>9, SaidInHalves DEF ConversationExact
<1>12. TunnelExact /\ Driver
  BY <1>1 DEF TunnelExact, Driver
<1> QED
  BY <1>1, <1>4, <1>10, <1>11, <1>12 DEF IInv

\* A step of the handshake that leaves the phase and what was said, and recuts the bytes.
LEMMA Recuts ==
    ASSUME IInv, mode = "handshake", mode' = mode, reply' = reply, hs' = hs, to_app' = to_app,
           Sequences', Driver', wrote' \o hs_out' = wrote \o hs_out,
           (hs.inbuf \o input') \o (sock' \o coming') = (hs.inbuf \o input) \o (sock \o coming)
    PROVE  IInv'
<1> DEFINE B == Octets(reply)
<1>1. hs \in Machine(B) /\ to_app = <<>>
  BY DEF IInv, Shaking
<1>2. PICK d \in 0..Len(reply.bytes), said \in Seq(Messages) :
         wrote \o hs_out = Halved(said) /\ At(reply, Fed, said, sock \o coming, d)
  BY DEF IInv, Shaking
<1>3. /\ input \in Seq(B) /\ input' \in Seq(B) /\ sock' \in Seq(B) /\ coming' \in Seq(B)
      /\ hs.inbuf \in Seq(B)
  BY <1>1, Buffer DEF IInv, Sequences
<1> DEFINE z == hs.inbuf \o input
           z2 == hs.inbuf \o input'
           g == [hs EXCEPT !.inbuf = z]
           g2 == [hs EXCEPT !.inbuf = z2]
<1>4. z \in Seq(B) /\ z2 \in Seq(B) /\ sock' \o coming' \in Seq(B)
  BY <1>3, Concat
<1>5. Fed = g /\ Fed' = g2
  BY DEF Fed
<1>6. z2 \o (sock' \o coming') = z \o (sock \o coming)
  OBVIOUS
<1> HIDE DEF z, z2
<1>7. /\ g \in Machine(B) /\ g.kind = hs.kind /\ g.user = hs.user /\ g.bound = hs.bound
      /\ g.phase = hs.phase /\ g.inbuf = z
  BY <1>1, <1>4, Buffered
<1>8. /\ g2 \in Machine(B) /\ g2.kind = hs.kind /\ g2.user = hs.user /\ g2.bound = hs.bound
      /\ g2.phase = hs.phase /\ g2.inbuf = z2
  BY <1>1, <1>4, Buffered
<1> HIDE DEF g, g2
<1>9. At(reply, g2, said, sock' \o coming', d)
  <2>1. At(reply, g, said, sock \o coming, d)
    BY <1>2, <1>5
  <2>2. g2.inbuf \o (sock' \o coming') = g.inbuf \o (sock \o coming)
    BY <1>6, <1>7, <1>8
  <2>3. g2.kind = g.kind /\ g2.user = g.user /\ g2.bound = g.bound /\ g2.phase = g.phase
    BY <1>7, <1>8
  <2>4. reply \in Replies
    BY DEF IInv
  <2> QED
    BY <1>4, <1>8, <2>1, <2>2, <2>3, <2>4, Recut
<1>10. Shaking'
  BY <1>1, <1>2, <1>5, <1>9 DEF Shaking
<1>11. ConversationExact' /\ TunnelExact'
  BY DEF IInv, ConversationExact, TunnelExact
<1>12. reply' \in Replies
  BY DEF IInv
<1> QED
  BY <1>10, <1>11, <1>12 DEF IInv

LEMMA ArrivesInv == IInv /\ Arrives => IInv'
<1> SUFFICES ASSUME IInv, Arrives
             PROVE  IInv'
  OBVIOUS
<1>1. PICK n \in 1..Len(coming) :
         sock' = sock \o SubSeq(coming, 1, n) /\ coming' = SubSeq(coming, n + 1, Len(coming))
  BY DEF Arrives
<1>2. /\ mode \in {"handshake", "tunnel"} /\ reply' = reply
      /\ mode' = mode /\ hs' = hs /\ hs_out' = hs_out /\ pc' = pc /\ input' = input
      /\ wrote' = wrote /\ to_app' = to_app
  BY DEF Arrives, script, driver
<1>3. sock \in Seq(Octets(reply)) /\ coming \in Seq(Octets(reply)) /\ to_app \in Seq(Octets(reply))
  BY DEF IInv, Sequences
<1>4. sock' \in Seq(Octets(reply)) /\ coming' \in Seq(Octets(reply)) /\ sock' \o coming' = sock \o coming
  <2>1. n \in 0..Len(coming)
    BY <1>3, LenProperties
  <2> QED
    BY ZenonT(60), <1>1, <1>3, <2>1, Cut
<1>5. Sequences' /\ Driver'
  BY <1>2, <1>4 DEF IInv, Sequences, Driver
<1>6. CASE mode = "handshake"
  BY <1>2, <1>4, <1>5, <1>6, Recuts
<1>7. CASE mode = "tunnel"
  <2>0. coming' \in Seq(Octets(reply))
    BY <1>4
  <2>1. (to_app \o sock') \o coming' = to_app \o (sock' \o coming')
    <3>1. Associates(to_app, sock', coming')
      BY <1>3, <1>4, <2>0, Associative
    <3> QED
      BY <3>1 DEF Associates
  <2>2. (to_app \o sock) \o coming = to_app \o (sock \o coming)
    <3>1. Associates(to_app, sock, coming)
      BY <1>3, Associative
    <3> QED
      BY <3>1 DEF Associates
  <2>4. TunnelExact'
    BY <1>2, <1>4, <1>7, <2>1, <2>2 DEF IInv, TunnelExact
  <2>3. Shaking' /\ ConversationExact'
    BY <1>2, <1>7 DEF IInv, Shaking, ConversationExact
  <2> QED
    BY <1>2, <1>5, <2>3, <2>4 DEF IInv
<1> QED
  BY <1>2, <1>6, <1>7

\* Whatever the socket takes of what is queued, and whether or not it breaks then.
LEMMA Flushes ==
    ASSUME wrote \in Seq(HalfMessages), NEW q \in Seq(HalfMessages), NEW ok,
           flush_handshake_out(q, ok)
    PROVE  /\ wrote' \in Seq(HalfMessages) /\ hs_out' \in Seq(HalfMessages)
           /\ wrote' \o hs_out' = wrote \o q
<1>1. PICK n \in 0..Len(q) :
         wrote' = wrote \o SubSeq(q, 1, n) /\ hs_out' = SubSeq(q, n + 1, Len(q))
  BY DEF flush_handshake_out
<1> QED
  BY ZenonT(60), <1>1, Cut

\* The steps that end the handshake, or come after it.
LEMMA Ends ==
    ASSUME IInv, reply' = reply, mode' # "handshake", pc' = "idle", input' = <<>>,
           Sequences', ConversationExact', TunnelExact'
    PROVE  IInv'
<1>1. Driver' /\ Shaking'
  BY DEF Driver, Shaking
<1> QED
  BY <1>1 DEF IInv

LEMMA BeginsInv == IInv /\ drive_begins => IInv'
<1> SUFFICES ASSUME IInv, drive_begins
             PROVE  IInv'
  OBVIOUS
<1> DEFINE B == Octets(reply)
<1>1. /\ mode = "handshake" /\ pc = "idle" /\ reply' = reply /\ hs' = hs
      /\ coming' = coming /\ to_app' = to_app
      /\ \E ok \in BOOLEAN : flush_handshake_out(hs_out, ok)
  BY DEF drive_begins, fail_proxy, script
<1>2. \/ mode' = "failed" /\ pc' = "idle" /\ input' = input /\ sock' \in {sock, <<>>}
      \/ mode' = mode /\ pc' = pc /\ input' = input /\ sock' = sock
      \/ mode' = mode /\ pc' = "stepping" /\ input' = sock /\ sock' = <<>> /\ hs_out' = <<>>
  BY DEF drive_begins, fail_proxy
<1>3. /\ input = <<>> /\ sock \in Seq(B) /\ coming \in Seq(B) /\ to_app \in Seq(B)
      /\ wrote \in Seq(HalfMessages) /\ hs_out \in Seq(HalfMessages) /\ hs \in Machine(B)
  BY <1>1 DEF IInv, Sequences, Driver, Shaking
<1>4. /\ wrote' \in Seq(HalfMessages) /\ hs_out' \in Seq(HalfMessages)
      /\ wrote' \o hs_out' = wrote \o hs_out
  BY <1>1, <1>3, Flushes
<1>5. hs.inbuf \in Seq(B) /\ <<>> \in Seq(B)
  BY <1>3, Buffer
<1>6. Sequences'
  BY <1>1, <1>2, <1>3, <1>4, <1>5 DEF Sequences
<1>7. CASE mode' = "failed" /\ pc' = "idle" /\ input' = input
  <2>1. ConversationExact'
    BY <1>1, <1>4 DEF IInv, ConversationExact
  <2>2. TunnelExact'
    BY <1>7 DEF TunnelExact
  <2> QED
    BY <1>1, <1>3, <1>6, <1>7, <2>1, <2>2, Ends
<1>8. CASE mode' = mode /\ pc' = pc /\ input' = input /\ sock' = sock
  <2>1. Driver'
    BY <1>1, <1>3, <1>8 DEF Driver
  <2>2. (hs.inbuf \o input') \o (sock' \o coming') = (hs.inbuf \o input) \o (sock \o coming)
    BY <1>1, <1>8
  <2> QED
    BY <1>1, <1>4, <1>6, <1>8, <2>1, <2>2, Recuts
<1>9. CASE mode' = mode /\ pc' = "stepping" /\ input' = sock /\ sock' = <<>> /\ hs_out' = <<>>
  <2>1. Driver'
    BY <1>1, <1>9 DEF Driver
  <2>2. (hs.inbuf \o input') \o (sock' \o coming') = (hs.inbuf \o input) \o (sock \o coming)
    <3>1. hs.inbuf \o input = hs.inbuf /\ sock' \o coming' = coming
      BY <1>1, <1>3, <1>5, <1>9, Concat
    <3>2. (hs.inbuf \o sock) \o coming = hs.inbuf \o (sock \o coming)
      <4>1. Associates(hs.inbuf, sock, coming)
        BY <1>3, <1>5, Associative
      <4> QED
        BY <4>1 DEF Associates
    <3> QED
      BY <1>9, <3>1, <3>2
  <2> QED
    BY <1>1, <1>4, <1>6, <1>9, <2>1, <2>2, Recuts
<1> QED
  BY <1>2, <1>7, <1>8, <1>9

LEMMA StepsInv == IInv /\ drive_steps => IInv'
<1> SUFFICES ASSUME IInv, drive_steps
             PROVE  IInv'
  OBVIOUS
<1> DEFINE B == Octets(reply)
           rest == sock \o coming
           s == step(hs, input)
           queued == hs_out \o Halved(<<s.bytes>>)
<1>1. /\ mode = "handshake" /\ pc = "stepping" /\ hs_out = <<>>
      /\ reply' = reply /\ sock' = sock /\ coming' = coming /\ input' = <<>> /\ hs' = s.hs
  BY DEF drive_steps, IInv, Driver, proxy, script
<1>2. \/ /\ s.step = "Write" /\ flush_handshake_out(queued, FALSE)
         /\ mode' = "failed" /\ pc' = "idle" /\ to_app' = to_app
      \/ /\ s.step = "Write" /\ flush_handshake_out(queued, TRUE)
         /\ pc' = IF hs_out' = <<>> THEN "stepping" ELSE "idle"
         /\ mode' = mode /\ to_app' = to_app
      \/ /\ s.step = "Read" /\ mode' = "failed" /\ pc' = "idle"
         /\ hs_out' = hs_out /\ wrote' = wrote /\ to_app' = to_app
      \/ /\ s.step = "Read" /\ pc' = "idle"
         /\ mode' = mode /\ hs_out' = hs_out /\ wrote' = wrote /\ to_app' = to_app
      \/ /\ s.step = "Done" /\ mode' = "tunnel" /\ to_app' = to_app \o s.bytes /\ pc' = "idle"
         /\ hs_out' = hs_out /\ wrote' = wrote
      \/ /\ s.step = "Err" /\ mode' = "failed" /\ pc' = "idle"
         /\ hs_out' = hs_out /\ wrote' = wrote /\ to_app' = to_app
  BY DEF drive_steps, fail_proxy
<1>0. PICK d \in 0..Len(reply.bytes), said \in Seq(Messages) :
         wrote \o hs_out = Halved(said) /\ At(reply, Fed, said, rest, d)
  BY <1>1 DEF IInv, Shaking
<1>3. to_app = <<>> /\ hs \in Machine(B) /\ reply \in Replies
  BY <1>1 DEF IInv, Shaking
<1>4. s.step = "Err" \/ After(reply, said, rest, s)
  <2>1. step(hs, input) =
           IF Len(Fed.inbuf) > HANDSHAKE_BUF_CAP THEN Err(Fed, "HeaderTooLarge")
           ELSE IF hs.kind = "http" THEN http_step(Fed) ELSE socks5_step(Fed)
    BY DEF step, Fed
  <2>2. Fed.kind = hs.kind
    BY <1>3 DEF Fed, Machine
  <2> HIDE DEF s, rest
  <2>3. CASE s = Err(Fed, "HeaderTooLarge")
    BY <2>3 DEF Err
  <2>4. CASE s = IF Fed.kind = "http" THEN http_step(Fed) ELSE socks5_step(Fed)
    BY <1>0, <1>3, <2>4, Turn
  <2>5. s = Err(Fed, "HeaderTooLarge") \/ s = IF Fed.kind = "http" THEN http_step(Fed) ELSE socks5_step(Fed)
    BY <2>1, <2>2 DEF s
  <2> QED
    BY <2>3, <2>4, <2>5
<1> HIDE DEF s
<1>5. /\ input \in Seq(B) /\ sock \in Seq(B) /\ coming \in Seq(B) /\ <<>> \in Seq(B)
      /\ wrote \in Seq(HalfMessages) /\ hs_out \in Seq(HalfMessages)
  BY DEF IInv, Sequences
\* The handshake goes on, at the byte e with the conversation told behind it.
<1>6. ASSUME mode' = "handshake", to_app' = to_app,
             wrote' \in Seq(HalfMessages), hs_out' \in Seq(HalfMessages),
             pc' \in {"idle", "stepping"}, pc' = "stepping" => hs_out' = <<>>,
             NEW e \in 0..Len(reply.bytes), NEW told \in Seq(Messages),
             wrote' \o hs_out' = Halved(told), At(reply, s.hs, told, rest, e)
      PROVE  IInv'
  <2>1. s.hs \in Machine(B)
    BY <1>6 DEF At
  <2>2. Fed' = s.hs
    BY <1>1, <2>1, Buffer DEF Fed
  <2>3. sock' \o coming' = rest
    BY <1>1
  <2>4. Shaking'
    BY <1>1, <1>3, <1>6, <2>1, <2>2, <2>3 DEF Shaking
  <2>5. ConversationExact'
    BY <1>1, <1>3, <1>6, SaidInHalves DEF ConversationExact
  <2>6. TunnelExact'
    BY <1>6 DEF TunnelExact
  <2>7. Sequences' /\ Driver'
    BY <1>1, <1>3, <1>5, <1>6 DEF Sequences, Driver
  <2> QED
    BY <1>1, <1>3, <2>4, <2>5, <2>6, <2>7 DEF IInv
\* A message is written, whole, in part or not at all.
<1>7. ASSUME s.step = "Write", NEW ok, flush_handshake_out(queued, ok)
      PROVE  /\ wrote' \in Seq(HalfMessages) /\ hs_out' \in Seq(HalfMessages)
             /\ \E e \in 0..Len(reply.bytes), told \in Seq(Messages) :
                   wrote' \o hs_out' = Halved(told) /\ At(reply, s.hs, told, rest, e)
  <2> DEFINE m == s.bytes
  <2>1. m \in Messages /\ \E e \in 0..Len(reply.bytes) : At(reply, s.hs, Append(said, m), rest, e)
    BY <1>4, <1>7 DEF After
  <2> HIDE DEF rest, m
  <2>2. PICK e \in 0..Len(reply.bytes) : At(reply, s.hs, Append(said, m), rest, e)
    BY <2>1
  <2>3. /\ Append(said, m) \in Seq(Messages) /\ Halved(<<m>>) \in Seq(HalfMessages)
        /\ Halved(Append(said, m)) = Halved(said) \o Halved(<<m>>)
    BY <2>1, HalvedGrows DEF Grows
  <2>4. hs_out \o Halved(<<m>>) \in Seq(HalfMessages)
    BY <1>5, <2>3, ConcatProperties
  <2>5. flush_handshake_out(hs_out \o Halved(<<m>>), ok)
    BY <1>7 DEF m
  <2>6. /\ wrote' \in Seq(HalfMessages) /\ hs_out' \in Seq(HalfMessages)
        /\ wrote' \o hs_out' = wrote \o (hs_out \o Halved(<<m>>))
    BY <1>5, <2>4, <2>5, Flushes
  <2>7. wrote \o (hs_out \o Halved(<<m>>)) = (wrote \o hs_out) \o Halved(<<m>>)
    <3>1. Associates(wrote, hs_out, Halved(<<m>>))
      BY <1>5, <2>3, Associative
    <3> QED
      BY <3>1 DEF Associates
  <2>8. wrote' \o hs_out' = Halved(Append(said, m))
    BY <1>0, <2>3, <2>6, <2>7
  <2> QED
    BY <2>2, <2>3, <2>6, <2>8
<1>11. CASE /\ s.step = "Write" /\ flush_handshake_out(queued, FALSE)
            /\ mode' = "failed" /\ pc' = "idle" /\ to_app' = to_app
  <2>1. /\ wrote' \in Seq(HalfMessages) /\ hs_out' \in Seq(HalfMessages)
        /\ \E e \in 0..Len(reply.bytes), told \in Seq(Messages) :
              wrote' \o hs_out' = Halved(told) /\ At(reply, s.hs, told, rest, e)
    BY <1>7, <1>11
  <2>2. Sequences'
    BY <1>1, <1>3, <1>5, <1>11, <2>1 DEF Sequences
  <2>3. TunnelExact'
    BY <1>11 DEF TunnelExact
  <2>4. ConversationExact'
    BY <1>1, <1>3, <2>1, SaidInHalves DEF ConversationExact
  <2> QED
    BY <1>1, <1>11, <2>2, <2>3, <2>4, Ends
<1>12. CASE /\ s.step = "Write" /\ flush_handshake_out(queued, TRUE)
            /\ pc' = IF hs_out' = <<>> THEN "stepping" ELSE "idle"
            /\ mode' = mode /\ to_app' = to_app
  <2>1. /\ wrote' \in Seq(HalfMessages) /\ hs_out' \in Seq(HalfMessages)
        /\ \E e \in 0..Len(reply.bytes), told \in Seq(Messages) :
              wrote' \o hs_out' = Halved(told) /\ At(reply, s.hs, told, rest, e)
    BY <1>7, <1>12
  <2>2. pc' \in {"idle", "stepping"} /\ (pc' = "stepping" => hs_out' = <<>>)
    BY <1>12
  <2>3. mode' = "handshake" /\ to_app' = to_app
    BY <1>1, <1>12
  <2> HIDE DEF rest, queued
  <2> QED
    BY <1>6, <2>1, <2>2, <2>3
<1>8. CASE /\ s.step = "Read" /\ pc' = "idle"
           /\ mode' = mode /\ hs_out' = hs_out /\ wrote' = wrote /\ to_app' = to_app
  <2>1. After(reply, said, rest, s)
    BY <1>4, <1>8
  <2>2. \E e \in 0..Len(reply.bytes) : At(reply, s.hs, said, rest, e)
    BY <1>8, <2>1 DEF After
  <2>3. wrote' \o hs_out' = Halved(said) /\ wrote' \in Seq(HalfMessages) /\ hs_out' \in Seq(HalfMessages)
    BY <1>0, <1>5, <1>8
  <2> HIDE DEF rest
  <2> QED
    BY <1>1, <1>6, <1>8, <2>2, <2>3
<1>9. CASE /\ s.step \in {"Read", "Err"} /\ mode' = "failed" /\ pc' = "idle"
           /\ hs_out' = hs_out /\ wrote' = wrote /\ to_app' = to_app
  <2>1. Sequences'
    BY <1>1, <1>3, <1>5, <1>9 DEF Sequences
  <2>2. TunnelExact'
    BY <1>9 DEF TunnelExact
  <2>3. ConversationExact'
    BY <1>1, <1>9 DEF IInv, ConversationExact
  <2> QED
    BY <1>1, <1>9, <2>1, <2>2, <2>3, Ends
<1>10. CASE /\ s.step = "Done" /\ mode' = "tunnel" /\ to_app' = to_app \o s.bytes /\ pc' = "idle"
            /\ hs_out' = hs_out /\ wrote' = wrote
  <2>1. After(reply, said, rest, s)
    BY <1>4, <1>10
  <2>2. /\ reply.grant /\ s.hs.bound = reply.bound /\ s.bytes \in Seq(B)
        /\ s.bytes \o rest = SubSeq(reply.bytes, reply.origin, Len(reply.bytes))
    BY <1>10, <2>1 DEF After
  <2>3. to_app' = s.bytes
    BY <1>3, <1>10, <2>2, Concat
  <2>4. (to_app' \o sock') \o coming' = s.bytes \o rest
    <3>1. Associates(s.bytes, sock, coming)
      BY <1>5, <2>2, Associative
    <3> QED
      BY <1>1, <2>3, <3>1 DEF Associates
  <2>5. TunnelExact'
    BY <1>1, <2>2, <2>4 DEF TunnelExact
  <2>6. Sequences'
    BY <1>1, <1>5, <1>10, <2>2, <2>3 DEF Sequences
  <2>7. ConversationExact'
    BY <1>1, <1>10 DEF IInv, ConversationExact
  <2> QED
    BY <1>1, <1>10, <2>5, <2>6, <2>7, Ends
<1> QED
  BY <1>2, <1>8, <1>9, <1>10, <1>11, <1>12

LEMMA RelaysInv == IInv /\ Relays => IInv'
<1> SUFFICES ASSUME IInv, Relays
             PROVE  IInv'
  OBVIOUS
<1> DEFINE B == Octets(reply)
<1>1. /\ mode = "tunnel" /\ to_app' = to_app \o sock /\ sock' = <<>> /\ mode' = mode
      /\ hs' = hs /\ hs_out' = hs_out /\ pc' = pc /\ input' = input /\ wrote' = wrote
      /\ coming' = coming /\ reply' = reply
  BY DEF Relays, script
<1>2. /\ to_app \in Seq(B) /\ sock \in Seq(B) /\ coming \in Seq(B) /\ pc = "idle" /\ input = <<>>
  BY <1>1 DEF IInv, Sequences, Driver
<1>3. to_app \o sock \in Seq(B) /\ <<>> \in Seq(B) /\ (to_app \o sock) \o <<>> = to_app \o sock
  BY <1>2, Concat
<1>4. Sequences'
  BY <1>1, <1>3 DEF IInv, Sequences
<1>5. TunnelExact'
  BY <1>1, <1>3 DEF IInv, TunnelExact
<1>6. ConversationExact'
  BY <1>1 DEF IInv, ConversationExact
<1> QED
  BY <1>1, <1>2, <1>4, <1>5, <1>6, Ends

LEMMA StepInv == IInv /\ [Next]_vars => IInv'
<1> SUFFICES ASSUME IInv, [Next]_vars
             PROVE  IInv'
  OBVIOUS
<1>1. CASE Arrives
  BY <1>1, ArrivesInv
<1>2. CASE Closes
  BY <1>2 DEF Closes, script, driver, IInv, Sequences, Driver, Shaking, Fed, TunnelExact, ConversationExact
<1>3. CASE drive_begins
  BY <1>3, BeginsInv
<1>4. CASE drive_steps
  BY <1>4, StepsInv
<1>5. CASE Relays
  BY <1>5, RelaysInv
<1>6. CASE open_forward
  BY <1>6 DEF open_forward, proxy, IInv, Sequences, Driver, Shaking, TunnelExact, ConversationExact
<1>7. CASE service_forward
  <2>1. /\ mode = "forward" /\ mode' \in {"forward", "refused"}
        /\ hs_out' = hs_out /\ pc' = pc /\ input' = input /\ wrote' = wrote /\ to_app' = to_app
        /\ sock' = sock /\ coming' = coming /\ reply' = reply
    BY <1>7 DEF service_forward, proxy, script
  <2> QED
    BY <2>1 DEF IInv, Sequences, Driver, Shaking, TunnelExact, ConversationExact
<1>8. CASE Breaks
  BY <1>8 DEF Breaks, script, driver, IInv, Sequences, Driver, Shaking, Fed, TunnelExact, ConversationExact
<1>9. CASE UNCHANGED vars
  BY <1>9 DEF vars, script, driver, proxy, IInv, Sequences, Driver, Shaking, Fed, TunnelExact, ConversationExact
<1> QED
  BY <1>1, <1>2, <1>3, <1>4, <1>5, <1>6, <1>7, <1>8, <1>9 DEF Next

LEMMA InvHolds == Spec => []IInv
<1> QED
  BY InitInv, StepInv, PTL DEF Spec

\* A tunnel opens on a grant only, and then the app gets the origin's bytes from the first
\* one on, whatever the segments the proxy's answer came in (drive_proxy_handshake over
\* Handshake::step, the leftover of Step::Done).
THEOREM TunnelIsExact == Spec => []TunnelExact
<1>1. IInv => TunnelExact
  BY DEF IInv
<1> QED
  BY <1>1, InvHolds, PTL

\* The proxy is told each message once and in order, and the password only when it asked
\* for it, whatever the segments and however late or in part the socket takes a message
\* (Step::Write, the tail that flush_handshake_out keeps).
THEOREM ConversationIsExact == Spec => []ConversationExact
<1>1. IInv => ConversationExact
  BY DEF IInv
<1> QED
  BY <1>1, InvHolds, PTL

-----------------------------------------------------------------------------
(* Recursion *)

\* The first n steps of a sequence of values: the first is a, and g gives each from its
\* number and the one before.
Steps(f, g, a, n) ==
    /\ f = [i \in 0..n |-> f[i]] /\ f[0] = a
    /\ \A i \in 1..n : f[i] = g[<<i, f[i - 1]>>]

LEMMA StepsExist ==
    ASSUME NEW g, NEW a, NEW n \in Nat
    PROVE  \E f : Steps(f, g, a, n)
<1> DEFINE Bad == {k \in Nat : ~ \E f : Steps(f, g, a, k)}
<1>1. SUFFICES ASSUME Bad # {}
               PROVE  FALSE
  OBVIOUS
<1>2. PICK k \in Bad : \A m \in Bad : k <= m
  <2>1. Bad \subseteq Nat
    OBVIOUS
  <2> HIDE DEF Bad
  <2> QED
    BY <1>1, <2>1, Least
<1>3. CASE k = 0
  <2> DEFINE f == [i \in 0..0 |-> a]
  <2>1. Steps(f, g, a, 0)
    BY DEF Steps
  <2> QED
    BY <1>2, <1>3, <2>1
<1>4. CASE k # 0
  <2>1. k - 1 \in Nat /\ ~ (k <= k - 1) /\ k \in Nat
    BY <1>2, <1>4
  <2>2. PICK f : Steps(f, g, a, k - 1)
    BY <1>2, <2>1
  <2> DEFINE h == [i \in 0..k |-> IF i = k THEN g[<<k, f[k - 1]>>] ELSE f[i]]
  <2>3. h = [i \in 0..k |-> h[i]]
    OBVIOUS
  <2>4. h[0] = a
    BY <1>4, <2>1, <2>2 DEF Steps
  <2>5. ASSUME NEW i \in 1..k
        PROVE  h[i] = g[<<i, h[i - 1]>>]
    <3>1. i \in 0..k /\ i - 1 \in 0..k /\ i - 1 # k
      BY <2>1
    <3>2. h[i - 1] = f[i - 1]
      BY <3>1
    <3>3. CASE i = k
      BY <3>1, <3>2, <3>3
    <3>4. CASE i # k
      <4>1. i \in 1..(k - 1)
        BY <2>1, <3>4
      <4>2. f[i] = g[<<i, f[i - 1]>>]
        BY <2>2, <4>1 DEF Steps
      <4> QED
        BY <3>1, <3>2, <3>4, <4>2
    <3> QED
      BY <3>3, <3>4
  <2> HIDE DEF h
  <2>6. Steps(h, g, a, k)
    BY <2>3, <2>4, <2>5 DEF Steps
  <2> QED
    BY <1>2, <2>6
<1> QED
  BY <1>3, <1>4

LEMMA FlattenIs ==
    ASSUME NEW S, NEW ss \in Seq(Seq(S)), NEW P,
           P[0] = <<>>, \A k \in 0..Len(ss) : P[k] \in Seq(S),
           \A k \in 1..Len(ss) : P[k] = P[k - 1] \o ss[k]
    PROVE  FlattenSeq(ss) = P[Len(ss)]
<1>0. Len(ss) \in Nat
  BY LenProperties
<1>1. CASE Len(ss) = 0
  BY <1>1, LenProperties, EmptySeq DEF FlattenSeq
<1>2. CASE Len(ss) # 0
  <2> DEFINE n == Len(ss)
             F(f) == f = [i \in 1..n |-> IF i = 1 THEN ss[i] ELSE f[i - 1] \o ss[i]]
             p == [i \in 1..n |-> P[i]]
             flatten == CHOOSE f : F(f)
  <2>1. FlattenSeq(ss) = flatten[n]
    BY <1>2 DEF FlattenSeq
  <2>2. n \in Nat /\ n >= 1 /\ \A i \in 1..n : ss[i] \in Seq(S)
    BY <1>0, <1>2, LenProperties
  <2>3. F(p)
    <3>1. ASSUME NEW i \in 1..n
          PROVE  P[i] = IF i = 1 THEN ss[i] ELSE p[i - 1] \o ss[i]
      <4>1. CASE i = 1
        <5>1. 1 \in 1..n /\ i - 1 = 0
          BY <2>2, <4>1
        <5>2. ss[1] \in Seq(S)
          BY <2>2, <5>1
        <5>3. <<>> \o ss[1] = ss[1]
          BY <5>2, Concat
        <5>4. P[1] = P[1 - 1] \o ss[1]
          BY <5>1
        <5>5. P[1 - 1] = <<>>
          BY <4>1, <5>1
        <5> QED
          BY <4>1, <5>3, <5>4, <5>5
      <4>2. CASE i # 1
        <5>1. i - 1 \in 1..n
          BY <2>2, <4>2
        <5>2. p[i - 1] = P[i - 1]
          BY <5>1
        <5> QED
          BY <4>2, <5>2
      <4> QED
        BY <4>1, <4>2
    <3>2. p = [i \in 1..n |-> P[i]]
      OBVIOUS
    <3> HIDE DEF p
    <3>3. [i \in 1..n |-> P[i]] = [i \in 1..n |-> IF i = 1 THEN ss[i] ELSE p[i - 1] \o ss[i]]
      BY <3>1
    <3> QED
      BY <3>2, <3>3
  <2>4. F(flatten)
    <3> HIDE DEF p, F
    <3> QED
      BY <2>3
  <2> HIDE DEF flatten
  <2>5. ASSUME NEW i \in 1..n
        PROVE  flatten[i] = IF i = 1 THEN ss[i] ELSE flatten[i - 1] \o ss[i]
    BY <2>4
  <2>6. ASSUME NEW i \in 1..n
        PROVE  P[i] = IF i = 1 THEN ss[i] ELSE P[i - 1] \o ss[i]
    <3>1. P[i] = IF i = 1 THEN ss[i] ELSE p[i - 1] \o ss[i]
      <4>1. p[i] = IF i = 1 THEN ss[i] ELSE p[i - 1] \o ss[i]
        <5> HIDE DEF p
        <5> QED
          BY <2>3
      <4> QED
        BY <4>1
    <3>2. i # 1 => i - 1 \in 1..n
      BY <2>2
    <3> QED
      BY <3>1, <3>2
  <2> DEFINE Bad == {i \in 1..n : flatten[i] # P[i]}
  <2> HIDE DEF F, p
  <2>7. Bad = {}
    <3> SUFFICES ASSUME Bad # {}
                 PROVE  FALSE
      OBVIOUS
    <3>1. PICK i \in Bad : \A m \in Bad : i <= m
      <4>1. Bad \subseteq Nat
        OBVIOUS
      <4> HIDE DEF Bad
      <4> QED
        BY <4>1, Least
    <3>2. i \in 1..n /\ flatten[i] # P[i]
      BY <3>1
    <3>3. i # 1
      BY <2>5, <2>6, <3>2
    <3>4. i - 1 \in 1..n /\ ~ (i <= i - 1)
      BY <3>2, <3>3
    <3>5. flatten[i - 1] = P[i - 1]
      BY <3>1, <3>4
    <3> QED
      BY <2>5, <2>6, <3>2, <3>3, <3>5
  <2> QED
    BY <2>1, <2>2, <2>7
<1> QED
  BY <1>1, <1>2

LEMMA PartsExist ==
    ASSUME NEW S, NEW ss \in Seq(Seq(S))
    PROVE  \E P : /\ P[0] = <<>> /\ \A k \in 0..Len(ss) : P[k] \in Seq(S)
                  /\ \A k \in 1..Len(ss) : P[k] = P[k - 1] \o ss[k]
<1> DEFINE n == Len(ss)
           g == [x \in (1..n) \X Seq(S) |-> x[2] \o ss[x[1]]]
<1>0. n \in Nat /\ \A i \in 1..n : ss[i] \in Seq(S)
  BY LenProperties
<1>1. \A i \in 1..n, s \in Seq(S) : g[<<i, s>>] = s \o ss[i] /\ s \o ss[i] \in Seq(S)
  BY <1>0, Concat
<1> HIDE DEF g
<1>2. PICK P : Steps(P, g, <<>>, n)
  <2> HIDE DEF n
  <2> QED
    BY <1>0, StepsExist
<1> DEFINE Bad == {k \in 0..n : P[k] \notin Seq(S)}
<1>3. Bad = {}
  <2> SUFFICES ASSUME Bad # {}
               PROVE  FALSE
    OBVIOUS
  <2>1. PICK k \in Bad : \A m \in Bad : k <= m
    <3>1. Bad \subseteq Nat
      OBVIOUS
    <3> HIDE DEF Bad
    <3> QED
      BY <3>1, Least
  <2>2. k \in 0..n /\ P[k] \notin Seq(S)
    BY <2>1
  <2>3. P[0] \in Seq(S)
    <3>1. P[0] = <<>>
      BY <1>2 DEF Steps
    <3>2. <<>> \in Seq(S)
      BY EmptySeq
    <3> QED
      BY <3>1, <3>2
  <2>4. k # 0
    BY <2>2, <2>3
  <2>5. k \in 1..n /\ k - 1 \in 0..n /\ ~ (k <= k - 1)
    BY <1>0, <2>2, <2>4
  <2>6. P[k - 1] \in Seq(S)
    BY <2>1, <2>5
  <2>7. P[k] = g[<<k, P[k - 1]>>]
    BY <1>2, <2>5 DEF Steps
  <2>8. P[k - 1] \o ss[k] \in Seq(S) /\ g[<<k, P[k - 1]>>] = P[k - 1] \o ss[k]
    <3> DEFINE s == P[k - 1]
    <3>1. s \in Seq(S)
      BY <2>6
    <3> HIDE DEF s
    <3>2. s \o ss[k] \in Seq(S) /\ g[<<k, s>>] = s \o ss[k]
      BY <1>1, <2>5, <3>1
    <3> QED
      BY <3>2 DEF s
  <2> QED
    BY <2>2, <2>7, <2>8
<1>4. ASSUME NEW k \in 1..n
      PROVE  P[k] = P[k - 1] \o ss[k]
  <2>1. k - 1 \in 0..n
    BY <1>0
  <2>2. P[k - 1] \in Seq(S)
    BY <1>3, <2>1
  <2>3. P[k] = g[<<k, P[k - 1]>>]
    BY <1>2 DEF Steps
  <2> QED
    BY <1>1, <2>2, <2>3
<1>5. P[0] = <<>> /\ \A k \in 0..n : P[k] \in Seq(S)
  BY <1>2, <1>3 DEF Steps
<1> QED
  BY <1>4, <1>5

\* One sequence more.
LEMMA FlattenGrows ==
    ASSUME NEW S, NEW tt \in Seq(Seq(S)), NEW uu \in Seq(Seq(S)), Len(uu) = Len(tt) + 1,
           \A i \in 1..Len(tt) : uu[i] = tt[i]
    PROVE  /\ FlattenSeq(tt) \in Seq(S)
           /\ FlattenSeq(uu) = FlattenSeq(tt) \o uu[Len(uu)]
<1>0. Len(tt) \in Nat /\ Len(uu) \in Nat
  BY LenProperties
<1>1. PICK P : /\ P[0] = <<>> /\ \A k \in 0..Len(uu) : P[k] \in Seq(S)
               /\ \A k \in 1..Len(uu) : P[k] = P[k - 1] \o uu[k]
  BY PartsExist
<1>2. FlattenSeq(uu) = P[Len(uu)]
  BY <1>1, FlattenIs
<1>3. /\ \A k \in 0..Len(tt) : P[k] \in Seq(S)
      /\ \A k \in 1..Len(tt) : P[k] = P[k - 1] \o tt[k]
  <2>1. /\ \A k \in 0..Len(tt) : k \in 0..Len(uu)
        /\ \A k \in 1..Len(tt) : k \in 1..Len(uu)
    BY <1>0
  <2>2. \A k \in 0..Len(tt) : P[k] \in Seq(S)
    BY <1>1, <2>1
  <2>3. \A k \in 1..Len(tt) : P[k] = P[k - 1] \o tt[k]
    BY <1>1, <2>1
  <2> QED
    BY <2>2, <2>3
<1>4. FlattenSeq(tt) = P[Len(tt)]
  BY <1>1, <1>3, FlattenIs
<1>5. Len(uu) \in 1..Len(uu) /\ Len(uu) - 1 = Len(tt) /\ Len(tt) \in 0..Len(tt)
  BY <1>0
<1> QED
  BY <1>1, <1>2, <1>3, <1>4, <1>5

-----------------------------------------------------------------------------
(* The app's stream *)

\* u is s and then t.
Spliced(S, s, t, u) ==
    /\ u \in Seq(S) /\ Len(s) \in Nat /\ Len(t) \in Nat /\ Len(u) = Len(s) + Len(t)
    /\ \A i \in 1..Len(s) : u[i] = s[i]
    /\ \A i \in 1..Len(t) : u[Len(s) + i] = t[i]

LEMMA Concatenated ==
    ASSUME NEW S, NEW s \in Seq(S), NEW t \in Seq(S)
    PROVE  Spliced(S, s, t, s \o t)
<1>0. Len(s) \in Nat /\ Len(t) \in Nat
  BY LenProperties
<1>1. /\ s \o t \in Seq(S) /\ Len(s \o t) = Len(s) + Len(t)
      /\ \A i \in 1..(Len(s) + Len(t)) : (s \o t)[i] = IF i <= Len(s) THEN s[i] ELSE t[i - Len(s)]
  BY ConcatProperties
<1>2. ASSUME NEW i \in 1..Len(s)
      PROVE  (s \o t)[i] = s[i]
  BY <1>0, <1>1
<1>3. ASSUME NEW i \in 1..Len(t)
      PROVE  (s \o t)[Len(s) + i] = t[i]
  <2>1. Len(s) + i \in 1..(Len(s) + Len(t)) /\ ~ (Len(s) + i <= Len(s)) /\ Len(s) + i - Len(s) = i
    BY <1>0
  <2> QED
    BY <1>1, <2>1
<1> QED
  BY <1>0, <1>1, <1>2, <1>3 DEF Spliced

HeadOf(q) == <<q.line, "CRLF">> \o CRLFs(q.headers) \o <<"CRLF">>

LEMMA Tuples ==
    ASSUME NEW S, NEW u \in S, NEW v \in S
    PROVE  /\ <<u>> \in Seq(S) /\ Len(<<u>>) = 1 /\ <<u>>[1] = u
           /\ <<u, v>> \in Seq(S) /\ Len(<<u, v>>) = 2 /\ <<u, v>>[1] = u /\ <<u, v>>[2] = v
OBVIOUS

LEMMA LinesAre ==
    ASSUME NEW l \in Seq(Lines)
    PROVE  /\ Len(l) \in Nat /\ CRLFs(l) \in Seq(Tokens) /\ Len(CRLFs(l)) = 2 * Len(l)
           /\ \A j \in 1..Len(l) : CRLFs(l)[2 * j - 1] = l[j] /\ CRLFs(l)[2 * j] = "CRLF"
<1> DEFINE c == CRLFs(l)
           n == Len(l)
<1>0. n \in Nat /\ \A i \in 1..n : l[i] \in Tokens
  BY LenProperties DEF Lines
<1>1. c = [i \in 1..(2 * n) |-> IF i % 2 = 1 THEN l[(i + 1) \div 2] ELSE "CRLF"]
  BY DEF CRLFs
<1> HIDE DEF c, n
<1>2. ASSUME NEW i \in 1..(2 * n)
      PROVE  c[i] \in Tokens
  <2>1. i % 2 = 1 => (i + 1) \div 2 \in 1..n
    BY <1>0
  <2>2. "CRLF" \in Tokens
    BY StreamAssumption
  <2> QED
    BY <1>0, <1>1, <2>1, <2>2
<1>3. c \in Seq(Tokens) /\ Len(c) = 2 * n
  <2>1. c \in [1..(2 * n) -> Tokens] /\ 2 * n \in Nat
    BY <1>0, <1>1, <1>2
  <2> QED
    BY <2>1
<1>4. ASSUME NEW j \in 1..n
      PROVE  c[2 * j - 1] = l[j] /\ c[2 * j] = "CRLF"
  <2>1. /\ 2 * j - 1 \in 1..(2 * n) /\ (2 * j - 1) % 2 = 1 /\ (2 * j - 1 + 1) \div 2 = j
        /\ 2 * j \in 1..(2 * n) /\ (2 * j) % 2 # 1
    BY <1>0
  <2>2. \A i \in 1..(2 * n) : c[i] = IF i % 2 = 1 THEN l[(i + 1) \div 2] ELSE "CRLF"
    BY <1>1
  <2>3. c[2 * j - 1] = l[j]
    BY <2>1, <2>2
  <2>4. c[2 * j] = "CRLF"
    BY <2>1, <2>2
  <2> QED
    BY <2>3, <2>4
<1> QED
  BY <1>0, <1>3, <1>4 DEF c, n

\* A head: its line, its headers, a CRLF behind each, and an empty line.
LEMMA HeadIs ==
    ASSUME NEW q \in Request, NEW h, h = HeadOf(q)
    PROVE  /\ h \in Seq(Tokens) /\ Len(q.headers) \in Nat /\ Len(h) = 2 * Len(q.headers) + 3
           /\ h[1] = q.line /\ h[2] = "CRLF" /\ h[Len(h)] = "CRLF"
           /\ \A j \in 1..Len(q.headers) : h[2 * j + 1] = q.headers[j] /\ h[2 * j + 2] = "CRLF"
<1> DEFINE a == <<q.line, "CRLF">>
           c == CRLFs(q.headers)
           z == <<"CRLF">>
           n == Len(q.headers)
<1>1. q.headers \in Seq(Lines) /\ q.line \in Tokens
  BY DEF Request, Lines
<1>2. /\ n \in Nat /\ c \in Seq(Tokens) /\ Len(c) = 2 * n
      /\ \A j \in 1..n : c[2 * j - 1] = q.headers[j] /\ c[2 * j] = "CRLF"
  BY <1>1, LinesAre
<1>3. a \in Seq(Tokens) /\ Len(a) = 2 /\ a[1] = q.line /\ a[2] = "CRLF"
  <2>1. "CRLF" \in Tokens
    BY StreamAssumption
  <2> QED
    BY <1>1, <2>1, Tuples
<1>4. z \in Seq(Tokens) /\ Len(z) = 1 /\ z[1] = "CRLF"
  <2>1. "CRLF" \in Tokens
    BY StreamAssumption
  <2> QED
    BY <2>1, Tuples
<1>5. h = (a \o c) \o z
  BY DEF HeadOf
<1> HIDE DEF a, c, z, n
<1> DEFINE s == a \o c
<1>6. /\ s \in Seq(Tokens) /\ Len(s) = Len(a) + Len(c)
      /\ \A i \in 1..Len(a) : s[i] = a[i]
      /\ \A i \in 1..Len(c) : s[Len(a) + i] = c[i]
  <2>1. Spliced(Tokens, a, c, s)
    BY <1>2, <1>3, Concatenated
  <2> HIDE DEF s
  <2> QED
    BY <2>1 DEF Spliced
<1>7. /\ h \in Seq(Tokens) /\ Len(h) = Len(s) + Len(z)
      /\ \A i \in 1..Len(s) : h[i] = s[i]
      /\ \A i \in 1..Len(z) : h[Len(s) + i] = z[i]
  <2>1. Spliced(Tokens, s, z, h)
    <3> HIDE DEF s
    <3>1. Spliced(Tokens, s, z, s \o z)
      BY <1>4, <1>6, Concatenated
    <3>2. h = s \o z
      BY <1>5 DEF s
    <3> QED
      BY <3>1, <3>2
  <2> HIDE DEF s
  <2> QED
    BY <2>1 DEF Spliced
<1> HIDE DEF s
<1>8. Len(s) = 2 + 2 * n /\ Len(h) = 2 * n + 3
  BY <1>2, <1>3, <1>4, <1>6, <1>7 DEF s
<1>9. h[1] = q.line /\ h[2] = "CRLF"
  <2>1. 1 \in 1..Len(s) /\ 2 \in 1..Len(s) /\ 1 \in 1..Len(a) /\ 2 \in 1..Len(a)
    BY <1>2, <1>3, <1>8
  <2> QED
    BY <1>3, <1>6, <1>7, <2>1
<1>10. h[Len(h)] = "CRLF"
  <2>1. 1 \in 1..Len(z) /\ Len(h) = Len(s) + 1
    BY <1>4, <1>7, <1>8
  <2> QED
    BY <1>4, <1>7, <2>1
<1>11. ASSUME NEW j \in 1..n
       PROVE  h[2 * j + 1] = q.headers[j] /\ h[2 * j + 2] = "CRLF"
  <2>1. /\ 2 * j - 1 \in 1..Len(c) /\ 2 * j \in 1..Len(c)
        /\ 2 + (2 * j - 1) = 2 * j + 1 /\ 2 + 2 * j = 2 * j + 2
        /\ 2 * j + 1 \in 1..Len(s) /\ 2 * j + 2 \in 1..Len(s)
    BY <1>2, <1>8
  <2>2. s[Len(a) + (2 * j - 1)] = c[2 * j - 1] /\ s[Len(a) + 2 * j] = c[2 * j]
    BY <1>6, <2>1
  <2>3. s[2 * j + 1] = c[2 * j - 1] /\ s[2 * j + 2] = c[2 * j]
    BY <1>3, <2>1, <2>2
  <2> QED
    BY <1>2, <1>7, <2>1, <2>3
<1> QED
  BY <1>2, <1>7, <1>8, <1>9, <1>10, <1>11 DEF n

LEMMA BlankIs ==
    ASSUME NEW S, NEW b \in Seq(S), NEW i \in 1..(Len(b) - 1)
    PROVE  SubSeq(b, i, i + 1) = <<"CRLF", "CRLF">> <=> b[i] = "CRLF" /\ b[i + 1] = "CRLF"
<1> DEFINE u == SubSeq(b, i, i + 1)
           v == <<"CRLF", "CRLF">>
<1>0. Len(b) \in Nat /\ i \in Nat /\ i + 1 \in Nat /\ 1 <= i /\ i <= i + 1 + 1 /\ i + 1 <= Len(b)
      /\ i \in 1..Len(b)
  BY LenProperties
<1>1. u \in Seq(S) /\ Len(u) = i + 1 - i + 1 /\ \A j \in 1..(i + 1 - i + 1) : u[j] = b[i + j - 1]
  BY <1>0, Part
<1>2. v[1] = "CRLF" /\ v[2] = "CRLF" /\ Len(v) = 2
  OBVIOUS
<1>3. b[i] = "CRLF" => v \in Seq(S)
  <2>1. b[i] \in S
    BY <1>0, LenProperties
  <2>2. "CRLF" \in S => v \in Seq(S)
    BY Tuples
  <2> QED
    BY <2>1, <2>2
<1> HIDE DEF u, v
<1>4. u[1] = b[i] /\ u[2] = b[i + 1] /\ Len(u) = 2
  <2>1. 1 \in 1..(i + 1 - i + 1) /\ 2 \in 1..(i + 1 - i + 1) /\ i + 1 - 1 = i /\ i + 2 - 1 = i + 1
        /\ i + 1 - i + 1 = 2
    BY <1>0
  <2>2. u[1] = b[i + 1 - 1] /\ u[2] = b[i + 2 - 1]
    BY <1>1, <2>1
  <2> QED
    BY <1>1, <2>1, <2>2
<1>5. ASSUME b[i] = "CRLF", b[i + 1] = "CRLF"
      PROVE  u = v
  <2>1. v \in Seq(S) /\ Len(u) = Len(v)
    BY <1>2, <1>3, <1>4, <1>5
  <2>2. \A j \in 1..2 : j = 1 \/ j = 2
    OBVIOUS
  <2>3. \A j \in 1..Len(u) : u[j] = v[j]
    BY <1>2, <1>4, <1>5, <2>2
  <2> QED
    BY <1>1, <2>1, <2>3, SeqEqual
<1> QED
  BY <1>2, <1>4, <1>5 DEF u, v

\* find_head_end: the first empty line.
LEMMA HeadEnds ==
    ASSUME NEW S, NEW b \in Seq(S), NEW end, end = find_head_end(b)
    PROVE  \/ end = 0 /\ \A i \in 1..(Len(b) - 1) : ~ (b[i] = "CRLF" /\ b[i + 1] = "CRLF")
           \/ /\ end \in 2..Len(b) /\ b[end - 1] = "CRLF" /\ b[end] = "CRLF"
              /\ \A i \in 1..(end - 2) : ~ (b[i] = "CRLF" /\ b[i + 1] = "CRLF")
<1> DEFINE ends == {i \in 1..(Len(b) - 1) : SubSeq(b, i, i + 1) = <<"CRLF", "CRLF">>}
<1>0. Len(b) \in Nat
  BY LenProperties
<1>1. end = IF ends = {} THEN 0 ELSE Min(ends) + 1
  BY DEF find_head_end
<1>2. \A i \in 1..(Len(b) - 1) : i \in ends <=> b[i] = "CRLF" /\ b[i + 1] = "CRLF"
  BY BlankIs
<1>3. ends \subseteq Nat /\ ends \subseteq 1..(Len(b) - 1)
  OBVIOUS
<1> HIDE DEF ends
<1>4. CASE ends = {}
  BY <1>1, <1>2, <1>4
<1>5. CASE ends # {}
  <2> DEFINE m == Min(ends)
  <2>1. m \in ends /\ \A i \in ends : m <= i
    BY <1>3, <1>5, MinIsLeast
  <2>2. end = m + 1
    BY <1>1, <1>5
  <2> HIDE DEF m
  <2>3. m \in 1..(Len(b) - 1) /\ end - 1 = m
    BY <1>3, <2>1, <2>2
  <2>4. b[m] = "CRLF" /\ b[m + 1] = "CRLF"
    BY <1>2, <2>1, <2>3
  <2>5. ASSUME NEW i \in 1..(end - 2), b[i] = "CRLF" /\ b[i + 1] = "CRLF"
        PROVE  FALSE
    <3>1. i \in 1..(Len(b) - 1) /\ ~ (m <= i)
      BY <1>0, <2>2, <2>3
    <3> QED
      BY <1>2, <2>1, <2>5, <3>1
  <2>6. end \in 2..Len(b)
    BY <1>0, <2>2, <2>3
  <2> QED
    BY <2>2, <2>3, <2>4, <2>5, <2>6
<1> QED
  BY <1>4, <1>5

\* The only empty line of a head is its last one.
LEMMA BlankOnce ==
    ASSUME NEW q \in Request, NEW h, h = HeadOf(q)
    PROVE  /\ Len(h) \in Nat /\ Len(h) >= 3 /\ h[Len(h) - 1] = "CRLF" /\ h[Len(h)] = "CRLF"
           /\ \A i \in 1..(Len(h) - 2) : ~ (h[i] = "CRLF" /\ h[i + 1] = "CRLF")
<1> DEFINE n == Len(q.headers)
<1>1. /\ n \in Nat /\ Len(h) = 2 * n + 3
      /\ h[1] = q.line /\ h[2] = "CRLF" /\ h[Len(h)] = "CRLF"
      /\ \A j \in 1..n : h[2 * j + 1] = q.headers[j] /\ h[2 * j + 2] = "CRLF"
  BY HeadIs
<1>2. q.line # "CRLF" /\ \A j \in 1..n : q.headers[j] # "CRLF"
  <2>1. q.headers \in Seq(Lines) /\ q.line \in Lines
    BY DEF Request
  <2> QED
    BY <2>1, LenProperties DEF Lines
<1> HIDE DEF n
<1>3. ASSUME NEW j \in 0..n
      PROVE  h[2 * j + 1] # "CRLF"
  <2>1. j = 0 \/ j \in 1..n
    BY <1>1
  <2>2. j = 0 => 2 * j + 1 = 1
    OBVIOUS
  <2> QED
    BY <1>1, <1>2, <2>1, <2>2
<1>4. h[Len(h) - 1] = "CRLF"
  <2>1. CASE n = 0
    <3>1. Len(h) - 1 = 2
      BY <1>1, <2>1
    <3> QED
      BY <1>1, <3>1
  <2>2. CASE n # 0
    <3>1. n \in 1..n /\ Len(h) - 1 = 2 * n + 2
      BY <1>1, <2>2
    <3> QED
      BY <1>1, <3>1
  <2> QED
    BY <2>1, <2>2
<1>5. ASSUME NEW i \in 1..(Len(h) - 2)
      PROVE  ~ (h[i] = "CRLF" /\ h[i + 1] = "CRLF")
  <2>1. PICK j \in 0..n : i = 2 * j + 1 \/ i + 1 = 2 * j + 1
    <3>1. i \div 2 \in 0..n /\ (i = 2 * (i \div 2) + 1 \/ i + 1 = 2 * (i \div 2) + 1)
      BY <1>1
    <3> QED
      BY <3>1
  <2> QED
    BY <1>3, <2>1
<1> QED
  BY <1>1, <1>4, <1>5

\* Of a stream that begins with a head, the end is found when it has come, and is the head's.
LEMMA HeadFound ==
    ASSUME NEW q \in Request, NEW h, h = HeadOf(q), NEW b \in Seq(Tokens),
           \A i \in 1..Len(b) : i <= Len(h) => b[i] = h[i],
           NEW end, end = find_head_end(b)
    PROVE  IF Len(h) <= Len(b) THEN end = Len(h) ELSE end = 0
<1>0. Len(b) \in Nat
  BY LenProperties
<1>1. /\ Len(h) \in Nat /\ Len(h) >= 3 /\ h[Len(h) - 1] = "CRLF" /\ h[Len(h)] = "CRLF"
      /\ \A i \in 1..(Len(h) - 2) : ~ (h[i] = "CRLF" /\ h[i + 1] = "CRLF")
  BY BlankOnce
<1>2. \/ end = 0 /\ \A i \in 1..(Len(b) - 1) : ~ (b[i] = "CRLF" /\ b[i + 1] = "CRLF")
      \/ /\ end \in 2..Len(b) /\ b[end - 1] = "CRLF" /\ b[end] = "CRLF"
         /\ \A i \in 1..(end - 2) : ~ (b[i] = "CRLF" /\ b[i + 1] = "CRLF")
  BY HeadEnds
<1> DEFINE k == Len(h) - 1
<1>3. k \in Nat /\ k >= 2 /\ k + 1 = Len(h) /\ k = Len(h) - 1
  BY <1>1
<1> HIDE DEF k
<1>4. Len(h) <= Len(b) => /\ k \in 1..(Len(b) - 1) /\ b[k] = "CRLF" /\ b[k + 1] = "CRLF"
  <2> SUFFICES ASSUME Len(h) <= Len(b)
               PROVE  k \in 1..(Len(b) - 1) /\ b[k] = "CRLF" /\ b[k + 1] = "CRLF"
    OBVIOUS
  <2>1. k \in 1..(Len(b) - 1) /\ k \in 1..Len(b) /\ k + 1 \in 1..Len(b) /\ k <= Len(h) /\ k + 1 <= Len(h)
    BY <1>0, <1>3
  <2>2. b[k] = h[k] /\ b[k + 1] = h[k + 1]
    BY <2>1
  <2> QED
    BY <1>1, <1>3, <2>1, <2>2
<1>5. CASE end = 0
  BY <1>0, <1>1, <1>2, <1>4, <1>5
<1>6. CASE end # 0
  <2>1. /\ end \in 2..Len(b) /\ b[end - 1] = "CRLF" /\ b[end] = "CRLF"
        /\ \A i \in 1..(end - 2) : ~ (b[i] = "CRLF" /\ b[i + 1] = "CRLF")
    BY <1>2, <1>6
  <2>2. ~ (end < Len(h))
    <3> SUFFICES ASSUME end < Len(h)
                 PROVE  FALSE
      OBVIOUS
    <3> DEFINE i == end - 1
    <3>1. /\ i \in 1..(Len(h) - 2) /\ i \in 1..Len(b) /\ end \in 1..Len(b) /\ i <= Len(h) /\ end <= Len(h)
          /\ i + 1 = end
      BY <1>0, <1>1, <2>1
    <3> HIDE DEF i
    <3>2. h[i] = "CRLF" /\ h[i + 1] = "CRLF"
      <4>1. b[i] = "CRLF" /\ b[end] = "CRLF"
        BY <2>1 DEF i
      <4> QED
        BY <3>1, <4>1
    <3> QED
      BY <1>1, <3>1, <3>2
  <2>3. ~ (Len(h) < end)
    <3> SUFFICES ASSUME Len(h) < end
                 PROVE  FALSE
      OBVIOUS
    <3>1. Len(h) <= Len(b) /\ k \in 1..(end - 2)
      BY <1>0, <1>3, <2>1
    <3> QED
      BY <1>4, <2>1, <3>1
  <2> QED
    BY <1>0, <1>1, <2>1, <2>2, <2>3
<1> QED
  BY <1>5, <1>6

LEMMA MaxIsGreatest ==
    ASSUME NEW n \in Nat, NEW S, S \subseteq 1..n, S # {}
    PROVE  Max(S) \in S /\ \A m \in S : m <= Max(S)
<1> DEFINE T == {k \in 0..n : n - k \in S}
<1>1. T \subseteq Nat /\ T # {}
  <2>1. PICK s \in S : TRUE
    OBVIOUS
  <2>2. n - s \in 0..n /\ n - (n - s) = s
    BY <2>1
  <2>3. n - s \in T
    BY <2>1, <2>2
  <2>4. T \subseteq Nat
    OBVIOUS
  <2> HIDE DEF T
  <2> QED
    BY <2>3, <2>4
<1>2. PICK k \in T : \A m \in T : k <= m
  <2> HIDE DEF T
  <2> QED
    BY <1>1, Least
<1>3. n - k \in S /\ k \in 0..n
  BY <1>2
<1>4. ASSUME NEW m \in S
      PROVE  n - k >= m
  <2>1. m \in 1..n /\ n - m \in 0..n /\ n - (n - m) = m
    OBVIOUS
  <2>2. n - m \in T
    BY <1>4, <2>1
  <2>3. k <= n - m
    BY <1>2, <2>2
  <2> QED
    BY <1>3, <2>1, <2>3
<1>5. \E x \in S : \A y \in S : x >= y
  BY <1>3, <1>4
<1>6. Max(S) \in S /\ \A y \in S : Max(S) >= y
  BY <1>5 DEF Max
<1> QED
  BY <1>6

\* s is what is behind the line of a head with the headers l.
RestOf(s, l) ==
    /\ l \in Seq(Lines) /\ s \in Seq(Tokens) /\ Len(s) = 2 * Len(l) + 2
    /\ \A j \in 1..Len(l) : s[2 * j] = l[j]
    /\ \A j \in 0..Len(l) : s[2 * j + 1] = "CRLF"
    /\ s[2 * Len(l) + 2] = "CRLF"

LEMMA Halves ==
    ASSUME NEW n \in Nat, NEW i \in 1..(2 * n + 2)
    PROVE  \E j \in 0..(n + 1) : i = 2 * j \/ i = 2 * j + 1
<1>1. i \div 2 \in 0..(n + 1) /\ (i = 2 * (i \div 2) \/ i = 2 * (i \div 2) + 1)
  OBVIOUS
<1> QED
  BY <1>1

LEMMA Places ==
    ASSUME NEW n \in Nat, NEW i \in 1..(2 * n + 2)
    PROVE  i = 2 * n + 2 \/ (\E j \in 0..n : i = 2 * j + 1) \/ (\E j \in 1..n : i = 2 * j)
<1>1. PICK j \in 0..(n + 1) : i = 2 * j \/ i = 2 * j + 1
  BY Halves
<1>2. CASE j = n + 1
  BY <1>1, <1>2
<1>3. CASE j \in 0..n
  <2>1. j = 0 \/ j \in 1..n
    BY <1>3
  <2> QED
    BY <1>1, <1>3, <2>1
<1> QED
  BY <1>2, <1>3

\* The last length among the headers, and among their lines with the CRLFs between them.
LEMMA LengthFound ==
    ASSUME NEW s, NEW l, RestOf(s, l)
    PROVE  content_length(s) = content_length(l)
<1> DEFINE A == {i \in DOMAIN l : l[i] \in Lengths}
           C == {i \in DOMAIN s : s[i] \in Lengths}
           n == Len(l)
<1> HIDE DEF A, C
<1>a. /\ l \in Seq(Lines) /\ s \in Seq(Tokens) /\ Len(s) = 2 * n + 2
      /\ \A j \in 1..n : s[2 * j] = l[j]
      /\ \A j \in 0..n : s[2 * j + 1] = "CRLF"
      /\ s[2 * n + 2] = "CRLF"
  BY DEF RestOf
<1>0. n \in Nat /\ DOMAIN l = 1..n /\ DOMAIN s = 1..(2 * n + 2) /\ 2 * n + 2 \in Nat
  BY <1>a, LenProperties
<1> USE DEF A, C
<1>1. /\ content_length(l) = IF A = {} THEN 0 ELSE length(l[Max(A)])
      /\ content_length(s) = IF C = {} THEN 0 ELSE length(s[Max(C)])
  BY DEF content_length
<1>2. "CRLF" \notin Lengths
  BY DEF Lengths
<1>3. ASSUME NEW i \in C
      PROVE  \E j \in A : i = 2 * j
  <2>1. i \in 1..(2 * n + 2) /\ s[i] \in Lengths
    BY <1>0
  <2>2. PICK j \in 0..(n + 1) : i = 2 * j \/ i = 2 * j + 1
    <3>1. n \in Nat /\ i \in 1..(2 * n + 2)
      BY <1>0, <2>1
    <3> HIDE DEF n
    <3> QED
      BY <3>1, Halves
  <2>3. CASE i = 2 * j + 1
    <3>1. j \in 0..n
      BY <1>0, <2>1, <2>2, <2>3
    <3> QED
      BY <1>a, <1>2, <2>1, <2>3, <3>1
  <2>4. CASE i = 2 * j
    <3>1. j = n + 1 \/ j \in 1..n
      BY <1>0, <2>1, <2>2, <2>4
    <3>2. j # n + 1
      <4> SUFFICES ASSUME j = n + 1
                   PROVE  FALSE
        OBVIOUS
      <4>1. i = 2 * n + 2
        BY <1>0, <2>4
      <4> QED
        BY <1>a, <1>2, <2>1, <4>1
    <3>3. s[i] = l[j]
      BY <1>a, <2>4, <3>1, <3>2
    <3> QED
      BY <1>0, <2>1, <2>4, <3>1, <3>2, <3>3
  <2> QED
    BY <2>2, <2>3, <2>4
<1>4. ASSUME NEW j \in A
      PROVE  2 * j \in C /\ s[2 * j] = l[j]
  <2>1. j \in 1..n /\ 2 * j \in 1..(2 * n + 2)
    BY <1>0
  <2>2. s[2 * j] = l[j]
    BY <1>a, <2>1
  <2> QED
    BY <1>0, <2>1, <2>2
<1>5. A \subseteq 1..n /\ C \subseteq 1..(2 * n + 2)
  BY <1>0
<1> HIDE DEF A, C, n
<1>6. CASE A = {}
  BY <1>1, <1>3, <1>6
<1>7. CASE A # {}
  <2>1. Max(A) \in A /\ \A m \in A : m <= Max(A)
    BY <1>0, <1>5, <1>7, MaxIsGreatest
  <2>2. C # {}
    BY <1>4, <1>7
  <2>3. Max(C) \in C /\ \A m \in C : m <= Max(C)
    BY <1>0, <1>5, <2>2, MaxIsGreatest
  <2> DEFINE a == Max(A)
             c == Max(C)
  <2>4. a \in A /\ (\A m \in A : m <= a) /\ c \in C /\ \A m \in C : m <= c
    BY <2>1, <2>3
  <2>5. content_length(l) = length(l[a]) /\ content_length(s) = length(s[c])
    BY <1>1, <1>7, <2>2
  <2> HIDE DEF a, c
  <2>6. PICK j \in A : c = 2 * j
    BY <1>3, <2>4
  <2>7. j <= a /\ 2 * a <= c /\ j \in Nat /\ a \in Nat
    BY <1>4, <1>5, <2>4
  <2>8. j = a
    BY <2>6, <2>7
  <2> QED
    BY <1>4, <2>4, <2>5, <2>6, <2>8
<1> QED
  BY <1>6, <1>7

\* What is behind a head's line.
LEMMA RestIs ==
    ASSUME NEW q \in Request, NEW h, h = HeadOf(q), NEW s, s = SubSeq(h, 2, Len(h)),
           NEW l, l = q.headers
    PROVE  RestOf(s, l)
<1> DEFINE n == Len(l)
<1>1. /\ h \in Seq(Tokens) /\ n \in Nat /\ Len(h) = 2 * n + 3
      /\ h[1] = q.line /\ h[2] = "CRLF" /\ h[Len(h)] = "CRLF"
      /\ \A j \in 1..n : h[2 * j + 1] = l[j] /\ h[2 * j + 2] = "CRLF"
  BY HeadIs
<1>2. l \in Seq(Lines)
  BY DEF Request
<1> HIDE DEF n
<1>3. /\ s \in Seq(Tokens) /\ Len(s) = Len(h) - 2 + 1
      /\ \A i \in 1..(Len(h) - 2 + 1) : s[i] = h[2 + i - 1]
  BY <1>1, Part
<1>4. Len(s) = 2 * n + 2 /\ Len(h) = Len(s) + 1
  BY <1>1, <1>3
<1>5. ASSUME NEW i \in 1..Len(s)
      PROVE  s[i] = h[i + 1]
  <2>1. i \in 1..(Len(h) - 2 + 1) /\ 2 + i - 1 = i + 1
    BY <1>1, <1>3, <1>4
  <2> QED
    BY <1>3, <2>1
<1>6. ASSUME NEW j \in 1..n
      PROVE  s[2 * j] = l[j]
  <2>1. 2 * j \in 1..Len(s)
    BY <1>1, <1>4
  <2> QED
    BY <1>1, <1>5, <2>1
<1>7. ASSUME NEW j \in 0..n
      PROVE  s[2 * j + 1] = "CRLF"
  <2>1. 2 * j + 1 \in 1..Len(s) /\ 2 * j + 1 + 1 = 2 * j + 2
    BY <1>1, <1>4
  <2>2. s[2 * j + 1] = h[2 * j + 2]
    BY <1>5, <2>1
  <2>3. CASE j = 0
    BY <1>1, <2>2, <2>3
  <2>4. CASE j # 0
    <3>1. j \in 1..n
      BY <1>1, <2>4
    <3> QED
      BY <1>1, <2>2, <3>1
  <2> QED
    BY <2>3, <2>4
<1>8. s[2 * n + 2] = "CRLF"
  <2>1. 2 * n + 2 \in 1..Len(s) /\ 2 * n + 2 + 1 = Len(h)
    BY <1>1, <1>4
  <2> QED
    BY <1>1, <1>5, <2>1
<1> QED
  BY <1>2, <1>3, <1>4, <1>6, <1>7, <1>8 DEF n, RestOf

LEMMA RestHas ==
    ASSUME NEW s, NEW l, RestOf(s, l), NEW v, v # "CRLF"
    PROVE  v \in ToSet(s) <=> v \in ToSet(l)
<1> DEFINE n == Len(l)
<1>1. /\ l \in Seq(Lines) /\ s \in Seq(Tokens) /\ Len(s) = 2 * n + 2
      /\ \A j \in 1..n : s[2 * j] = l[j]
      /\ \A j \in 0..n : s[2 * j + 1] = "CRLF"
      /\ s[2 * n + 2] = "CRLF"
  BY DEF RestOf
<1>2. DOMAIN l = 1..n /\ DOMAIN s = 1..(2 * n + 2) /\ n \in Nat
  BY <1>1, LenProperties
<1> HIDE DEF n
<1>3. ASSUME NEW j \in 1..n
      PROVE  2 * j \in DOMAIN s /\ s[2 * j] = l[j]
  BY <1>1, <1>2
<1>4. ASSUME NEW i \in DOMAIN s, s[i] = v
      PROVE  \E j \in 1..n : l[j] = v
  <2>1. PICK j \in 0..(n + 1) : i = 2 * j \/ i = 2 * j + 1
    <3>1. i \in 1..(2 * n + 2)
      BY <1>2
    <3> QED
      BY <1>2, <3>1, Halves
  <2>2. CASE j = n + 1
    <3>1. i = 2 * n + 2
      BY <1>2, <2>1, <2>2
    <3> QED
      BY <1>1, <1>4, <3>1
  <2>3. CASE j # n + 1
    <3>1. j \in 0..n
      BY <1>2, <2>3
    <3>2. i = 2 * j
      BY <1>1, <1>4, <2>1, <3>1
    <3>3. j \in 1..n
      BY <1>2, <3>1, <3>2
    <3> QED
      BY <1>1, <1>4, <3>2, <3>3
  <2> QED
    BY <2>2, <2>3
<1>5. v \in ToSet(s) <=> \E i \in DOMAIN s : s[i] = v
  BY DEF ToSet
<1>6. v \in ToSet(l) <=> \E j \in 1..n : l[j] = v
  BY <1>2 DEF ToSet
<1> QED
  BY <1>3, <1>4, <1>5, <1>6

LEMMA FirstCrlf ==
    ASSUME NEW B, NEW x \in Seq(B), NEW n, n = first_crlf(x)
    PROVE  \/ n = 0 /\ \A i \in 1..Len(x) : x[i] # "CRLF"
           \/ n \in 1..Len(x) /\ x[n] = "CRLF" /\ \A i \in 1..(n - 1) : x[i] # "CRLF"
<1>1. n = SelectInSeq(x, LAMBDA b : b = "CRLF")
  BY DEF first_crlf
<1> QED
  BY <1>1, FirstPlace

LEMMA LineIs ==
    ASSUME NEW q \in Request, NEW h, h = HeadOf(q)
    PROVE  SubSeq(h, 1, first_crlf(h) - 1) = <<q.line>>
<1> DEFINE n == first_crlf(h)
           u == SubSeq(h, 1, 1)
           v == <<q.line>>
<1>1. h \in Seq(Tokens) /\ Len(h) \in Nat /\ Len(h) >= 3 /\ h[1] = q.line /\ h[2] = "CRLF"
  BY HeadIs, LenProperties
<1>2. q.line \in Tokens /\ q.line # "CRLF"
  BY DEF Request, Lines
<1>3. \/ n = 0 /\ \A i \in 1..Len(h) : h[i] # "CRLF"
      \/ n \in 1..Len(h) /\ h[n] = "CRLF" /\ \A i \in 1..(n - 1) : h[i] # "CRLF"
  <2>1. h \in Seq(Tokens)
    BY <1>1
  <2> QED
    BY <2>1, FirstCrlf
<1> HIDE DEF n
<1>4. 2 \in 1..Len(h)
  BY <1>1
<1>5. n \in 1..Len(h) /\ h[n] = "CRLF" /\ \A i \in 1..(n - 1) : h[i] # "CRLF"
  BY <1>1, <1>3, <1>4
<1>6. n # 1
  BY <1>1, <1>2, <1>5
<1>7. ~ (2 < n)
  <2> SUFFICES ASSUME 2 < n
               PROVE  FALSE
    OBVIOUS
  <2>1. 2 \in 1..(n - 1)
    BY <1>5
  <2> QED
    BY <1>1, <1>5, <2>1
<1>8. n - 1 = 1
  BY <1>5, <1>6, <1>7
<1>9. u \in Seq(Tokens) /\ Len(u) = 1 - 1 + 1 /\ \A i \in 1..(1 - 1 + 1) : u[i] = h[1 + i - 1]
  BY <1>1, Part
<1>10. v \in Seq(Tokens) /\ Len(v) = 1 /\ v[1] = q.line
  BY <1>2, Tuples
<1> HIDE DEF u, v
<1>11. Len(u) = 1 /\ u[1] = q.line
  <2>1. 1 \in 1..(1 - 1 + 1) /\ 1 + 1 - 1 = 1 /\ 1 - 1 + 1 = 1
    OBVIOUS
  <2> QED
    BY <1>1, <1>9, <2>1
<1>12. u = v
  <2>1. \A i \in 1..1 : i = 1
    OBVIOUS
  <2> QED
    BY <1>9, <1>10, <1>11, <2>1, SeqEqual
<1>13. SubSeq(h, 1, n - 1) = u
  BY <1>8 DEF u
<1> QED
  BY <1>12, <1>13 DEF n, v

LEMMA SameRest ==
    ASSUME NEW p \in Request, NEW q \in Request, p.headers = q.headers,
           NEW g, g = HeadOf(p), NEW h, h = HeadOf(q)
    PROVE  SubSeq(g, 2, Len(g)) = SubSeq(h, 2, Len(h))
<1> DEFINE s == SubSeq(h, 2, Len(h))
           t == SubSeq(g, 2, Len(g))
           l == q.headers
           n == Len(l)
<1> HIDE DEF s, t
<1>0. RestOf(s, l) /\ RestOf(t, l)
  <2>1. l = p.headers
    OBVIOUS
  <2>2. RestOf(s, l)
    BY RestIs DEF s
  <2>3. RestOf(t, p.headers)
    <3> HIDE DEF l
    <3> QED
      BY RestIs DEF t
  <2> QED
    BY <2>1, <2>2, <2>3
<1>1. /\ l \in Seq(Lines) /\ s \in Seq(Tokens) /\ Len(s) = 2 * n + 2
      /\ \A j \in 1..n : s[2 * j] = l[j]
      /\ \A j \in 0..n : s[2 * j + 1] = "CRLF"
      /\ s[2 * n + 2] = "CRLF"
  BY <1>0 DEF RestOf
<1>2. /\ t \in Seq(Tokens) /\ Len(t) = 2 * n + 2
      /\ \A j \in 1..n : t[2 * j] = l[j]
      /\ \A j \in 0..n : t[2 * j + 1] = "CRLF"
      /\ t[2 * n + 2] = "CRLF"
  BY <1>0 DEF RestOf
<1>3. n \in Nat
  BY <1>1, LenProperties
<1> HIDE DEF s, t, l, n
<1>4. ASSUME NEW i \in 1..Len(s)
      PROVE  s[i] = t[i]
  <2>1. i \in 1..(2 * n + 2)
    BY <1>1
  <2>2. i = 2 * n + 2 \/ (\E j \in 0..n : i = 2 * j + 1) \/ (\E j \in 1..n : i = 2 * j)
    BY <1>3, <2>1, Places
  <2> QED
    BY <1>1, <1>2, <2>2
<1>5. s = t
  BY <1>1, <1>2, <1>4, SeqEqual
<1> QED
  BY <1>5 DEF s, t

LEMMA AbsoluteIs ==
    ASSUME NEW q \in Request
    PROVE  /\ Absolute(q) \in Request /\ Absolute(q).headers = q.headers /\ Absolute(q).body = q.body
           /\ q.line = "absolute-form" => Absolute(q) = q
           /\ q.line = "origin-form" =>
                Absolute(q).line = IF "host" \in ToSet(q.headers) THEN "absolute, host"
                                   ELSE "absolute, dialed"
<1>1. {"absolute, host", "absolute, dialed"} \subseteq Tokens
  BY StreamAssumption
<1>2. {"absolute, host", "absolute, dialed"} \subseteq Lines
  BY <1>1 DEF Lines
<1> HIDE DEF Lines
<1> QED
  BY <1>2 DEF Absolute, Request, Forms

LEMMA AbsoluteHead ==
    ASSUME NEW q \in Request, q.line = "origin-form", NEW h, h = HeadOf(q),
           NEW s, s = SubSeq(h, 2, Len(h)), NEW p, p = Absolute(q)
    PROVE  HeadOf(p) = <<p.line>> \o s
<1>1. p \in Request /\ p.headers = q.headers
  BY AbsoluteIs DEF Forms
<1> DEFINE g == HeadOf(p)
<1>2. SubSeq(g, 2, Len(g)) = s
  BY <1>1, SameRest
<1>3. g \in Seq(Tokens) /\ g[1] = p.line /\ Len(g) = 2 * Len(p.headers) + 3 /\ Len(p.headers) \in Nat
  BY <1>1, HeadIs
<1> HIDE DEF g
<1>4. 1 \in 1..Len(g) /\ Len(g) \in 1..Len(g)
  BY <1>3
<1>5. SubSeq(g, 1, Len(g)) = <<g[1]>> \o SubSeq(g, 1 + 1, Len(g))
  BY <1>3, <1>4, SubSeqRecursiveFirst
<1>6. SubSeq(g, 1, Len(g)) = g
  BY <1>3, SubSeqFull
<1>7. g = <<p.line>> \o s
  <2>1. SubSeq(g, 1 + 1, Len(g)) = SubSeq(g, 2, Len(g))
    OBVIOUS
  <2> QED
    BY <1>2, <1>3, <1>5, <1>6, <2>1
<1> QED
  BY <1>7 DEF g

\* rewrite_head: a request's head goes out as it is to go out, with the length of the body.
LEMMA Rewritten ==
    ASSUME NEW q \in Request, NEW r, r = rewrite_head(HeadOf(q))
    PROVE  IF Frames(q) = "anomaly" THEN r.err \notin {"none", "HeadTooLarge"}
           ELSE r.err = "none" /\ r.out = HeadOf(Absolute(q)) /\ r.body_len = content_length(q.headers)
<1> DEFINE h == HeadOf(q)
           s == SubSeq(h, 2, Len(h))
           l == q.headers
           has == "host" \in ToSet(l)
           a == IF has THEN "absolute, host" ELSE "absolute, dialed"
           line == <<q.line>>
           o == IF line = <<"origin-form">>
                THEN <<IF "host" \in ToSet(s) THEN "absolute, host" ELSE "absolute, dialed">> \o s
                ELSE h
<1>1. RestOf(s, l)
  BY RestIs
<1>2. SubSeq(h, 1, first_crlf(h) - 1) = line
  BY LineIs
<1>3. Len(line) = 1 /\ ToSet(line) = {q.line}
  BY DEF ToSet
<1>4. ("host" \in ToSet(s) <=> has) /\ ("chunked" \in ToSet(s) <=> "chunked" \in ToSet(l))
  <2> HIDE DEF h, s, l
  <2>1. "host" \in ToSet(s) <=> "host" \in ToSet(l)
    BY <1>1, RestHas
  <2>2. "chunked" \in ToSet(s) <=> "chunked" \in ToSet(l)
    BY <1>1, RestHas
  <2> QED
    BY <2>1, <2>2
<1>5. content_length(s) = content_length(l)
  <2> HIDE DEF h, s, l
  <2> QED
    BY <1>1, LengthFound
<1> DEFINE line0 == SubSeq(h, 1, first_crlf(h) - 1)
<1>6. line0 = line /\ SubSeq(h, Len(line0) + 1, Len(h)) = s
  <2>1. line0 = line
    BY <1>2
  <2> HIDE DEF line0
  <2>2. Len(line0) + 1 = 2
    BY <1>3, <2>1
  <2> QED
    BY <2>1, <2>2
<1>7. r = CASE ~ (Len(line) = 1 /\ ToSet(line) \subseteq Forms) ->
                 [err |-> "BadRequestLine", body_len |-> 0, out |-> <<>>]
            [] (Len(line) = 1 /\ ToSet(line) \subseteq Forms) /\ "chunked" \in ToSet(s) ->
                 [err |-> "ChunkedBodyUnsupported", body_len |-> 0, out |-> <<>>]
            [] OTHER ->
                 [err |-> "none", body_len |-> content_length(s), out |-> o]
  <2>1. rewrite_head(h) =
            CASE ~ (Len(line0) = 1 /\ ToSet(line0) \subseteq Forms) ->
                 [err |-> "BadRequestLine", body_len |-> 0, out |-> <<>>]
            [] /\ Len(line0) = 1 /\ ToSet(line0) \subseteq Forms
               /\ "chunked" \in ToSet(SubSeq(h, Len(line0) + 1, Len(h))) ->
                 [err |-> "ChunkedBodyUnsupported", body_len |-> 0, out |-> <<>>]
            [] OTHER ->
                 [err |-> "none",
                  out |-> IF line0 = <<"origin-form">>
                          THEN <<IF "host" \in ToSet(SubSeq(h, Len(line0) + 1, Len(h)))
                                 THEN "absolute, host" ELSE "absolute, dialed">>
                                    \o SubSeq(h, Len(line0) + 1, Len(h))
                          ELSE h,
                  body_len |-> content_length(SubSeq(h, Len(line0) + 1, Len(h)))]
    <3> HIDE DEF h
    <3> QED
      BY DEF rewrite_head
  <2> HIDE DEF h, s, line0, line
  <2> QED
    BY <1>6, <2>1 DEF h
<1>8. line = <<"origin-form">> <=> q.line = "origin-form"
  OBVIOUS
<1>9. Frames(q) = "anomaly" <=> q.line \notin Forms \/ "chunked" \in ToSet(l)
  BY DEF Frames
<1>10. q.line = "origin-form" => o = HeadOf(Absolute(q))
  <2> SUFFICES ASSUME q.line = "origin-form"
               PROVE  o = HeadOf(Absolute(q))
    OBVIOUS
  <2>1. Absolute(q).line = a
    BY AbsoluteIs DEF Forms
  <2>2. HeadOf(Absolute(q)) = <<Absolute(q).line>> \o s
    BY AbsoluteHead
  <2>3. HeadOf(Absolute(q)) = <<a>> \o s
    BY <2>1, <2>2
  <2>4. a = IF "host" \in ToSet(s) THEN "absolute, host" ELSE "absolute, dialed"
    BY <1>4
  <2> HIDE DEF h, s, l, line, a, has
  <2> QED
    BY <1>8, <2>3, <2>4
<1>11. q.line = "absolute-form" => o = HeadOf(Absolute(q))
  <2> SUFFICES ASSUME q.line = "absolute-form"
               PROVE  o = HeadOf(Absolute(q))
    OBVIOUS
  <2>1. Absolute(q) = q
    BY AbsoluteIs DEF Forms
  <2>2. o = h
    <3> HIDE DEF h, s, l, line, a, has
    <3> QED
      BY <1>8
  <2> QED
    BY <2>1, <2>2
<1> DEFINE n == content_length(s)
<1>12. n = content_length(q.headers)
  BY <1>5
<1> HIDE DEF h, s, l, line, a, has, o, n, line0
<1>13. CASE Frames(q) = "anomaly"
  <2>1. CASE q.line \notin Forms
    <3>1. ~ (ToSet(line) \subseteq Forms)
      BY <1>3, <2>1
    <3>2. r = [err |-> "BadRequestLine", body_len |-> 0, out |-> <<>>]
      BY <1>7, <3>1
    <3> QED
      BY <1>13, <3>2
  <2>2. CASE q.line \in Forms
    <3>1. "chunked" \in ToSet(s) /\ ToSet(line) \subseteq Forms /\ Len(line) = 1
      BY <1>3, <1>4, <1>9, <1>13, <2>2
    <3>2. r = [err |-> "ChunkedBodyUnsupported", body_len |-> 0, out |-> <<>>]
      <4> DEFINE A == Len(line) = 1 /\ ToSet(line) \subseteq Forms
                 C == "chunked" \in ToSet(s)
                 x == [err |-> "BadRequestLine", body_len |-> 0, out |-> <<>>]
                 y == [err |-> "ChunkedBodyUnsupported", body_len |-> 0, out |-> <<>>]
                 z == [err |-> "none", body_len |-> n, out |-> o]
      <4>1. A /\ C
        BY <3>1
      <4>2. r = CASE ~ A -> x [] A /\ C -> y [] OTHER -> z
        BY <1>7 DEF n
      <4> HIDE DEF A, C, x, y, z
      <4>3. r = y
        BY <4>1, <4>2
      <4> QED
        BY <4>3 DEF y
    <3> QED
      BY <1>13, <3>2
  <2> QED
    BY <2>1, <2>2
<1>14. CASE Frames(q) # "anomaly"
  <2>1. q.line \in Forms /\ "chunked" \notin ToSet(s) /\ ToSet(line) \subseteq Forms /\ Len(line) = 1
    BY <1>3, <1>4, <1>9, <1>14
  <2>2. r = [err |-> "none", body_len |-> n, out |-> o]
    BY <1>7, <2>1 DEF n
  <2>3. o = HeadOf(Absolute(q))
    BY <1>10, <1>11, <2>1 DEF Forms
  <2> QED
    BY <1>12, <1>14, <2>2, <2>3
<1> QED
  BY <1>13, <1>14

-----------------------------------------------------------------------------
(* A turn of push *)

\* The stream that a and b make is also c and d: what of a is behind c.
Crosses(S, a, b, c, d, v) ==
    /\ v \in Seq(S) /\ Len(v) = Len(a) - Len(c) /\ SubSeq(a, 1, Len(c)) = c
    /\ a = c \o v /\ v \o b = d

LEMMA Crossing ==
    ASSUME NEW S, NEW a \in Seq(S), NEW b \in Seq(S), NEW c \in Seq(S), NEW d \in Seq(S),
           a \o b = c \o d, Len(c) <= Len(a), NEW v, v = SubSeq(a, Len(c) + 1, Len(a))
    PROVE  Crosses(S, a, b, c, d, v)
<1> DEFINE u == SubSeq(a, 1, Len(c))
<1>0. Len(a) \in Nat /\ Len(c) \in Nat /\ Len(b) \in Nat /\ Len(d) \in Nat
  BY LenProperties
<1>1. v \in Seq(S) /\ Len(v) = Len(a) - Len(c)
  BY <1>0, Part
<1>2. u \in Seq(S) /\ Len(u) = Len(c) /\ \A i \in 1..Len(c) : u[i] = a[i]
  <2>1. u \in Seq(S) /\ Len(u) = Len(c) - 1 + 1 /\ \A i \in 1..(Len(c) - 1 + 1) : u[i] = a[1 + i - 1]
    BY <1>0, Part
  <2>2. Len(c) - 1 + 1 = Len(c) /\ \A i \in 1..Len(c) : i \in 1..(Len(c) - 1 + 1) /\ 1 + i - 1 = i
    BY <1>0
  <2> HIDE DEF u
  <2> QED
    BY <2>1, <2>2
<1>3. ASSUME NEW i \in 1..Len(c)
      PROVE  a[i] = c[i]
  <2>1. i \in 1..Len(a)
    BY <1>0
  <2>2. Spliced(S, a, b, a \o b) /\ Spliced(S, c, d, c \o d)
    BY Concatenated
  <2>3. (a \o b)[i] = a[i]
    BY <2>1, <2>2 DEF Spliced
  <2>4. (c \o d)[i] = c[i]
    BY <2>2 DEF Spliced
  <2> QED
    BY <2>3, <2>4
<1>4. u = c
  <2> HIDE DEF u
  <2>1. \A i \in 1..Len(u) : u[i] = c[i]
    BY <1>2, <1>3
  <2> QED
    BY <1>2, <2>1, SeqEqual
<1>5. u \o v = a
  <2>1. 1 \in 1..(Len(a) + 1) /\ Len(c) \in (1 - 1)..Len(a) /\ Len(a) \in Len(c)..Len(a)
    BY <1>0
  <2>2. u \o v = SubSeq(a, 1, Len(a))
    BY <2>1, ConcatAdjacentSubSeq
  <2>3. SubSeq(a, 1, Len(a)) = a
    BY SubSeqFull
  <2> QED
    BY <2>2, <2>3
<1>6. a = c \o v
  BY <1>4, <1>5
<1>7. v \o b = d
  <2>1. Associates(c, v, b)
    BY <1>1, Associative
  <2>2. c \o (v \o b) = c \o d
    BY <1>6, <2>1 DEF Associates
  <2>3. v \o b \in Seq(S)
    BY <1>1, Concat
  <2> QED
    BY <2>2, <2>3, ConcatSimplifications
<1> QED
  BY <1>1, <1>4, <1>6, <1>7 DEF Crosses

LEMMA TwoExtremes ==
    ASSUME NEW a \in Int, NEW b \in Int
    PROVE  /\ Max({a, b}) = IF a >= b THEN a ELSE b
           /\ Min({a, b}) = IF a <= b THEN a ELSE b
<1>1. (\E x \in {a, b} : \A y \in {a, b} : x >= y) /\ (\E x \in {a, b} : \A y \in {a, b} : x =< y)
  OBVIOUS
<1>2. Max({a, b}) \in {a, b} /\ \A y \in {a, b} : Max({a, b}) >= y
  BY <1>1 DEF Max
<1>3. Min({a, b}) \in {a, b} /\ \A y \in {a, b} : Min({a, b}) =< y
  BY <1>1 DEF Min
<1> QED
  BY <1>2, <1>3

-----------------------------------------------------------------------------
(* Where the rewriter is *)

Sound(qs) ==
    /\ qs \in Seq(Request)
    /\ \A i \in DOMAIN qs :
          /\ Frames(qs[i]) # "junk"
          /\ Frames(qs[i]) # "anomaly" => Len(qs[i].body) = content_length(qs[i].headers)

Out(qs) == [i \in DOMAIN qs |-> Absolute(qs[i])]

\* What the first k requests send.
Sent(qs, k) == Stream(SubSeq(qs, 1, k))

\* The stream of qs, request by request.
Parted(qs) ==
    /\ Sent(qs, 0) = <<>> /\ Sent(qs, Len(qs)) = Stream(qs)
    /\ \A k \in 0..Len(qs) : Sent(qs, k) \in Seq(Tokens)
    /\ \A k \in 1..Len(qs) : Sent(qs, k) = Sent(qs, k - 1) \o Bytes(qs[k])

LEMMA BytesAre ==
    ASSUME NEW q \in Request
    PROVE  /\ Bytes(q) \in Seq(Tokens) /\ HeadOf(q) \in Seq(Tokens) /\ q.body \in Seq(Tokens)
           /\ Bytes(q) = HeadOf(q) \o q.body
<1>1. HeadOf(q) \in Seq(Tokens)
  BY HeadIs
<1>2. q.body \in Seq(Tokens)
  BY DEF Request
<1>3. Bytes(q) = HeadOf(q) \o q.body
  BY DEF Bytes, HeadOf
<1> QED
  BY <1>1, <1>2, <1>3, Concat

LEMMA Parts ==
    ASSUME NEW qs \in Seq(Request)
    PROVE  Parted(qs)
<1> DEFINE B(k) == [i \in DOMAIN SubSeq(qs, 1, k) |-> Bytes(SubSeq(qs, 1, k)[i])]
           n == Len(qs)
<1>0. n \in Nat /\ DOMAIN qs = 1..n
  BY LenProperties
<1>1. ASSUME NEW k \in 0..n
      PROVE  /\ B(k) = [i \in 1..k |-> Bytes(qs[i])]
             /\ B(k) \in Seq(Seq(Tokens)) /\ Len(B(k)) = k
  <2> DEFINE s == SubSeq(qs, 1, k)
  <2>1. s \in Seq(Request) /\ Len(s) = k - 1 + 1 /\ \A i \in 1..(k - 1 + 1) : s[i] = qs[1 + i - 1]
    BY <1>0, Part
  <2>2. k - 1 + 1 = k /\ \A i \in 1..k : i \in 1..(k - 1 + 1) /\ 1 + i - 1 = i
    BY <1>0
  <2> HIDE DEF s
  <2>3. DOMAIN s = 1..k /\ \A i \in 1..k : s[i] = qs[i] /\ s[i] \in Request
    BY <2>1, <2>2, LenProperties
  <2>4. [i \in DOMAIN s |-> Bytes(s[i])] = [i \in 1..k |-> Bytes(qs[i])]
    BY <2>3
  <2>5. \A i \in 1..k : Bytes(qs[i]) \in Seq(Tokens)
    BY <2>3, BytesAre
  <2>6. [i \in 1..k |-> Bytes(qs[i])] \in Seq(Seq(Tokens)) /\ Len([i \in 1..k |-> Bytes(qs[i])]) = k
    <3> DEFINE f == [i \in 1..k |-> Bytes(qs[i])]
    <3>1. f \in [1..k -> Seq(Tokens)] /\ k \in Nat
      BY <1>0, <2>5
    <3> HIDE DEF f
    <3>2. f \in Seq(Seq(Tokens)) /\ Len(f) = k
      BY <3>1
    <3> QED
      BY <3>2 DEF f
  <2> QED
    BY <2>4, <2>6 DEF s
<1>2. \A k \in 0..n : Sent(qs, k) = FlattenSeq(B(k))
  BY DEF Sent, Stream
<1> HIDE DEF B
<1>3. Sent(qs, n) = Stream(qs)
  BY SubSeqFull DEF Sent
<1>4. Sent(qs, 0) = <<>>
  <2>1. B(0) \in Seq(Seq(Tokens)) /\ Len(B(0)) = 0 /\ Sent(qs, 0) = FlattenSeq(B(0))
    BY <1>0, <1>1, <1>2
  <2>2. B(0) = <<>>
    BY <2>1, EmptySeq
  <2> QED
    BY <2>1, <2>2 DEF FlattenSeq
<1>5. ASSUME NEW k \in 1..n
      PROVE  Sent(qs, k - 1) \in Seq(Tokens) /\ Sent(qs, k) = Sent(qs, k - 1) \o Bytes(qs[k])
  <2>1. k \in 0..n /\ k - 1 \in 0..n /\ k = k - 1 + 1 /\ \A i \in 1..(k - 1) : i \in 1..k
    BY <1>0
  <2> DEFINE t == B(k - 1)
             u == B(k)
  <2>2. /\ t \in Seq(Seq(Tokens)) /\ Len(t) = k - 1 /\ t = [i \in 1..(k - 1) |-> Bytes(qs[i])]
        /\ u \in Seq(Seq(Tokens)) /\ Len(u) = k /\ u = [i \in 1..k |-> Bytes(qs[i])]
        /\ Sent(qs, k) = FlattenSeq(u) /\ Sent(qs, k - 1) = FlattenSeq(t)
    BY <1>1, <1>2, <2>1
  <2> HIDE DEF t, u
  <2>3. \A i \in 1..Len(t) : u[i] = t[i]
    BY <2>1, <2>2
  <2>4. FlattenSeq(t) \in Seq(Tokens) /\ FlattenSeq(u) = FlattenSeq(t) \o u[Len(u)]
    <3>1. t \in Seq(Seq(Tokens)) /\ u \in Seq(Seq(Tokens)) /\ Len(u) = Len(t) + 1
      BY <2>1, <2>2
    <3> QED
      BY <2>3, <3>1, FlattenGrows
  <2>5. u[Len(u)] = Bytes(qs[k])
    BY <2>2
  <2> QED
    BY <2>2, <2>4, <2>5
<1>6. ASSUME NEW k \in 0..n
      PROVE  Sent(qs, k) \in Seq(Tokens)
  <2>1. CASE k = 0
    BY <1>4, <2>1, EmptySeq
  <2>2. CASE k # 0
    <3>1. k \in 1..n
      BY <1>0, <2>2
    <3>2. Sent(qs, k - 1) \in Seq(Tokens) /\ Sent(qs, k) = Sent(qs, k - 1) \o Bytes(qs[k])
      BY <1>5, <3>1
    <3>3. Bytes(qs[k]) \in Seq(Tokens)
      BY <1>0, <3>1, LenProperties, BytesAre
    <3> QED
      BY <3>2, <3>3, Concat
  <2> QED
    BY <2>1, <2>2
<1> QED
  BY <1>3, <1>4, <1>5, <1>6 DEF Parted

\* What k requests send begins what more of them do.
LEMMA SentGrows ==
    ASSUME NEW qs \in Seq(Request), NEW j \in 0..Len(qs), NEW m \in j..Len(qs)
    PROVE  \E z \in Seq(Tokens) : Sent(qs, m) = Sent(qs, j) \o z
<1> DEFINE n == Len(qs)
           Bad == {k \in j..n : ~ \E z \in Seq(Tokens) : Sent(qs, k) = Sent(qs, j) \o z}
<1>0. n \in Nat /\ DOMAIN qs = 1..n
  BY LenProperties
<1>1. Parted(qs)
  BY Parts
<1>2. SUFFICES ASSUME Bad # {}
               PROVE  FALSE
  OBVIOUS
<1>3. PICK k \in Bad : \A i \in Bad : k <= i
  <2>1. Bad \subseteq Nat
    BY <1>0
  <2> HIDE DEF Bad
  <2> QED
    BY <1>2, <2>1, Least
<1>4. k \in j..n /\ ~ \E z \in Seq(Tokens) : Sent(qs, k) = Sent(qs, j) \o z
  BY <1>3
<1>5. Sent(qs, j) \in Seq(Tokens)
  BY <1>1 DEF Parted
<1>6. k # j
  <2>1. Sent(qs, j) = Sent(qs, j) \o <<>> /\ <<>> \in Seq(Tokens)
    BY <1>5, Concat
  <2> QED
    BY <1>4, <2>1
<1>7. k - 1 \in j..n /\ k \in 1..n /\ ~ (k <= k - 1)
  BY <1>0, <1>4, <1>6
<1>8. PICK z \in Seq(Tokens) : Sent(qs, k - 1) = Sent(qs, j) \o z
  BY <1>3, <1>7
<1> HIDE DEF n, Bad
<1>9. Sent(qs, k) = Sent(qs, k - 1) \o Bytes(qs[k])
  BY <1>1, <1>7 DEF Parted, n
<1>10. Bytes(qs[k]) \in Seq(Tokens)
  <2>1. qs[k] \in Request
    BY <1>7, LenProperties DEF n
  <2> QED
    BY <2>1, BytesAre
<1>11. Sent(qs, k) = Sent(qs, j) \o (z \o Bytes(qs[k]))
  <2>1. Associates(Sent(qs, j), z, Bytes(qs[k]))
    BY <1>5, <1>10, Associative
  <2> QED
    BY <1>8, <1>9, <2>1 DEF Associates
<1>12. z \o Bytes(qs[k]) \in Seq(Tokens)
  BY <1>10, Concat
<1> QED
  BY <1>4, <1>11, <1>12

\* Of a stream of which k requests are through, something is left: the next request's head,
\* its body and what is behind it.
LEMMA NextHead ==
    ASSUME NEW qs \in Seq(Request), NEW k \in 0..Len(qs), NEW R \in Seq(Tokens),
           Sent(qs, k) \o R = Stream(qs), R # <<>>
    PROVE  /\ k + 1 \in 1..Len(qs)
           /\ \E z \in Seq(Tokens) : /\ R = HeadOf(qs[k + 1]) \o (qs[k + 1].body \o z)
                                    /\ Sent(qs, k + 1) \o z = Stream(qs)
<1> DEFINE n == Len(qs)
<1>0. n \in Nat /\ DOMAIN qs = 1..n
  BY LenProperties
<1>1. Parted(qs)
  BY Parts
<1>2. Sent(qs, k) \in Seq(Tokens)
  BY <1>1 DEF Parted
<1>3. k # n
  <2> SUFFICES ASSUME k = n
               PROVE  FALSE
    OBVIOUS
  <2>1. Sent(qs, k) \o R = Sent(qs, k)
    BY <1>1 DEF Parted
  <2> QED
    BY <1>2, <2>1, ConcatSimplifications
<1>4. k + 1 \in 1..n /\ k + 1 \in 0..n /\ n \in (k + 1)..n /\ k + 1 - 1 = k
  <2>1. k \in 0..n
    OBVIOUS
  <2> HIDE DEF n
  <2> QED
    BY <1>0, <1>3, <2>1
<1>5. PICK z \in Seq(Tokens) : Sent(qs, n) = Sent(qs, k + 1) \o z
  BY <1>4, SentGrows
<1> DEFINE q == qs[k + 1]
<1>6. q \in Request
  BY <1>4, LenProperties
<1>7. /\ Bytes(q) \in Seq(Tokens) /\ HeadOf(q) \in Seq(Tokens) /\ q.body \in Seq(Tokens)
      /\ Bytes(q) = HeadOf(q) \o q.body
  BY <1>6, BytesAre
<1>8. Sent(qs, k + 1) = Sent(qs, k) \o Bytes(q)
  <2>1. Sent(qs, k + 1) = Sent(qs, k + 1 - 1) \o Bytes(qs[k + 1])
    BY <1>1, <1>4 DEF Parted
  <2> QED
    BY <1>4, <2>1
<1>9. Sent(qs, k + 1) \o z = Stream(qs)
  BY <1>1, <1>5 DEF Parted
<1> HIDE DEF n, q
<1>10. Sent(qs, k) \o R = Sent(qs, k) \o (Bytes(q) \o z)
  <2>1. Associates(Sent(qs, k), Bytes(q), z)
    BY <1>2, <1>7, Associative
  <2> QED
    BY <1>8, <1>9, <2>1 DEF Associates
<1>11. R = Bytes(q) \o z
  <2>1. Bytes(q) \o z \in Seq(Tokens)
    BY <1>7, Concat
  <2> QED
    BY <1>2, <1>10, <2>1, ConcatSimplifications
<1>12. R = HeadOf(q) \o (q.body \o z)
  <2>1. Associates(HeadOf(q), q.body, z)
    BY <1>7, Associative
  <2> QED
    BY <1>7, <1>11, <2>1 DEF Associates
<1> QED
  BY <1>4, <1>9, <1>12 DEF n, q

Rewriter == [remaining : Nat, head : Seq(Tokens)]

\* The rewriter st, which gave u so far and before which rest lies, is behind the head of
\* request k, with w of its body still to pass and R to come behind it.
Place(qs, st, u, rest, k, w, R) ==
    /\ st \in Rewriter /\ u \in Seq(Tokens) /\ rest \in Seq(Tokens)
    /\ k \in 0..Len(qs) /\ w \in Seq(Tokens) /\ R \in Seq(Tokens)
    /\ \A i \in 1..k : Frames(qs[i]) # "anomaly"
    /\ Len(w) = st.remaining
    /\ st.remaining > 0 => st.head = <<>>
    /\ find_head_end(st.head) = 0
    /\ st.head \o rest = w \o R
    /\ Sent(qs, k) \o R = Stream(qs)
    /\ u \o w = Sent(Out(qs), k)

\* What a turn t on the input x, with y behind it, may be.
Turned(qs, u, x, y, t) ==
    /\ t.err = "none" =>
          /\ t.input \in Seq(Tokens) /\ t.out \in Seq(Tokens) /\ Len(t.input) < Len(x)
          /\ \E k, w, R : Place(qs, t.st, u \o t.out, t.input \o y, k, w, R)
    /\ t.err # "none" => \E i \in DOMAIN qs : Frames(qs[i]) \in {"anomaly", "large"}

LEMMA EmptyHead == find_head_end(<<>>) = 0
<1> DEFINE b == <<>>
           end == find_head_end(b)
<1>1. b \in Seq(Tokens) /\ Len(b) = 0
  BY EmptySeq
<1> HIDE DEF b, end
<1>2. end = 0 \/ end \in 2..Len(b)
  BY <1>1, HeadEnds DEF end
<1> QED
  BY <1>1, <1>2 DEF b, end

\* In a body.
LEMMA BodyTurn ==
    ASSUME NEW qs, Sound(qs), NEW st, NEW u, NEW x \in Seq(Tokens), NEW y \in Seq(Tokens),
           NEW k, NEW w, NEW R, Place(qs, st, u, x \o y, k, w, R), x # <<>>, st.remaining > 0,
           NEW t, t = turn(st, x)
    PROVE  Turned(qs, u, x, y, t)
<1> DEFINE n == st.remaining
           take == Min({n, Len(x)})
           g == [st EXCEPT !.remaining = @ - take]
<1>1. /\ st \in Rewriter /\ u \in Seq(Tokens) /\ k \in 0..Len(qs) /\ w \in Seq(Tokens) /\ R \in Seq(Tokens)
      /\ \A i \in 1..k : Frames(qs[i]) # "anomaly"
      /\ Len(w) = n /\ st.head = <<>> /\ st.head \o (x \o y) = w \o R
      /\ Sent(qs, k) \o R = Stream(qs) /\ u \o w = Sent(Out(qs), k)
  BY DEF Place
<1>2. n \in Nat /\ Len(x) \in Nat /\ Len(x) > 0 /\ n > 0
  BY <1>1, LenProperties, EmptySeq DEF Rewriter
<1>3. x \o y = w \o R
  <2>1. x \o y \in Seq(Tokens)
    BY Concat
  <2> QED
    BY <1>1, <2>1, Concat
<1>4. /\ t.st = g /\ t.err = "none"
      /\ t.input = SubSeq(x, take + 1, Len(x)) /\ t.out = SubSeq(x, 1, take)
  <2> DEFINE T == [st |-> g, err |-> "none",
                   input |-> SubSeq(x, take + 1, Len(x)), out |-> SubSeq(x, 1, take)]
             U(s) == CASE st.remaining > 0 -> T
                       [] st.remaining = 0 /\ find_head_end(st.head \o x) > 0 -> s[1]
                       [] st.remaining = 0 /\ find_head_end(st.head \o x) = 0 -> s[2]
  <2>1. \E s : t = U(s)
    <3> DEFINE buf == st.head \o x
               end == find_head_end(buf)
               r == rewrite_head(SubSeq(buf, 1, end))
               consumed == Min({Max({end - Len(st.head), 0}), Len(x)})
               V == [st |-> next_state(st, r.body_len), err |-> r.err,
                     input |-> SubSeq(x, consumed + 1, Len(x)), out |-> r.out]
               W == [st |-> [st EXCEPT !.head = buf], input |-> <<>>, out |-> <<>>,
                     err |-> IF Len(buf) > MAX_HEAD THEN "HeadTooLarge" ELSE "none"]
    <3>1. t = CASE st.remaining > 0 -> T
                [] st.remaining = 0 /\ end > 0 -> V
                [] st.remaining = 0 /\ end = 0 -> W
      BY DEF turn
    <3> HIDE DEF T, V, W
    <3>2. <<V, W>>[1] = V /\ <<V, W>>[2] = W
      OBVIOUS
    <3>3. t = U(<<V, W>>)
      BY <3>1, <3>2
    <3> QED
      BY <3>3
  <2> HIDE DEF T
  <2>2. t = T
    BY <1>2, <2>1
  <2>3. t = [st |-> g, err |-> "none",
             input |-> SubSeq(x, take + 1, Len(x)), out |-> SubSeq(x, 1, take)]
    BY <2>2 DEF T
  <2> DEFINE i == SubSeq(x, take + 1, Len(x))
             o == SubSeq(x, 1, take)
  <2>4. t = [st |-> g, err |-> "none", input |-> i, out |-> o]
    BY <2>3
  <2> HIDE DEF g, i, o
  <2>5. t.st = g /\ t.err = "none" /\ t.input = i /\ t.out = o
    BY <2>4
  <2> QED
    BY <2>5 DEF i, o
<1>5. take = IF n <= Len(x) THEN n ELSE Len(x)
  <2>1. n \in Int /\ Len(x) \in Int
    BY <1>2
  <2> HIDE DEF n
  <2>2. Min({n, Len(x)}) = IF n <= Len(x) THEN n ELSE Len(x)
    BY <2>1, TwoExtremes
  <2> QED
    BY <2>2
<1> HIDE DEF take
<1>6. g \in Rewriter /\ g.remaining = n - take /\ g.head = <<>>
  <2>1. n - take \in Nat
    BY <1>2, <1>5
  <2> QED
    BY <1>1, <2>1 DEF Rewriter
<1> HIDE DEF g, n
<1>7. CASE n <= Len(x)
  <2>1. take = Len(w)
    BY <1>1, <1>5, <1>7
  <2> DEFINE v == SubSeq(x, Len(w) + 1, Len(x))
  <2>2. Crosses(Tokens, x, y, w, R, v)
    <3> HIDE DEF v
    <3>1. Len(w) <= Len(x)
      BY <1>1, <1>7
    <3> QED
      BY <1>1, <1>3, <3>1, Crossing DEF v
  <2>3. t.input = v /\ t.out = w
    BY <1>4, <2>1, <2>2 DEF Crosses
  <2> HIDE DEF v
  <2>4. v \in Seq(Tokens) /\ Len(v) = Len(x) - n /\ v \o y = R
    BY <1>1, <2>2 DEF Crosses
  <2>5. Len(v) < Len(x)
    BY <1>2, <2>4
  <2>6. Place(qs, g, u \o w, v \o y, k, <<>>, R)
    <3>1. g.remaining = 0
      BY <1>1, <1>2, <1>6, <2>1
    <3>2. u \o w \in Seq(Tokens) /\ (u \o w) \o <<>> = u \o w /\ <<>> \in Seq(Tokens) /\ <<>> \o R = R
      BY <1>1, Concat
    <3>3. Len(<<>>) = 0
      BY EmptySeq
    <3> QED
      BY <1>1, <1>6, <2>4, <3>1, <3>2, <3>3, EmptyHead DEF Place
  <2> QED
    BY <1>1, <1>4, <2>3, <2>4, <2>5, <2>6 DEF Turned
<1>8. CASE ~ (n <= Len(x))
  <2>1. take = Len(x)
    BY <1>2, <1>5, <1>8
  <2> DEFINE v == SubSeq(w, Len(x) + 1, Len(w))
  <2>2. Crosses(Tokens, w, R, x, y, v)
    <3> HIDE DEF v
    <3>1. Len(x) <= Len(w)
      BY <1>1, <1>2, <1>8
    <3>2. w \o R = x \o y
      BY <1>3
    <3> QED
      BY <1>1, <3>1, <3>2, Crossing DEF v
  <2> HIDE DEF v
  <2>3. v \in Seq(Tokens) /\ Len(v) = n - take /\ w = x \o v /\ v \o R = y
    BY <1>1, <2>1, <2>2 DEF Crosses
  <2>4. t.out = x /\ t.input = <<>>
    <3>1. SubSeq(x, 1, Len(x)) = x
      BY SubSeqFull
    <3>2. SubSeq(x, Len(x) + 1, Len(x)) = <<>>
      BY <1>2, SubSeqEmpty
    <3> QED
      BY <1>4, <2>1, <3>1, <3>2
  <2>5. Place(qs, g, u \o x, <<>> \o y, k, v, R)
    <3>1. u \o x \in Seq(Tokens) /\ <<>> \o y = y /\ <<>> \in Seq(Tokens)
      BY <1>1, Concat
    <3>2. (u \o x) \o v = u \o w
      <4>1. Associates(u, x, v)
        BY <1>1, <2>3, Associative
      <4> QED
        BY <2>3, <4>1 DEF Associates
    <3> QED
      BY <1>1, <1>6, <2>3, <3>1, <3>2, EmptyHead DEF Place
  <2>6. <<>> \in Seq(Tokens) /\ Len(<<>>) = 0
    BY EmptySeq
  <2> QED
    BY <1>2, <1>4, <2>4, <2>5, <2>6 DEF Turned
<1> QED
  BY <1>7, <1>8

\* In a head: what turn makes of it, by whether the head is whole.
Complete(st, x, r, consumed) ==
    [st |-> next_state(st, r.body_len), err |-> r.err,
     input |-> SubSeq(x, consumed + 1, Len(x)), out |-> r.out]
Held(st, buf) ==
    [st |-> [st EXCEPT !.head = buf], input |-> <<>>, out |-> <<>>,
     err |-> IF Len(buf) > MAX_HEAD THEN "HeadTooLarge" ELSE "none"]

Consumed(st, x, end) == Min({Max({end - Len(st.head), 0}), Len(x)})

LEMMA TurnIs ==
    ASSUME NEW st, NEW x, st.remaining = 0,
           NEW buf, buf = st.head \o x, NEW end \in Nat, end = find_head_end(buf)
    PROVE  turn(st, x) = IF end > 0
                         THEN Complete(st, x, rewrite_head(SubSeq(buf, 1, end)), Consumed(st, x, end))
                         ELSE Held(st, buf)
<1> DEFINE t == turn(st, x)
           W == Complete(st, x, rewrite_head(SubSeq(buf, 1, end)), Consumed(st, x, end))
           H == Held(st, buf)
           take == Min({st.remaining, Len(x)})
           T == [st |-> [st EXCEPT !.remaining = @ - take], err |-> "none",
                 input |-> SubSeq(x, take + 1, Len(x)), out |-> SubSeq(x, 1, take)]
<1>1. t = CASE st.remaining > 0 -> T
            [] st.remaining = 0 /\ end > 0 -> W
            [] st.remaining = 0 /\ end = 0 -> H
  BY DEF turn, Complete, Held, Consumed
<1> HIDE DEF W, H, T, t
<1>2. t = IF end > 0 THEN W ELSE H
  BY <1>1
<1> QED
  BY <1>2 DEF W, H, t

LEMMA WholeIs ==
    ASSUME NEW st, NEW x, NEW r, NEW c, NEW t, t = Complete(st, x, r, c)
    PROVE  /\ t.st = next_state(st, r.body_len) /\ t.err = r.err
           /\ t.input = SubSeq(x, c + 1, Len(x)) /\ t.out = r.out
<1> DEFINE s == next_state(st, r.body_len)
           e == r.err
           i == SubSeq(x, c + 1, Len(x))
           o == r.out
<1>1. t = [st |-> s, err |-> e, input |-> i, out |-> o]
  BY DEF Complete
<1> HIDE DEF s, e, i, o
<1>2. t.st = s /\ t.err = e /\ t.input = i /\ t.out = o
  BY <1>1
<1> QED
  BY <1>2 DEF s, e, i, o

LEMMA HeldIs ==
    ASSUME NEW st, NEW buf, NEW t, t = Held(st, buf)
    PROVE  /\ t.st = [st EXCEPT !.head = buf] /\ t.input = <<>> /\ t.out = <<>>
           /\ t.err = IF Len(buf) > MAX_HEAD THEN "HeadTooLarge" ELSE "none"
<1> DEFINE s == [st EXCEPT !.head = buf]
           e == IF Len(buf) > MAX_HEAD THEN "HeadTooLarge" ELSE "none"
<1>1. t = [st |-> s, input |-> <<>>, out |-> <<>>, err |-> e]
  BY DEF Held
<1> HIDE DEF s, e
<1>2. t.st = s /\ t.err = e /\ t.input = <<>> /\ t.out = <<>>
  BY <1>1
<1> QED
  BY <1>2 DEF s, e

\* What is behind a place of a \o x beyond a is behind a place of x.
LEMMA EndOf ==
    ASSUME NEW S, NEW a \in Seq(S), NEW x \in Seq(S), NEW b, b = a \o x,
           NEW m \in Len(a)..Len(b)
    PROVE  SubSeq(b, m + 1, Len(b)) = SubSeq(x, m - Len(a) + 1, Len(x))
<1>1. Spliced(S, a, x, b)
  BY Concatenated
<1>2. /\ b \in Seq(S) /\ Len(a) \in Nat /\ Len(x) \in Nat /\ Len(b) = Len(a) + Len(x)
      /\ \A i \in 1..Len(x) : b[Len(a) + i] = x[i]
  BY <1>1 DEF Spliced
<1> DEFINE u == SubSeq(b, m + 1, Len(b))
           d == m - Len(a)
           v == SubSeq(x, d + 1, Len(x))
           l == Len(b) - m
<1>3. /\ m \in Nat /\ d \in Nat /\ d <= Len(x) /\ l \in Nat /\ m + 1 \in Nat /\ d + 1 \in Nat
      /\ Len(b) - (m + 1) + 1 = l /\ Len(x) - (d + 1) + 1 = l
      /\ m <= Len(b) /\ 1 <= m + 1 /\ 1 <= d + 1 /\ m + 1 <= Len(b) + 1 /\ d + 1 <= Len(x) + 1
      /\ Len(b) \in Nat
  BY <1>2
<1>4. u \in Seq(S) /\ Len(u) = l /\ \A i \in 1..l : u[i] = b[m + 1 + i - 1]
  <2>1. /\ u \in Seq(S) /\ Len(u) = Len(b) - (m + 1) + 1
        /\ \A i \in 1..(Len(b) - (m + 1) + 1) : u[i] = b[m + 1 + i - 1]
    BY <1>2, <1>3, Part
  <2> HIDE DEF u, l
  <2> QED
    BY <1>3, <2>1
<1>5. v \in Seq(S) /\ Len(v) = l /\ \A i \in 1..l : v[i] = x[d + 1 + i - 1]
  <2>1. /\ v \in Seq(S) /\ Len(v) = Len(x) - (d + 1) + 1
        /\ \A i \in 1..(Len(x) - (d + 1) + 1) : v[i] = x[d + 1 + i - 1]
    <3>1. d + 1 \in Nat /\ Len(x) \in Nat /\ 1 <= d + 1 /\ d + 1 <= Len(x) + 1 /\ Len(x) <= Len(x)
      BY <1>2, <1>3
    <3> HIDE DEF d
    <3> QED
      BY <3>1, Part
  <2> HIDE DEF v, l, d
  <2> QED
    BY <1>3, <2>1
<1>6. ASSUME NEW i \in 1..l
      PROVE  u[i] = v[i]
  <2>1. d + i \in 1..Len(x) /\ Len(a) + (d + i) = m + 1 + i - 1 /\ d + 1 + i - 1 = d + i
    BY <1>2, <1>3
  <2> HIDE DEF u, v, l, d
  <2>2. b[Len(a) + (d + i)] = x[d + i]
    BY <1>2, <2>1
  <2> QED
    BY <1>4, <1>5, <2>1, <2>2
<1> HIDE DEF u, v, l, d
<1> QED
  BY <1>4, <1>5, <1>6, SeqEqual DEF u, v, d

\* Where it is in a head: q is the request, of which st.head is there already, and what the
\* chunk and the bytes behind it are.
Heading(st, x, y, q, rest, buf) ==
    /\ st \in Rewriter /\ q \in Request /\ rest \in Seq(Tokens)
    /\ buf \in Seq(Tokens) /\ buf = st.head \o x
    /\ Len(st.head) \in Nat /\ Len(x) \in Nat /\ Len(HeadOf(q)) \in Nat
    /\ Len(buf) = Len(st.head) + Len(x) /\ Len(st.head) < Len(HeadOf(q))
    /\ buf \o y = HeadOf(q) \o rest
    /\ find_head_end(buf) = IF Len(HeadOf(q)) <= Len(buf) THEN Len(HeadOf(q)) ELSE 0

LEMMA Agree ==
    ASSUME NEW S, NEW a \in Seq(S), NEW b \in Seq(S), NEW c \in Seq(S), NEW d \in Seq(S),
           a \o b = c \o d
    PROVE  \A i \in 1..Len(a) : i <= Len(c) => a[i] = c[i]
<1>1. Spliced(S, a, b, a \o b) /\ Spliced(S, c, d, c \o d)
  BY Concatenated
<1> QED
  BY <1>1 DEF Spliced

LEMMA InHead ==
    ASSUME NEW st \in Rewriter, find_head_end(st.head) = 0,
           NEW x \in Seq(Tokens), NEW y \in Seq(Tokens),
           NEW q \in Request, NEW rest \in Seq(Tokens), NEW buf, buf = st.head \o x,
           st.head \o (x \o y) = HeadOf(q) \o rest
    PROVE  Heading(st, x, y, q, rest, buf)
<1> DEFINE a == st.head
           h == HeadOf(q)
<1>1. a \in Seq(Tokens) /\ h \in Seq(Tokens) /\ x \o y \in Seq(Tokens)
  BY BytesAre, Concat DEF Rewriter
<1> HIDE DEF a
<1>2. Spliced(Tokens, a, x, buf)
  BY <1>1, Concatenated DEF a
<1>3. buf \in Seq(Tokens) /\ Len(a) \in Nat /\ Len(x) \in Nat /\ Len(buf) = Len(a) + Len(x)
  BY <1>2 DEF Spliced
<1>4. buf \o y = h \o rest
  <2>1. Associates(a, x, y)
    BY <1>1, Associative
  <2> QED
    BY <2>1 DEF Associates, a
<1>5. Len(h) \in Nat /\ Len(h) >= 3
  BY BlankOnce
<1> HIDE DEF h
<1>6. find_head_end(buf) = IF Len(h) <= Len(buf) THEN Len(h) ELSE 0
  <2>1. \A i \in 1..Len(buf) : i <= Len(h) => buf[i] = h[i]
    BY <1>1, <1>3, <1>4, Agree
  <2> DEFINE e == find_head_end(buf)
  <2> HIDE DEF e
  <2>2. IF Len(h) <= Len(buf) THEN e = Len(h) ELSE e = 0
    BY <1>3, <2>1, HeadFound DEF e, h
  <2> QED
    BY <2>2 DEF e
<1>7. Len(a) < Len(h)
  <2>1. \A i \in 1..Len(a) : i <= Len(h) => a[i] = h[i]
    <3>1. a \o (x \o y) = h \o rest
      BY DEF a, h
    <3> QED
      BY <1>1, <3>1, Agree
  <2> DEFINE e == find_head_end(a)
  <2>2. e = 0
    BY DEF a
  <2> HIDE DEF e
  <2>3. IF Len(h) <= Len(a) THEN e = Len(h) ELSE e = 0
    BY <1>1, <2>1, HeadFound DEF e, h
  <2> QED
    BY <1>3, <1>5, <2>2, <2>3
<1> QED
  BY <1>3, <1>4, <1>5, <1>6, <1>7 DEF Heading, a, h

\* The head is not whole yet.
LEMMA HeldTurn ==
    ASSUME NEW st, NEW x \in Seq(Tokens), NEW y \in Seq(Tokens), NEW q, NEW rest, NEW buf,
           Heading(st, x, y, q, rest, buf), ~ (Len(HeadOf(q)) <= Len(buf)), Frames(q) # "junk",
           st.remaining = 0, NEW t, t = turn(st, x)
    PROVE  /\ t.st \in Rewriter /\ t.st.head = buf /\ t.st.remaining = 0
           /\ find_head_end(buf) = 0
           /\ t.input = <<>> /\ t.out = <<>>
           /\ t.err # "none" => Frames(q) \in {"anomaly", "large"}
<1> DEFINE h == HeadOf(q)
           end == find_head_end(buf)
<1>1. /\ st \in Rewriter /\ buf \in Seq(Tokens) /\ buf = st.head \o x /\ q \in Request
      /\ Len(h) \in Nat /\ Len(buf) = Len(st.head) + Len(x)
      /\ Len(st.head) \in Nat /\ Len(x) \in Nat /\ end = 0
  BY DEF Heading
<1>2. t = Held(st, buf)
  <2>1. end \in Nat /\ ~ (end > 0)
    BY <1>1
  <2>2. end = find_head_end(buf) /\ buf = st.head \o x
    BY <1>1
  <2> HIDE DEF end
  <2>3. t = IF end > 0
            THEN Complete(st, x, rewrite_head(SubSeq(buf, 1, end)), Consumed(st, x, end))
            ELSE Held(st, buf)
    BY <2>1, <2>2, TurnIs
  <2> QED
    BY <2>1, <2>3
<1>3. /\ t.st = [st EXCEPT !.head = buf] /\ t.input = <<>> /\ t.out = <<>>
      /\ t.err = IF Len(buf) > MAX_HEAD THEN "HeadTooLarge" ELSE "none"
  BY <1>2, HeldIs
<1>4. t.st \in Rewriter /\ t.st.head = buf /\ t.st.remaining = 0
  BY <1>1, <1>3 DEF Rewriter
<1>5. ASSUME t.err # "none"
      PROVE  Frames(q) \in {"anomaly", "large"}
  <2>1. Len(buf) > MAX_HEAD
    BY <1>3, <1>5
  <2>2. Len(h) = 2 * Len(q.headers) + 3 /\ Len(q.headers) \in Nat
    BY <1>1, HeadIs
  <2>3. Len(buf) < Len(h) /\ MAX_HEAD \in Nat
    BY <1>1, ForwardAssumption
  <2> HIDE DEF h
  <2>4. 2 + 2 * Len(q.headers) + 1 > MAX_HEAD
    BY <1>1, <2>1, <2>2, <2>3
  <2> QED
    BY <2>4 DEF Frames
<1> QED
  BY <1>1, <1>3, <1>4, <1>5

\* The head is whole: it is rewritten, and its body begins.
Rewrote(st, x, y, q, rest, t) ==
    IF Frames(q) = "anomaly" THEN t.err # "none"
    ELSE /\ t.err = "none" /\ t.out = HeadOf(Absolute(q))
         /\ t.st = next_state(st, content_length(q.headers))
         /\ t.input \in Seq(Tokens) /\ Len(t.input) < Len(x) /\ t.input \o y = rest

LEMMA WholeTurn ==
    ASSUME NEW st, NEW x \in Seq(Tokens), NEW y \in Seq(Tokens), NEW q, NEW rest, NEW buf,
           Heading(st, x, y, q, rest, buf), Len(HeadOf(q)) <= Len(buf),
           st.remaining = 0, NEW t, t = turn(st, x)
    PROVE  Rewrote(st, x, y, q, rest, t)
<1> DEFINE h == HeadOf(q)
           end == find_head_end(buf)
           r == rewrite_head(SubSeq(buf, 1, end))
           n == end - Len(st.head)
           c == Consumed(st, x, end)
           v == SubSeq(buf, Len(h) + 1, Len(buf))
<1>1. /\ st \in Rewriter /\ buf \in Seq(Tokens) /\ buf = st.head \o x /\ q \in Request
      /\ Len(h) \in Nat /\ Len(buf) = Len(st.head) + Len(x)
      /\ Len(st.head) \in Nat /\ Len(x) \in Nat /\ Len(st.head) < Len(h) /\ end = Len(h)
      /\ buf \o y = h \o rest /\ rest \in Seq(Tokens)
  BY DEF Heading
<1>2. h \in Seq(Tokens)
  BY <1>1, BytesAre
<1>3. Crosses(Tokens, buf, y, h, rest, v)
  <2>1. Len(h) <= Len(buf)
    OBVIOUS
  <2> HIDE DEF v, h
  <2> QED
    BY <1>1, <1>2, <2>1, Crossing DEF v
<1>4. r = rewrite_head(h)
  <2>1. SubSeq(buf, 1, Len(h)) = h
    BY <1>3 DEF Crosses
  <2> QED
    BY <1>1, <2>1
<1>5. c = n
  <2>1. n \in Int /\ 0 \in Int /\ n > 0 /\ n <= Len(x)
    <3>1. Len(h) <= Len(buf)
      OBVIOUS
    <3> HIDE DEF h, end
    <3> QED
      BY <1>1, <3>1
  <2> HIDE DEF n
  <2>2. Max({n, 0}) = IF n >= 0 THEN n ELSE 0
    BY <2>1, TwoExtremes
  <2>3. Max({n, 0}) = n
    BY <2>1, <2>2
  <2> DEFINE l == Len(x)
  <2>4. l \in Int /\ n <= l
    BY <1>1, <2>1
  <2> HIDE DEF l
  <2>5. Min({n, l}) = IF n <= l THEN n ELSE l
    BY <2>1, <2>4, TwoExtremes
  <2> QED
    BY <2>3, <2>4, <2>5 DEF l, Consumed, n
<1>6. t = Complete(st, x, r, c)
  <2>1. end \in Nat /\ end > 0
    BY <1>1
  <2>2. end = find_head_end(buf) /\ buf = st.head \o x
    BY <1>1
  <2> HIDE DEF end
  <2>3. t = IF end > 0
            THEN Complete(st, x, rewrite_head(SubSeq(buf, 1, end)), Consumed(st, x, end))
            ELSE Held(st, buf)
    BY <2>1, <2>2, TurnIs
  <2> QED
    BY <2>1, <2>3
<1> HIDE DEF r, c
<1>7. /\ t.st = next_state(st, r.body_len) /\ t.err = r.err
      /\ t.input = SubSeq(x, c + 1, Len(x)) /\ t.out = r.out
  BY <1>6, WholeIs
<1>8. t.input = v
  <2>1. st.head \in Seq(Tokens)
    BY <1>1 DEF Rewriter
  <2>2. Len(h) \in Len(st.head)..Len(buf)
    BY <1>1
  <2> DEFINE a == st.head
             m == Len(h)
  <2>3. a \in Seq(Tokens) /\ m \in Len(a)..Len(buf) /\ buf = a \o x
    BY <1>1, <2>1, <2>2
  <2> HIDE DEF h, v, a, m
  <2>4. SubSeq(buf, m + 1, Len(buf)) = SubSeq(x, m - Len(a) + 1, Len(x))
    BY <2>3, EndOf, SMTT(30)
  <2> QED
    BY <1>1, <1>5, <1>7, <2>4 DEF v, a, m
<1>9. v \in Seq(Tokens) /\ Len(v) < Len(x) /\ v \o y = rest
  <2> HIDE DEF v, h
  <2>1. v \in Seq(Tokens) /\ Len(v) = Len(buf) - Len(h) /\ v \o y = rest
    BY <1>3 DEF Crosses
  <2> QED
    BY <1>1, <2>1
<1>10. IF Frames(q) = "anomaly" THEN r.err \notin {"none", "HeadTooLarge"}
       ELSE r.err = "none" /\ r.out = HeadOf(Absolute(q)) /\ r.body_len = content_length(q.headers)
  BY <1>1, <1>4, Rewritten
<1> HIDE DEF v
<1> QED
  BY <1>7, <1>8, <1>9, <1>10 DEF Rewrote

\* What a head announces is its body.
LEMMA Announced ==
    ASSUME NEW qs, Sound(qs), NEW i \in 1..Len(qs)
    PROVE  /\ qs[i] \in Request /\ Frames(qs[i]) # "junk" /\ i \in DOMAIN qs
           /\ Frames(qs[i]) # "anomaly" => Len(qs[i].body) = content_length(qs[i].headers)
<1>1. qs \in Seq(Request) /\ i \in DOMAIN qs /\ qs[i] \in Request
  BY LenProperties DEF Sound
<1> QED
  BY <1>1 DEF Sound

LEMMA OutIs ==
    ASSUME NEW qs, Sound(qs)
    PROVE  /\ Out(qs) \in Seq(Request) /\ Len(Out(qs)) = Len(qs) /\ Len(qs) \in Nat
           /\ \A i \in 1..Len(qs) : Out(qs)[i] = Absolute(qs[i])
<1> DEFINE n == Len(qs)
           f == Out(qs)
<1>1. n \in Nat /\ DOMAIN qs = 1..n /\ \A i \in 1..n : qs[i] \in Request
  BY LenProperties DEF Sound
<1>2. \A i \in 1..n : Absolute(qs[i]) \in Request
  BY <1>1, AbsoluteIs
<1>3. f = [i \in 1..n |-> Absolute(qs[i])]
  BY <1>1 DEF Out
<1> HIDE DEF f, n
<1>4. f \in [1..n -> Request] /\ \A i \in 1..n : f[i] = Absolute(qs[i])
  BY <1>2, <1>3
<1>5. f \in Seq(Request) /\ Len(f) = n
  BY <1>1, <1>4
<1> QED
  BY <1>1, <1>4, <1>5 DEF f, n

\* The next head of R.
LEMMA HeadTurn ==
    ASSUME NEW qs, Sound(qs), NEW st, NEW u, NEW x \in Seq(Tokens), NEW y \in Seq(Tokens),
           NEW k, NEW w, NEW R, Place(qs, st, u, x \o y, k, w, R), x # <<>>, st.remaining = 0,
           NEW t, t = turn(st, x)
    PROVE  Turned(qs, u, x, y, t)
<1>1. /\ st \in Rewriter /\ u \in Seq(Tokens) /\ k \in 0..Len(qs) /\ w \in Seq(Tokens) /\ R \in Seq(Tokens)
      /\ \A i \in 1..k : Frames(qs[i]) # "anomaly"
      /\ Len(w) = 0 /\ find_head_end(st.head) = 0 /\ st.head \o (x \o y) = w \o R
      /\ Sent(qs, k) \o R = Stream(qs) /\ u \o w = Sent(Out(qs), k)
  BY DEF Place
<1>2. w = <<>> /\ u = Sent(Out(qs), k)
  <2>1. w = <<>>
    BY <1>1, EmptySeq
  <2> QED
    BY <1>1, <2>1, Concat
<1>3. qs \in Seq(Request) /\ Len(qs) \in Nat /\ st.head \in Seq(Tokens)
  BY <1>1, OutIs DEF Sound, Rewriter
<1>4. st.head \o (x \o y) = R
  BY <1>1, <1>2, Concat
<1>5. R # <<>>
  <2>1. x \o y \in Seq(Tokens)
    BY Concat
  <2>2. R = <<>> => x = <<>>
    BY <1>3, <1>4, <2>1, ConcatSimplifications
  <2> QED
    BY <2>2
<1> DEFINE q == qs[k + 1]
           h == HeadOf(q)
           buf == st.head \o x
<1>6. /\ k + 1 \in 1..Len(qs)
      /\ \E z \in Seq(Tokens) : R = h \o (q.body \o z) /\ Sent(qs, k + 1) \o z = Stream(qs)
  BY <1>1, <1>3, <1>5, NextHead
<1>7. PICK z \in Seq(Tokens) : R = h \o (q.body \o z) /\ Sent(qs, k + 1) \o z = Stream(qs)
  BY <1>6
<1>8. /\ q \in Request /\ Frames(q) # "junk" /\ k + 1 \in DOMAIN qs
      /\ Frames(q) # "anomaly" => Len(q.body) = content_length(q.headers)
  BY <1>6, Announced
<1> HIDE DEF q
<1>9. q.body \in Seq(Tokens) /\ q.body \o z \in Seq(Tokens)
  BY <1>8, BytesAre, Concat
<1> DEFINE rest == q.body \o z
<1>10. Heading(st, x, y, q, rest, buf)
  <2>1. st.head \o (x \o y) = HeadOf(q) \o rest /\ rest \in Seq(Tokens)
    BY <1>4, <1>7, <1>9
  <2>2. buf = st.head \o x
    OBVIOUS
  <2> HIDE DEF rest, buf
  <2> QED
    BY <1>1, <1>8, <2>1, <2>2, InHead
<1>11. CASE ~ (Len(h) <= Len(buf))
  <2>1. /\ t.st \in Rewriter /\ t.st.head = buf /\ t.st.remaining = 0
        /\ find_head_end(buf) = 0 /\ t.input = <<>> /\ t.out = <<>>
        /\ t.err # "none" => Frames(q) \in {"anomaly", "large"}
    <3> HIDE DEF rest, buf
    <3> QED
      BY <1>8, <1>10, <1>11, HeldTurn
  <2>2. buf \o y = R
    <3>1. Associates(st.head, x, y)
      BY <1>3, Associative
    <3> QED
      BY <1>4, <3>1 DEF Associates
  <2>3. Place(qs, t.st, u \o t.out, t.input \o y, k, <<>>, R)
    <3>1. u \o <<>> = u /\ <<>> \o y = y /\ <<>> \o R = R /\ <<>> \in Seq(Tokens)
      BY <1>1, Concat
    <3>2. Len(<<>>) = 0
      BY EmptySeq
    <3> HIDE DEF buf
    <3>3. u \o t.out = u /\ t.input \o y = y /\ t.st.head \o y = <<>> \o R /\ t.st.remaining = 0
      BY <2>1, <2>2, <3>1
    <3>4. find_head_end(t.st.head) = 0 /\ u \o <<>> = Sent(Out(qs), k)
      BY <1>2, <2>1, <3>1
    <3>5. Place(qs, t.st, u, y, k, <<>>, R)
      BY <1>1, <2>1, <3>1, <3>2, <3>3, <3>4 DEF Place
    <3> QED
      BY <3>3, <3>5
  <2>4. <<>> \in Seq(Tokens) /\ Len(<<>>) = 0 /\ Len(x) \in Nat /\ Len(x) > 0
    BY EmptySeq, LenProperties
  <2>5. t.err # "none" => \E i \in DOMAIN qs : Frames(qs[i]) \in {"anomaly", "large"}
    BY <1>8, <2>1 DEF q
  <2> QED
    BY <2>1, <2>3, <2>4, <2>5 DEF Turned
<1>12. CASE Len(h) <= Len(buf)
  <2>1. IF Frames(q) = "anomaly" THEN t.err # "none"
        ELSE /\ t.err = "none" /\ t.out = HeadOf(Absolute(q))
             /\ t.st = next_state(st, content_length(q.headers))
             /\ t.input \in Seq(Tokens) /\ Len(t.input) < Len(x) /\ t.input \o y = rest
    <3> HIDE DEF rest, buf
    <3>1. Rewrote(st, x, y, q, rest, t)
      BY <1>10, <1>12, WholeTurn
    <3> QED
      BY <3>1 DEF Rewrote
  <2>2. CASE Frames(q) = "anomaly"
    <3>1. \E i \in DOMAIN qs : Frames(qs[i]) \in {"anomaly", "large"}
      BY <1>8, <2>2 DEF q
    <3> QED
      BY <2>1, <2>2, <3>1 DEF Turned
  <2>3. CASE Frames(q) # "anomaly"
    <3> DEFINE p == Absolute(q)
    <3>1. p \in Request /\ p.body = q.body
      BY <1>8, AbsoluteIs
    <3>2. HeadOf(p) \in Seq(Tokens) /\ Bytes(p) = HeadOf(p) \o q.body
      BY <3>1, BytesAre
    <3>3. Sent(Out(qs), k + 1) = u \o Bytes(p)
      <4> DEFINE o == Out(qs)
      <4>1. o \in Seq(Request) /\ Len(o) = Len(qs) /\ o[k + 1] = p
        BY <1>6, OutIs DEF q
      <4> HIDE DEF o, p
      <4>2. Parted(o) /\ k + 1 \in 1..Len(o)
        BY <1>6, <4>1, Parts
      <4>4. Sent(o, k + 1) = Sent(o, (k + 1) - 1) \o Bytes(o[k + 1])
        <5>1. \A i \in 1..Len(o) : Sent(o, i) = Sent(o, i - 1) \o Bytes(o[i])
          BY <4>2 DEF Parted
        <5> QED
          BY <4>2, <5>1
      <4>3. (k + 1) - 1 = k
        BY <1>1, <1>3
      <4> QED
        BY <1>2, <4>1, <4>3, <4>4 DEF o
    <3> HIDE DEF p
    <3>4. t.out = HeadOf(p)
      BY <2>1, <2>3 DEF p
    <3>5. u \o HeadOf(p) \in Seq(Tokens) /\ (u \o HeadOf(p)) \o q.body = Sent(Out(qs), k + 1)
      <4>1. Associates(u, HeadOf(p), q.body)
        BY <1>1, <1>9, <3>2, Associative
      <4> QED
        BY <1>1, <3>2, <3>3, <4>1, Concat DEF Associates
    <3>6. t.st \in Rewriter /\ t.st.head = <<>> /\ t.st.remaining = Len(q.body)
      <4>1. Len(q.body) \in Nat /\ <<>> \in Seq(Tokens)
        BY <1>9, LenProperties, EmptySeq
      <4>2. t.st = [st EXCEPT !.head = <<>>, !.remaining = Len(q.body)]
        BY <1>8, <2>1, <2>3 DEF next_state
      <4> QED
        BY <1>1, <4>1, <4>2 DEF Rewriter
    <3>7. <<>> \o (t.input \o y) = q.body \o z
      BY <1>9, <2>1, <2>3, Concat
    <3>8. \A i \in 1..(k + 1) : Frames(qs[i]) # "anomaly"
      <4>1. Frames(qs[k + 1]) # "anomaly"
        BY <2>3 DEF q
      <4>2. k \in Int /\ \A i \in 1..(k + 1) : i \in 1..k \/ i = k + 1
        BY <1>1, <1>3
      <4> QED
        BY <1>1, <4>1, <4>2
    <3>9. Place(qs, t.st, u \o t.out, t.input \o y, k + 1, q.body, z)
      <4>1. k + 1 \in 0..Len(qs) /\ t.input \o y \in Seq(Tokens)
        BY <1>3, <1>6, <2>1, <2>3, Concat
      <4> HIDE DEF rest
      <4> QED
        BY <1>7, <1>9, <3>4, <3>5, <3>6, <3>7, <3>8, <4>1, EmptyHead DEF Place
    <3>10. t.out \in Seq(Tokens)
      BY <3>2, <3>4
    <3> QED
      BY <2>1, <2>3, <3>9, <3>10 DEF Turned
  <2> QED
    BY <2>2, <2>3
<1> QED
  BY <1>11, <1>12

LEMMA TurnMoves ==
    ASSUME NEW qs, Sound(qs), NEW st, NEW u, NEW x \in Seq(Tokens), NEW y \in Seq(Tokens),
           \E k, w, R : Place(qs, st, u, x \o y, k, w, R), x # <<>>, NEW t, t = turn(st, x)
    PROVE  Turned(qs, u, x, y, t)
<1>1. PICK k, w, R : Place(qs, st, u, x \o y, k, w, R)
  OBVIOUS
<1>2. st.remaining = 0 \/ st.remaining > 0
  BY <1>1, SMTT(30) DEF Place, Rewriter
<1> QED
  BY <1>1, <1>2, BodyTurn, HeadTurn

-----------------------------------------------------------------------------
(* push: turn after turn *)

Shaped(t) == \E s, e, i, o : t = [st |-> s, err |-> e, input |-> i, out |-> o]

LEMMA TurnShaped ==
    ASSUME NEW st \in Rewriter, NEW x \in Seq(Tokens)
    PROVE  Shaped(turn(st, x))
<1> DEFINE t == turn(st, x)
           buf == st.head \o x
           end == find_head_end(buf)
           C == Complete(st, x, rewrite_head(SubSeq(buf, 1, end)), Consumed(st, x, end))
           H == Held(st, buf)
           take == Min({st.remaining, Len(x)})
           T == [st |-> [st EXCEPT !.remaining = @ - take], err |-> "none",
                 input |-> SubSeq(x, take + 1, Len(x)), out |-> SubSeq(x, 1, take)]
<1>1. t = CASE st.remaining > 0 -> T
            [] st.remaining = 0 /\ end > 0 -> C
            [] st.remaining = 0 /\ end = 0 -> H
  BY DEF turn, Complete, Held, Consumed
<1>2. Shaped(T)
  BY DEF Shaped
<1>3. Shaped(C)
  <2> DEFINE r == rewrite_head(SubSeq(buf, 1, end))
             c == Consumed(st, x, end)
             s == next_state(st, r.body_len)
             i == SubSeq(x, c + 1, Len(x))
  <2>1. C = [st |-> s, err |-> r.err, input |-> i, out |-> r.out]
    BY DEF Complete
  <2> HIDE DEF C, r, c, s, i
  <2> QED
    BY <2>1 DEF Shaped
<1>4. Shaped(H)
  <2> DEFINE s == [st EXCEPT !.head = buf]
             e == IF Len(buf) > MAX_HEAD THEN "HeadTooLarge" ELSE "none"
  <2>1. H = [st |-> s, err |-> e, input |-> <<>>, out |-> <<>>]
    BY DEF Held
  <2> HIDE DEF H, s, e
  <2> QED
    BY <2>1 DEF Shaped
<1>5. st.remaining \in Nat /\ end \in Nat
  <2>1. buf \in Seq(Tokens)
    BY Concat DEF Rewriter
  <2> HIDE DEF buf
  <2>2. Len(buf) \in Nat
    BY <2>1, LenProperties
  <2>3. end = 0 \/ end \in 2..Len(buf)
    <3> HIDE DEF end
    <3>1. end = find_head_end(buf)
      BY DEF end
    <3> QED
      BY <2>1, <3>1, HeadEnds
  <2> HIDE DEF end
  <2> QED
    BY <2>2, <2>3 DEF Rewriter
<1> HIDE DEF T, C, H, t, end
<1>6. t = T \/ t = C \/ t = H
  BY <1>1, <1>5
<1> QED
  BY <1>2, <1>3, <1>4, <1>6 DEF t

Once(p) ==
    LET t == turn(p.st, p.input)
    IN  IF p.err # "none" \/ p.input = <<>> THEN p
        ELSE [t EXCEPT !.out = IF t.err = "none" THEN p.out \o @ ELSE <<>>]
Pushes(f, a, n) == f = [m \in 0..n |-> IF m = 0 THEN a ELSE Once(f[m - 1])]

LEMMA PushesExist ==
    ASSUME NEW a, NEW n \in Nat
    PROVE  \E f : Pushes(f, a, n)
<1> DEFINE Bad == {k \in Nat : ~ \E f : Pushes(f, a, k)}
<1>1. SUFFICES ASSUME Bad # {}
               PROVE  FALSE
  OBVIOUS
<1>2. PICK k \in Bad : \A m \in Bad : k <= m
  <2>1. Bad \subseteq Nat
    OBVIOUS
  <2> HIDE DEF Bad
  <2> QED
    BY <1>1, <2>1, Least
<1>3. CASE k = 0
  <2> DEFINE f == [i \in 0..0 |-> a]
  <2>1. Pushes(f, a, 0)
    BY DEF Pushes
  <2> QED
    BY <1>2, <1>3, <2>1
<1>4. CASE k # 0
  <2>1. k - 1 \in Nat /\ ~ (k <= k - 1) /\ k \in Nat
    BY <1>2, <1>4
  <2>2. PICK f : Pushes(f, a, k - 1)
    BY <1>2, <2>1
  <2> DEFINE h == [i \in 0..k |-> IF i = k THEN Once(f[k - 1]) ELSE f[i]]
  <2>3. ASSUME NEW i \in 0..k
        PROVE  h[i] = IF i = 0 THEN a ELSE Once(h[i - 1])
    <3>1. CASE i = 0
      <4>1. f[0] = a
        BY <2>1, <2>2 DEF Pushes
      <4> QED
        BY <1>4, <3>1, <4>1
    <3>2. CASE i # 0
      <4>1. i \in 0..k /\ i - 1 \in 0..k /\ i - 1 # k
        BY <2>1, <3>2
      <4>2. h[i - 1] = f[i - 1]
        BY <4>1
      <4>3. CASE i = k
        BY <3>2, <4>1, <4>2, <4>3
      <4>4. CASE i # k
        <5>1. i \in 0..(k - 1)
          BY <2>1, <4>4
        <5>2. f[i] = Once(f[i - 1])
          BY <2>2, <3>2, <5>1 DEF Pushes
        <5> QED
          BY <3>2, <4>1, <4>2, <4>4, <5>2
      <4> QED
        BY <4>3, <4>4
    <3> QED
      BY <3>1, <3>2
  <2>4. h = [i \in 0..k |-> h[i]]
    OBVIOUS
  <2> HIDE DEF h
  <2>5. [i \in 0..k |-> h[i]] = [i \in 0..k |-> IF i = 0 THEN a ELSE Once(h[i - 1])]
    BY <2>3
  <2>6. Pushes(h, a, k)
    BY <2>4, <2>5 DEF Pushes
  <2> QED
    BY <1>2, <2>6
<1> QED
  BY <1>3, <1>4

LEMMA PushIs ==
    ASSUME NEW st, NEW x, Len(x) \in Nat
    PROVE  \E f : /\ Pushes(f, [st |-> st, err |-> "none", input |-> x, out |-> <<>>], Len(x))
                  /\ push(st, x) = f[Len(x)]
<1> DEFINE a == [st |-> st, err |-> "none", input |-> x, out |-> <<>>]
           n == Len(x)
           pushed == CHOOSE f : f = [m \in 0..n |-> IF m = 0 THEN a ELSE Once(f[m - 1])]
<1>1. push(st, x) = pushed[n]
  BY DEF push, Once
<1>2. \E f : Pushes(f, a, n)
  <2> HIDE DEF a, n
  <2>1. n \in Nat
    BY DEF n
  <2> QED
    BY <2>1, PushesExist
<1>3. Pushes(pushed, a, n)
  <2> HIDE DEF a, n
  <2> QED
    BY <1>2 DEF Pushes
<1> HIDE DEF pushed
<1> QED
  BY <1>1, <1>3

\* What push has come to when m turns are done and at most j of the input is left, y behind.
CameTo(qs, u, y, p, j) ==
    /\ p.err = "none" =>
          /\ p.input \in Seq(Tokens) /\ p.out \in Seq(Tokens) /\ Len(p.input) <= j
          /\ \E k, w, R : Place(qs, p.st, u \o p.out, p.input \o y, k, w, R)
    /\ p.err # "none" => \E i \in DOMAIN qs : Frames(qs[i]) \in {"anomaly", "large"}

LEMMA OnceReaches ==
    ASSUME NEW qs, Sound(qs), NEW u \in Seq(Tokens), NEW y \in Seq(Tokens), NEW p, NEW j \in Nat,
           CameTo(qs, u, y, p, j + 1)
    PROVE  CameTo(qs, u, y, Once(p), j)
<1> DEFINE t == turn(p.st, p.input)
           o == IF t.err = "none" THEN p.out \o t.out ELSE <<>>
           r == [t EXCEPT !.out = o]
<1>1. CASE p.err # "none"
  BY <1>1 DEF Once, CameTo
<1>2. CASE p.err = "none" /\ p.input = <<>>
  <2>1. Once(p) = p
    BY <1>2 DEF Once
  <2>2. Len(p.input) <= j
    BY <1>2, EmptySeq
  <2>3. /\ p.input \in Seq(Tokens) /\ p.out \in Seq(Tokens)
        /\ \E k, w, R : Place(qs, p.st, u \o p.out, p.input \o y, k, w, R)
    BY <1>2 DEF CameTo
  <2>4. CameTo(qs, u, y, p, j)
    BY <1>2, <2>2, <2>3 DEF CameTo
  <2> QED
    BY <2>1, <2>4
<1>3. CASE p.err = "none" /\ p.input # <<>>
  <2>1. Once(p) = r
    BY <1>3 DEF Once
  <2>2. /\ p.input \in Seq(Tokens) /\ p.out \in Seq(Tokens) /\ Len(p.input) <= j + 1
        /\ \E k, w, R : Place(qs, p.st, u \o p.out, p.input \o y, k, w, R)
    BY <1>3 DEF CameTo
  <2>3. p.st \in Rewriter
    BY <2>2 DEF Place
  <2>4. Shaped(t)
    BY <2>2, <2>3, TurnShaped
  <2>5. Turned(qs, u \o p.out, p.input, y, t)
    <3> HIDE DEF t
    <3>1. t = turn(p.st, p.input)
      BY DEF t
    <3> QED
      BY <1>3, <2>2, <3>1, TurnMoves
  <2> HIDE DEF t
  <2>6. r.st = t.st /\ r.err = t.err /\ r.input = t.input /\ r.out = o
    <3> HIDE DEF o
    <3> QED
      BY <2>4 DEF Shaped
  <2>7. CASE t.err # "none"
    <3>1. r.err # "none" /\ \E i \in DOMAIN qs : Frames(qs[i]) \in {"anomaly", "large"}
      BY <2>5, <2>6, <2>7 DEF Turned
    <3> HIDE DEF r
    <3> QED
      BY <2>1, <3>1 DEF CameTo
  <2>8. CASE t.err = "none"
    <3>1. /\ t.input \in Seq(Tokens) /\ t.out \in Seq(Tokens) /\ Len(t.input) < Len(p.input)
          /\ \E k, w, R : Place(qs, t.st, (u \o p.out) \o t.out, t.input \o y, k, w, R)
      BY <2>5, <2>8 DEF Turned
    <3>2. (u \o p.out) \o t.out = u \o o /\ o \in Seq(Tokens)
      <4>1. Associates(u, p.out, t.out)
        BY <2>2, <3>1, Associative
      <4> QED
        BY <2>2, <2>8, <3>1, <4>1, Concat DEF Associates
    <3>3. Len(t.input) <= j
      <4>1. Len(t.input) \in Nat /\ Len(p.input) \in Nat
        BY <2>2, <3>1, LenProperties
      <4> QED
        BY <2>2, <3>1, <4>1
    <3> HIDE DEF r, o
    <3>4. \E k, w, R : Place(qs, r.st, u \o r.out, r.input \o y, k, w, R)
      BY <2>6, <3>1, <3>2
    <3>5. r.err = "none" /\ r.input \in Seq(Tokens) /\ r.out \in Seq(Tokens) /\ Len(r.input) <= j
      BY <2>6, <2>8, <3>1, <3>2, <3>3
    <3> QED
      BY <2>1, <3>4, <3>5 DEF CameTo
  <2> QED
    BY <2>7, <2>8
<1> QED
  BY <1>1, <1>2, <1>3

LEMMA PushMoves ==
    ASSUME NEW qs, Sound(qs), NEW u \in Seq(Tokens), NEW x \in Seq(Tokens), NEW y \in Seq(Tokens),
           NEW st, \E k, w, R : Place(qs, st, u, x \o y, k, w, R), NEW p, p = push(st, x)
    PROVE  /\ p.err = "none" =>
                p.out \in Seq(Tokens) /\ \E k, w, R : Place(qs, p.st, u \o p.out, y, k, w, R)
           /\ p.err # "none" => \E i \in DOMAIN qs : Frames(qs[i]) \in {"anomaly", "large"}
<1> DEFINE n == Len(x)
           a == [st |-> st, err |-> "none", input |-> x, out |-> <<>>]
<1>1. n \in Nat
  BY LenProperties
<1>2. PICK f : Pushes(f, a, n) /\ push(st, x) = f[n]
  BY <1>1, PushIs
<1>3. CameTo(qs, u, y, a, n)
  <2>1. u \o <<>> = u /\ <<>> \in Seq(Tokens)
    BY Concat
  <2>2. a.err = "none" /\ a.input = x /\ a.out = <<>> /\ a.st = st
    OBVIOUS
  <2> HIDE DEF a
  <2>3. \E k, w, R : Place(qs, a.st, u \o a.out, a.input \o y, k, w, R)
    BY <2>1, <2>2
  <2> QED
    BY <1>1, <2>1, <2>2, <2>3 DEF CameTo
<1> DEFINE Bad == {m \in 0..n : ~ CameTo(qs, u, y, f[m], n - m)}
<1>4. Bad = {}
  <2> SUFFICES ASSUME Bad # {}
               PROVE  FALSE
    OBVIOUS
  <2>1. PICK m \in Bad : \A i \in Bad : m <= i
    <3>1. Bad \subseteq Nat
      BY <1>1
    <3> HIDE DEF Bad
    <3> QED
      BY <3>1, Least
  <2>2. m \in 0..n /\ ~ CameTo(qs, u, y, f[m], n - m)
    BY <2>1
  <2> HIDE DEF a, n
  <2>3. m # 0
    <3>1. f[0] = a /\ n - 0 = n
      BY <1>1, <1>2 DEF Pushes
    <3> QED
      BY <1>3, <2>2, <3>1
  <2>4. m - 1 \in 0..n /\ ~ (m <= m - 1) /\ n - m \in Nat /\ n - (m - 1) = (n - m) + 1
    BY <1>1, <2>2, <2>3
  <2>5. CameTo(qs, u, y, f[m - 1], n - (m - 1))
    BY <2>1, <2>4
  <2>6. f[m] = Once(f[m - 1])
    BY <1>2, <2>2, <2>3 DEF Pushes
  <2>7. CameTo(qs, u, y, f[m - 1], (n - m) + 1)
    BY <2>4, <2>5
  <2>8. CameTo(qs, u, y, Once(f[m - 1]), n - m)
    BY <2>4, <2>7, OnceReaches
  <2> QED
    BY <2>2, <2>6, <2>8
<1>5. CameTo(qs, u, y, p, 0)
  <2> HIDE DEF a, n
  <2>1. n \in 0..n /\ n - n = 0
    BY <1>1
  <2>2. CameTo(qs, u, y, f[n], n - n)
    BY <1>4, <2>1
  <2> QED
    BY <1>2, <2>1, <2>2
<1>6. ASSUME p.err = "none"
      PROVE  p.out \in Seq(Tokens) /\ \E k, w, R : Place(qs, p.st, u \o p.out, y, k, w, R)
  <2>1. /\ p.input \in Seq(Tokens) /\ p.out \in Seq(Tokens) /\ Len(p.input) <= 0
        /\ \E k, w, R : Place(qs, p.st, u \o p.out, p.input \o y, k, w, R)
    BY <1>5, <1>6 DEF CameTo
  <2>2. p.input = <<>>
    <3>1. Len(p.input) \in Nat
      BY <2>1, LenProperties
    <3>2. Len(p.input) = 0
      BY <2>1, <3>1
    <3> QED
      BY <2>1, <3>2, EmptySeq
  <2>3. p.input \o y = y
    BY <2>2, Concat
  <2> QED
    BY <2>1, <2>3
<1>7. p.err # "none" => \E i \in DOMAIN qs : Frames(qs[i]) \in {"anomaly", "large"}
  BY <1>5 DEF CameTo
<1> QED
  BY <1>6, <1>7

-----------------------------------------------------------------------------
(* What a place says of the bytes that went out *)

\* An absolute form is as long as the request is.
LEMMA SameLength ==
    ASSUME NEW qs, Sound(qs), NEW k \in 0..Len(qs)
    PROVE  Len(Sent(Out(qs), k)) = Len(Sent(qs, k))
<1> DEFINE n == Len(qs)
           o == Out(qs)
           Bad == {i \in 0..n : Len(Sent(o, i)) # Len(Sent(qs, i))}
<1>1. /\ qs \in Seq(Request) /\ n \in Nat /\ o \in Seq(Request) /\ Len(o) = n
      /\ \A i \in 1..n : o[i] = Absolute(qs[i])
  BY OutIs DEF Sound
<1> HIDE DEF o
<1>2. Parted(qs) /\ Parted(o)
  BY <1>1, Parts
<1>3. SUFFICES ASSUME Bad # {}
               PROVE  FALSE
  <2> SUFFICES Bad = {}
    BY DEF o
  <2> QED
    BY <1>3
<1>4. PICK i \in Bad : \A m \in Bad : i <= m
  <2>1. Bad \subseteq Nat
    BY <1>1
  <2> HIDE DEF Bad
  <2> QED
    BY <1>3, <2>1, Least
<1>5. i \in 0..n /\ Len(Sent(o, i)) # Len(Sent(qs, i))
  BY <1>4
<1>6. i # 0
  <2>1. Sent(o, 0) = <<>> /\ Sent(qs, 0) = <<>>
    BY <1>2 DEF Parted
  <2> QED
    BY <1>5, <2>1
<1>7. i \in 1..n /\ i - 1 \in 0..n /\ ~ (i <= i - 1)
  BY <1>1, <1>5, <1>6
<1>8. Len(Sent(o, i - 1)) = Len(Sent(qs, i - 1))
  BY <1>4, <1>7
<1> DEFINE q == qs[i]
           p == o[i]
<1>9. /\ Sent(qs, i) = Sent(qs, i - 1) \o Bytes(q) /\ Sent(qs, i - 1) \in Seq(Tokens)
      /\ Sent(o, i) = Sent(o, i - 1) \o Bytes(p) /\ Sent(o, i - 1) \in Seq(Tokens)
  <2> HIDE DEF n
  <2>1. i \in 1..Len(qs) /\ i - 1 \in 0..Len(qs) /\ i \in 1..Len(o) /\ i - 1 \in 0..Len(o)
    BY <1>1, <1>7 DEF n
  <2> QED
    BY <1>2, <2>1 DEF Parted
<1>10. q \in Request /\ p = Absolute(q)
  BY <1>1, <1>7, LenProperties
<1> HIDE DEF p, q, Bad, n
<1>11. p \in Request /\ p.headers = q.headers /\ p.body = q.body
  BY <1>10, AbsoluteIs
<1>12. /\ Bytes(p) \in Seq(Tokens) /\ HeadOf(p) \in Seq(Tokens) /\ Bytes(p) = HeadOf(p) \o p.body
       /\ Bytes(q) \in Seq(Tokens) /\ HeadOf(q) \in Seq(Tokens) /\ Bytes(q) = HeadOf(q) \o q.body
       /\ q.body \in Seq(Tokens)
  BY <1>10, <1>11, BytesAre
<1>13. Len(Bytes(p)) = Len(Bytes(q))
  <2>1. Len(HeadOf(p)) = 2 * Len(p.headers) + 3 /\ Len(HeadOf(q)) = 2 * Len(q.headers) + 3
    BY <1>10, <1>11, HeadIs
  <2>2. Len(HeadOf(p)) = Len(HeadOf(q))
    BY <1>11, <2>1
  <2> DEFINE g == HeadOf(p)
             h == HeadOf(q)
             b == q.body
  <2>3. Spliced(Tokens, g, b, g \o b) /\ Spliced(Tokens, h, b, h \o b)
    BY <1>12, Concatenated
  <2>4. Len(g \o b) = Len(h \o b)
    <3>1. Len(g) = Len(h)
      BY <2>2
    <3> HIDE DEF g, h, b
    <3> QED
      BY <2>3, <3>1 DEF Spliced
  <2> QED
    BY <1>11, <1>12, <2>4
<1>14. Len(Sent(o, i)) = Len(Sent(qs, i))
  <2>1. /\ Spliced(Tokens, Sent(o, i - 1), Bytes(p), Sent(o, i - 1) \o Bytes(p))
        /\ Spliced(Tokens, Sent(qs, i - 1), Bytes(q), Sent(qs, i - 1) \o Bytes(q))
    BY <1>9, <1>12, Concatenated
  <2>2. Len(Sent(o, i)) = Len(Sent(o, i - 1)) + Len(Bytes(p))
    BY <1>9, <2>1 DEF Spliced
  <2>3. Len(Sent(qs, i)) = Len(Sent(qs, i - 1)) + Len(Bytes(q))
    BY <1>9, <2>1 DEF Spliced
  <2> QED
    BY <1>8, <1>13, <2>2, <2>3
<1> QED
  BY <1>5, <1>14

\* The start of a sequence is a prefix of it.
LEMMA Begins ==
    ASSUME NEW S, NEW s \in Seq(S), NEW t \in Seq(S)
    PROVE  IsPrefix(s, s \o t)
<1> DEFINE u == s \o t
<1>1. Spliced(S, s, t, u)
  BY Concatenated
<1>2. u \in Seq(S) /\ Len(s) \in Nat /\ Len(t) \in Nat /\ Len(u) = Len(s) + Len(t)
  BY <1>1 DEF Spliced
<1>3. u \o <<>> = s \o t /\ <<>> \in Seq(S)
  BY <1>2, Concat
<1> DEFINE v == SubSeq(u, Len(s) + 1, Len(u))
<1> HIDE DEF u
<1>4. Crosses(S, u, <<>>, s, t, v)
  <2>1. v = SubSeq(u, Len(s) + 1, Len(u)) /\ Len(s) <= Len(u)
    BY <1>2
  <2> HIDE DEF v
  <2> QED
    BY <1>2, <1>3, <2>1, Crossing
<1>5. SubSeq(u, 1, Len(s)) = s
  BY <1>4 DEF Crosses
<1>6. SubSeq(s, 1, Len(s)) = s
  BY SubSeqFull
<1>7. IsPrefix(s, u)
  BY <1>2, <1>5, <1>6 DEF IsPrefix
<1> QED
  BY <1>7 DEF u

\* What is out is what the requests before this place mean.
LEMMA PlaceIsExact ==
    ASSUME NEW qs, Sound(qs), NEW st, NEW u, NEW x, NEW k, NEW w, NEW R,
           Place(qs, st, u, x, k, w, R)
    PROVE  /\ IsPrefix(u, Stream(Out(qs)))
           /\ \A i \in DOMAIN qs : Frames(qs[i]) = "anomaly" =>
                 Len(u) <= Len(Stream(SubSeq(qs, 1, i - 1)))
<1> DEFINE o == Out(qs)
           n == Len(qs)
<1>1. /\ u \in Seq(Tokens) /\ k \in 0..n /\ w \in Seq(Tokens)
      /\ \A i \in 1..k : Frames(qs[i]) # "anomaly"
      /\ u \o w = Sent(o, k)
  BY DEF Place
<1>2. /\ qs \in Seq(Request) /\ n \in Nat /\ DOMAIN qs = 1..n /\ o \in Seq(Request) /\ Len(o) = n
  BY OutIs, LenProperties DEF Sound
<1> HIDE DEF o
<1>3. Parted(qs) /\ Parted(o)
  BY <1>2, Parts
<1>4. Spliced(Tokens, u, w, Sent(o, k))
  BY <1>1, Concatenated
<1>5. Len(u) \in Nat /\ Len(w) \in Nat /\ Len(Sent(o, k)) = Len(u) + Len(w)
  BY <1>4 DEF Spliced
<1>6. IsPrefix(u, Stream(o))
  <2>1. PICK z \in Seq(Tokens) : Sent(o, n) = Sent(o, k) \o z
    <3>1. k \in 0..Len(o) /\ n \in k..Len(o)
      BY <1>1, <1>2
    <3> QED
      BY <1>2, <3>1, SentGrows
  <2>2. Sent(o, n) = Stream(o)
    BY <1>2, <1>3 DEF Parted
  <2>3. Associates(u, w, z) /\ w \o z \in Seq(Tokens)
    BY <1>1, Associative, Concat
  <2>4. Stream(o) = u \o (w \o z)
    BY <1>1, <2>1, <2>2, <2>3 DEF Associates
  <2> DEFINE v == w \o z
  <2>5. v \in Seq(Tokens) /\ Stream(o) = u \o v
    BY <2>3, <2>4
  <2> HIDE DEF v
  <2> QED
    BY <1>1, <2>5, Begins
<1>7. ASSUME NEW i \in DOMAIN qs, Frames(qs[i]) = "anomaly"
      PROVE  Len(u) <= Len(Stream(SubSeq(qs, 1, i - 1)))
  <2>1. i \in 1..n /\ ~ (i \in 1..k) /\ k \in Nat
    BY <1>1, <1>2, <1>7
  <2>2. i - 1 \in k..n
    BY <1>1, <1>2, <2>1
  <2>3. PICK z \in Seq(Tokens) : Sent(qs, i - 1) = Sent(qs, k) \o z
    BY <1>1, <1>2, <2>2, SentGrows
  <2>4. Sent(qs, k) \in Seq(Tokens)
    BY <1>1, <1>3 DEF Parted
  <2>5. Spliced(Tokens, Sent(qs, k), z, Sent(qs, i - 1))
    BY <2>3, <2>4, Concatenated
  <2>6. /\ Len(Sent(qs, k)) \in Nat /\ Len(z) \in Nat
        /\ Len(Sent(qs, i - 1)) = Len(Sent(qs, k)) + Len(z)
    BY <2>5 DEF Spliced
  <2>7. Len(Sent(o, k)) = Len(Sent(qs, k))
    BY <1>1, SameLength DEF o
  <2>8. Len(u) <= Len(Sent(qs, i - 1))
    BY <1>5, <2>6, <2>7
  <2> QED
    BY <2>8 DEF Sent
<1> QED
  BY <1>6, <1>7 DEF o

\* With nothing left of the app's stream, all of it is out.
LEMMA NothingHeld ==
    ASSUME NEW qs, Sound(qs), NEW st, NEW u, NEW k, NEW w, NEW R,
           Place(qs, st, u, <<>>, k, w, R)
    PROVE  u = Stream(Out(qs))
<1> DEFINE o == Out(qs)
           n == Len(qs)
<1>1. /\ st \in Rewriter /\ u \in Seq(Tokens) /\ k \in 0..n /\ w \in Seq(Tokens) /\ R \in Seq(Tokens)
      /\ Len(w) = st.remaining /\ (st.remaining > 0 => st.head = <<>>)
      /\ find_head_end(st.head) = 0 /\ st.head \o <<>> = w \o R
      /\ Sent(qs, k) \o R = Stream(qs) /\ u \o w = Sent(o, k)
  BY DEF Place
<1>2. /\ qs \in Seq(Request) /\ n \in Nat /\ DOMAIN qs = 1..n /\ o \in Seq(Request) /\ Len(o) = n
      /\ st.head \in Seq(Tokens) /\ st.remaining \in Nat
  BY <1>1, OutIs, LenProperties DEF Sound, Rewriter
<1> HIDE DEF o
<1>3. Parted(qs) /\ Parted(o)
  BY <1>2, Parts
<1>4. st.head = w \o R
  BY <1>1, <1>2, Concat
<1>5. w = <<>>
  <2> SUFFICES ASSUME w # <<>>
               PROVE  FALSE
    OBVIOUS
  <2>1. Len(w) # 0
    BY <1>1, EmptySeq
  <2>2. st.head = <<>>
    BY <1>1, <1>2, <2>1
  <2> QED
    BY <1>1, <1>4, <2>2, ConcatSimplifications
<1>6. st.head = R /\ u = Sent(o, k)
  BY <1>1, <1>4, <1>5, Concat
<1>7. R = <<>>
  <2> SUFFICES ASSUME R # <<>>
               PROVE  FALSE
    OBVIOUS
  <2> DEFINE q == qs[k + 1]
  <2>1. /\ k + 1 \in 1..n
        /\ \E z \in Seq(Tokens) : R = HeadOf(q) \o (q.body \o z) /\ Sent(qs, k + 1) \o z = Stream(qs)
    BY <1>1, <1>2, NextHead
  <2>2. q \in Request
    BY <1>2, <2>1, LenProperties
  <2>3. PICK z \in Seq(Tokens) : R = HeadOf(q) \o (q.body \o z)
    BY <2>1
  <2> HIDE DEF q
  <2> DEFINE h == HeadOf(q)
             rest == q.body \o z
             e == find_head_end(R)
  <2>4. h \in Seq(Tokens) /\ rest \in Seq(Tokens) /\ R = h \o rest
    BY <2>2, <2>3, BytesAre, Concat
  <2>5. Len(h) \in Nat /\ Len(h) >= 3
    BY <2>2, BlankOnce
  <2>6. e = 0
    BY <1>1, <1>6
  <2> HIDE DEF rest, e
  <2>7. Spliced(Tokens, h, rest, R)
    BY <2>4, Concatenated
  <2>8. Len(h) <= Len(R) /\ \A i \in 1..Len(R) : i <= Len(h) => R[i] = h[i]
    BY <2>5, <2>7 DEF Spliced
  <2>9. IF Len(h) <= Len(R) THEN e = Len(h) ELSE e = 0
    <3>1. h = HeadOf(q) /\ e = find_head_end(R)
      BY DEF e
    <3> HIDE DEF h
    <3> QED
      BY <1>1, <2>2, <2>8, <3>1, HeadFound
  <2> QED
    BY <2>5, <2>6, <2>8, <2>9
<1>8. k = n
  <2> SUFFICES ASSUME k # n
               PROVE  FALSE
    OBVIOUS
  <2> DEFINE q == qs[k + 1]
             b == Bytes(q)
  <2>1. k + 1 \in 1..n /\ k + 1 \in 0..n /\ n \in (k + 1)..n /\ (k + 1) - 1 = k /\ k \in 0..n
    <3>1. k \in 0..n /\ n \in Nat /\ k # n
      BY <1>1, <1>2
    <3> HIDE DEF n
    <3> QED
      BY <3>1
  <2>2. q \in Request
    BY <1>2, <2>1, LenProperties
  <2>3. PICK z \in Seq(Tokens) : Sent(qs, n) = Sent(qs, k + 1) \o z
    BY <1>2, <2>1, SentGrows
  <2>4. Sent(qs, k + 1) = Sent(qs, k) \o b /\ Sent(qs, k) \in Seq(Tokens)
    <3>1. \A i \in 1..Len(qs) : Sent(qs, i) = Sent(qs, i - 1) \o Bytes(qs[i])
      BY <1>3 DEF Parted
    <3>2. Sent(qs, k + 1) = Sent(qs, (k + 1) - 1) \o Bytes(qs[k + 1])
      BY <2>1, <3>1
    <3>3. Sent(qs, k) \in Seq(Tokens)
      BY <1>1, <1>3 DEF Parted
    <3> QED
      BY <2>1, <3>2, <3>3
  <2> HIDE DEF q
  <2>5. b \in Seq(Tokens) /\ HeadOf(q) \in Seq(Tokens) /\ q.body \in Seq(Tokens) /\ b = HeadOf(q) \o q.body
    BY <2>2, BytesAre
  <2> HIDE DEF b
  <2>6. Sent(qs, k) = Sent(qs, k) \o (b \o z)
    <3>1. Associates(Sent(qs, k), b, z)
      BY <2>4, <2>5, Associative
    <3>2. Sent(qs, n) = Stream(qs)
      BY <1>3 DEF Parted
    <3>3. Sent(qs, k) = Stream(qs)
      <4>1. Sent(qs, k) \o <<>> = Sent(qs, k)
        BY <2>4, Concat
      <4> QED
        BY <1>1, <1>7, <4>1
    <3> QED
      BY <2>3, <2>4, <3>1, <3>2, <3>3 DEF Associates
  <2>7. b \o z = <<>>
    <3>1. b \o z \in Seq(Tokens)
      BY <2>5, Concat
    <3> QED
      BY <2>4, <2>6, <3>1, ConcatSimplifications
  <2>8. b = <<>>
    BY <2>5, <2>7, ConcatSimplifications
  <2>9. HeadOf(q) = <<>>
    BY <2>5, <2>8, ConcatSimplifications
  <2>10. Len(HeadOf(q)) >= 3
    BY <2>2, BlankOnce
  <2> QED
    BY <2>9, <2>10, EmptySeq
<1>9. Sent(o, n) = Stream(o)
  BY <1>2, <1>3 DEF Parted
<1> QED
  BY <1>6, <1>8, <1>9 DEF o

-----------------------------------------------------------------------------
(* The inductive invariant of the next flow *)

NoJunk(qs) == \A i \in DOMAIN qs : Frames(qs[i]) # "junk"
Placed(qs, st, u, x) == \E k, w, R : Place(qs, st, u, x, k, w, R)

\* Until the next flow opens nothing is rewritten; then the rewriter has a place in the
\* app's stream; and it had one when it refused what came next.
FInv ==
    /\ mode \notin {"forward", "refused"} => hf = HttpForwardNew /\ to_upstream = <<>>
    /\ mode \in {"forward", "refused"} => requests \in Requests
    /\ mode = "forward" /\ NoJunk(requests) => Placed(requests, hf, to_upstream, app)
    /\ mode = "refused" /\ NoJunk(requests) =>
          /\ \E st, x : Placed(requests, st, to_upstream, x)
          /\ \E i \in DOMAIN requests : Frames(requests[i]) \in {"anomaly", "large"}

\* What an app sends whose lengths parse is announced as it is.
LEMMA RequestsAreSound ==
    ASSUME NEW qs \in Requests, NoJunk(qs)
    PROVE  Sound(qs)
<1>1. /\ qs \in Seq(Request)
      /\ \A i \in DOMAIN qs :
            Frames(qs[i]) \in {"sound", "large"} => Len(qs[i].body) = content_length(qs[i].headers)
  BY StreamAssumption
<1>2. \A i \in DOMAIN qs : Frames(qs[i]) \in {"anomaly", "junk", "large", "sound"}
  BY DEF Frames
<1> QED
  BY <1>1, <1>2 DEF Sound, NoJunk

\* A new rewriter is before the first request.
LEMMA PlacedAtFirst ==
    ASSUME NEW qs, Sound(qs)
    PROVE  Placed(qs, HttpForwardNew, <<>>, Stream(qs))
<1> DEFINE o == Out(qs)
           s == Stream(qs)
           st == HttpForwardNew
<1>1. qs \in Seq(Request) /\ Len(qs) \in Nat /\ o \in Seq(Request)
  BY OutIs DEF Sound
<1> HIDE DEF o
<1>2. Parted(qs) /\ Parted(o)
  BY <1>1, Parts
<1>3. s \in Seq(Tokens)
  <2>1. Sent(qs, Len(qs)) \in Seq(Tokens) /\ Sent(qs, Len(qs)) = Stream(qs)
    BY <1>1, <1>2 DEF Parted
  <2> QED
    BY <2>1
<1>4. Sent(qs, 0) = <<>> /\ Sent(o, 0) = <<>>
  BY <1>2 DEF Parted
<1>5. /\ <<>> \o s = s /\ <<>> \o <<>> = <<>> /\ <<>> \in Seq(Tokens) /\ Len(<<>>) = 0
      /\ 0 \in 0..Len(qs)
  BY <1>1, <1>3, Concat, EmptySeq
<1>6. st \in Rewriter /\ st.head = <<>> /\ st.remaining = 0
  BY <1>5 DEF HttpForwardNew, Rewriter
<1> HIDE DEF st, s
<1>7. find_head_end(st.head) = 0
  BY <1>6, EmptyHead
<1>8. Sent(qs, 0) \o s = Stream(qs) /\ <<>> \o <<>> = Sent(Out(qs), 0)
  BY <1>4, <1>5 DEF s, o
<1>9. Place(qs, st, <<>>, s, 0, <<>>, s)
  BY <1>3, <1>5, <1>6, <1>7, <1>8 DEF Place
<1> QED
  BY <1>9 DEF Placed, st, s

LEMMA OpensInv == FInv /\ open_forward => FInv'
<1> SUFFICES ASSUME FInv, open_forward
             PROVE  FInv'
  OBVIOUS
<1>1. /\ mode = "failed" /\ mode' = "forward" /\ requests' \in Requests /\ app' = Stream(requests')
      /\ hf' = hf /\ to_upstream' = to_upstream
  BY DEF open_forward
<1>2. hf' = HttpForwardNew /\ to_upstream' = <<>>
  BY <1>1 DEF FInv
<1>3. ASSUME NoJunk(requests')
      PROVE  Placed(requests', hf', to_upstream', app')
  <2>1. Sound(requests')
    BY <1>1, <1>3, RequestsAreSound
  <2>2. Placed(requests', HttpForwardNew, <<>>, Stream(requests'))
    BY <2>1, PlacedAtFirst
  <2> QED
    BY <1>1, <1>2, <2>2
<1>4. NoJunk(requests)' <=> NoJunk(requests')
  BY DEF NoJunk
<1>5. Placed(requests, hf, to_upstream, app)' <=> Placed(requests', hf', to_upstream', app')
  OBVIOUS
<1> QED
  BY <1>1, <1>3, <1>4, <1>5 DEF FInv

LEMMA ForwardsInv == FInv /\ service_forward => FInv'
<1> SUFFICES ASSUME FInv, service_forward
             PROVE  FInv'
  OBVIOUS
<1>1. PICK n \in 1..Len(app) :
          LET p == push(hf, SubSeq(app, 1, n))
          IN  /\ app' = SubSeq(app, n + 1, Len(app))
              /\ hf' = p.st
              /\ IF p.err = "none"
                 THEN to_upstream' = to_upstream \o p.out /\ UNCHANGED mode
                 ELSE mode' = "refused" /\ UNCHANGED to_upstream
  BY DEF service_forward
<1> DEFINE x == SubSeq(app, 1, n)
           y == SubSeq(app, n + 1, Len(app))
           p == push(hf, x)
<1>2. /\ app' = y /\ hf' = p.st
      /\ p.err = "none" => to_upstream' = to_upstream \o p.out /\ mode' = mode
      /\ p.err # "none" => mode' = "refused" /\ to_upstream' = to_upstream
  BY <1>1
<1>3. mode = "forward" /\ requests' = requests /\ requests \in Requests
  BY DEF service_forward, script, FInv
<1> HIDE DEF x, y, p
<1>4. ASSUME NoJunk(requests)
      PROVE  /\ mode' = "forward" => Placed(requests, hf', to_upstream', app')
             /\ mode' = "refused" =>
                   /\ \E st, z : Placed(requests, st, to_upstream', z)
                   /\ \E i \in DOMAIN requests : Frames(requests[i]) \in {"anomaly", "large"}
  <2>1. Sound(requests)
    BY <1>3, <1>4, RequestsAreSound
  <2>2. Placed(requests, hf, to_upstream, app)
    BY <1>3, <1>4 DEF FInv
  <2>3. app \in Seq(Tokens) /\ to_upstream \in Seq(Tokens) /\ Len(app) \in Nat
    BY <2>2, LenProperties DEF Placed, Place
  <2>4. x \in Seq(Tokens) /\ y \in Seq(Tokens) /\ x \o y = app
    <3>1. n \in Nat /\ 1 <= n /\ n <= Len(app) /\ n + 1 \in Nat /\ 1 <= n + 1 /\ n + 1 <= Len(app) + 1
      BY <2>3
    <3>2. x \in Seq(Tokens)
      BY <2>3, <3>1, Part DEF x
    <3>3. y \in Seq(Tokens)
      BY <2>3, <3>1, Part DEF y
    <3>4. x \o y = SubSeq(app, 1, Len(app))
      <4>1. 1 \in 1..(Len(app) + 1) /\ n \in (1 - 1)..Len(app) /\ Len(app) \in n..Len(app)
        BY <2>3, <3>1
      <4> QED
        BY <2>3, <4>1, ConcatAdjacentSubSeq DEF x, y
    <3>5. SubSeq(app, 1, Len(app)) = app
      BY <2>3, SubSeqFull
    <3> QED
      BY <3>2, <3>3, <3>4, <3>5
  <2>5. \E k, w, R : Place(requests, hf, to_upstream, x \o y, k, w, R)
    BY <2>2, <2>4 DEF Placed
  <2>6. /\ p.err = "none" =>
             p.out \in Seq(Tokens) /\ \E k, w, R : Place(requests, p.st, to_upstream \o p.out, y, k, w, R)
        /\ p.err # "none" => \E i \in DOMAIN requests : Frames(requests[i]) \in {"anomaly", "large"}
    <3>1. p = push(hf, x)
      BY DEF p
    <3> QED
      BY <2>1, <2>3, <2>4, <2>5, <3>1, PushMoves
  <2>7. CASE p.err = "none"
    <3>1. Placed(requests, p.st, to_upstream \o p.out, y)
      BY <2>6, <2>7 DEF Placed
    <3> QED
      BY <1>2, <1>3, <2>7, <3>1
  <2>8. CASE p.err # "none"
    BY <1>2, <2>2, <2>6, <2>8
  <2> QED
    BY <2>7, <2>8
<1>5. mode' \in {"forward", "refused"}
  BY <1>2, <1>3
<1>6. NoJunk(requests)' <=> NoJunk(requests)
  BY <1>3 DEF NoJunk
<1>7. /\ Placed(requests, hf, to_upstream, app)' <=> Placed(requests, hf', to_upstream', app')
      /\ (\E st, z : Placed(requests, st, to_upstream, z))' <=>
            \E st, z : Placed(requests, st, to_upstream', z)
  BY <1>3
<1> QED
  BY <1>3, <1>4, <1>5, <1>6, <1>7 DEF FInv

LEMMA FStepInv == IInv /\ FInv /\ [Next]_vars => FInv'
<1> SUFFICES ASSUME IInv, FInv, [Next]_vars
             PROVE  FInv'
  OBVIOUS
<1>1. CASE /\ mode \notin {"forward", "refused"} /\ mode' \notin {"forward", "refused"}
           /\ hf' = hf /\ to_upstream' = to_upstream
  BY <1>1 DEF FInv
<1>2. CASE Arrives \/ Closes \/ Breaks \/ drive_begins \/ Relays
  <2>1. /\ mode \in {"handshake", "tunnel"} /\ mode' \in {mode, "failed"}
        /\ hf' = hf /\ to_upstream' = to_upstream
    BY <1>2 DEF Arrives, Closes, Breaks, drive_begins, fail_proxy, Relays, driver, forward
  <2> QED
    BY <1>1, <2>1
<1>3. CASE drive_steps
  <2>1. mode = "handshake"
    BY <1>3 DEF drive_steps, IInv, Driver
  <2>2. mode' \in {"handshake", "failed", "tunnel"} /\ hf' = hf /\ to_upstream' = to_upstream
    BY <1>3, <2>1 DEF drive_steps, fail_proxy, forward
  <2> QED
    BY <1>1, <2>1, <2>2
<1>4. CASE open_forward
  BY <1>4, OpensInv
<1>5. CASE service_forward
  BY <1>5, ForwardsInv
<1>6. CASE UNCHANGED vars
  <2>1. mode' = mode /\ requests' = requests /\ hf' = hf /\ to_upstream' = to_upstream /\ app' = app
    BY <1>6 DEF vars, script, driver, forward
  <2> QED
    BY <2>1 DEF FInv, NoJunk, Placed
<1> QED
  BY <1>2, <1>3, <1>4, <1>5, <1>6 DEF Next

LEMMA FInvIsExact == FInv => ForwardExact
<1> SUFFICES ASSUME FInv, mode \in {"forward", "refused"}, NoJunk(requests)
             PROVE  /\ IsPrefix(to_upstream, Meant)
                    /\ mode = "forward" /\ app = <<>> => to_upstream = Meant
                    /\ mode = "refused" =>
                          \E i \in DOMAIN requests : Frames(requests[i]) \in {"anomaly", "large"}
                    /\ \A i \in Anomalous : Len(to_upstream) <= Len(Stream(SubSeq(requests, 1, i - 1)))
  BY DEF ForwardExact, NoJunk
<1>1. Sound(requests)
  BY RequestsAreSound DEF FInv
<1>2. Meant = Stream(Out(requests))
  BY DEF Meant, Out
<1>3. \E st, x : Placed(requests, st, to_upstream, x)
  BY DEF FInv
<1>4. PICK st, x, k, w, R : Place(requests, st, to_upstream, x, k, w, R)
  BY <1>3 DEF Placed
<1>5. /\ IsPrefix(to_upstream, Stream(Out(requests)))
      /\ \A i \in DOMAIN requests : Frames(requests[i]) = "anomaly" =>
            Len(to_upstream) <= Len(Stream(SubSeq(requests, 1, i - 1)))
  BY <1>1, <1>4, PlaceIsExact
<1>6. ASSUME mode = "forward", app = <<>>
      PROVE  to_upstream = Meant
  <2>1. \E l, v, Q : Place(requests, hf, to_upstream, <<>>, l, v, Q)
    BY <1>6 DEF FInv, Placed
  <2> QED
    BY <1>1, <1>2, <2>1, NothingHeld
<1>7. mode = "refused" => \E i \in DOMAIN requests : Frames(requests[i]) \in {"anomaly", "large"}
  BY DEF FInv
<1> QED
  BY <1>2, <1>5, <1>6, <1>7 DEF Anomalous

\* What the app sends in whatever segments reaches the proxy as it is meant: each request
\* once and in order, in absolute form, nothing of it held back; the flow fails on an
\* anomaly only, and nothing goes out of the request it is in (HttpForward::push).
THEOREM ForwardIsExact == Spec => []ForwardExact
<1>1. Init => FInv
  BY DEF Init, FInv
<1>2. IInv /\ FInv /\ [Next]_vars => FInv'
  BY FStepInv
<1>3. FInv => ForwardExact
  BY FInvIsExact
<1> QED
  BY <1>1, <1>2, <1>3, InvHolds, PTL DEF Spec

=============================================================================
