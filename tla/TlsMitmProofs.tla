--------------------------- MODULE TlsMitmProofs ---------------------------
(***************************************************************************)
(* Proofs about one TLS splice: what it takes for a refusal of the leaf is *)
(* one, and, whatever the segments of the app's plaintext and the order of *)
(* the two sides, the server gets what the app asks, byte by byte, for as  *)
(* long as the splice looks at it.                                         *)
(***************************************************************************)
EXTENDS TlsMitm, TLAPS, SequenceTheorems, WellFoundedInduction

(* Least elements and sequences *)

LEMMA Least ==
    ASSUME NEW S, S \subseteq Nat, S # {}
    PROVE  \E n \in S : \A m \in S : n <= m
<1> DEFINE less == OpToRel(<, Nat)
<1>1. IsWellFoundedOn(less, Nat)
  BY NatLessThanWellFounded
<1>2. PICK n \in S : \A m \in S : ~ (<<m, n>> \in less)
  <2> HIDE DEF less
  <2> QED
    BY <1>1, WFMin
<1>3. \A m \in S : <<m, n>> \in less <=> m < n
  BY DEF OpToRel
<1> HIDE DEF less
<1>4. \A m \in S : ~ (m < n)
  BY <1>2, <1>3
<1> QED
  BY <1>4

LEMMA MinIsLeast ==
    ASSUME NEW S, S \subseteq Nat, S # {}
    PROVE  Min(S) \in S /\ \A m \in S : Min(S) <= m
BY Least DEF Min

LEMMA Part ==
    ASSUME NEW B, NEW b \in Seq(B), NEW m \in Nat, NEW n \in Nat,
           1 <= m, m <= n + 1, n <= Len(b)
    PROVE  /\ SubSeq(b, m, n) \in Seq(B)
           /\ Len(SubSeq(b, m, n)) = n - m + 1
           /\ \A i \in 1..(n - m + 1) : SubSeq(b, m, n)[i] = b[m + i - 1]
<1>1. \A i \in m..n : b[i] \in B
  BY LenProperties
<1>2. Len(SubSeq(b, m, n)) = IF m <= n THEN n - m + 1 ELSE 0
  BY <1>1, SubSeqProperties
<1> QED
  BY <1>1, <1>2, SubSeqProperties

LEMMA Concat ==
    ASSUME NEW S, NEW s \in Seq(S), NEW t \in Seq(S)
    PROVE  s \o t \in Seq(S) /\ s \o <<>> = s /\ <<>> \o s = s /\ <<>> \in Seq(S)
BY ConcatProperties, ConcatEmptySeq

Associates(s, t, u) == (s \o t) \o u = s \o (t \o u)

LEMMA Associative ==
    ASSUME NEW S, NEW s \in Seq(S), NEW t \in Seq(S), NEW u \in Seq(S)
    PROVE  Associates(s, t, u)
BY ConcatAssociative DEF Associates

\* u is s and then t.
Spliced(S, s, t, u) ==
    /\ u \in Seq(S) /\ Len(s) \in Nat /\ Len(t) \in Nat /\ Len(u) = Len(s) + Len(t)
    /\ \A i \in 1..Len(s) : u[i] = s[i]
    /\ \A i \in 1..Len(t) : u[Len(s) + i] = t[i]

LEMMA Concatenated ==
    ASSUME NEW S, NEW s \in Seq(S), NEW t \in Seq(S)
    PROVE  Spliced(S, s, t, s \o t)
<1>0. Len(s) \in Nat /\ Len(t) \in Nat
  BY LenProperties
<1>1. /\ s \o t \in Seq(S) /\ Len(s \o t) = Len(s) + Len(t)
      /\ \A i \in 1..(Len(s) + Len(t)) : (s \o t)[i] = IF i <= Len(s) THEN s[i] ELSE t[i - Len(s)]
  BY ConcatProperties
<1>2. ASSUME NEW i \in 1..Len(s)
      PROVE  (s \o t)[i] = s[i]
  BY <1>0, <1>1
<1>3. ASSUME NEW i \in 1..Len(t)
      PROVE  (s \o t)[Len(s) + i] = t[i]
  <2>1. Len(s) + i \in 1..(Len(s) + Len(t)) /\ ~ (Len(s) + i <= Len(s)) /\ Len(s) + i - Len(s) = i
    BY <1>0
  <2> QED
    BY <1>1, <2>1
<1> QED
  BY <1>0, <1>1, <1>2, <1>3 DEF Spliced

\* What is between two places of a sequence.
Slice(x, i, j) == SubSeq(x, i + 1, j)

Slices(B, x, i, j) ==
    /\ Slice(x, i, j) \in Seq(B) /\ Len(Slice(x, i, j)) = j - i
    /\ \A p \in 1..(j - i) : Slice(x, i, j)[p] = x[i + p]

LEMMA SliceIs ==
    ASSUME NEW B, NEW x \in Seq(B), NEW j \in 0..Len(x), NEW i \in 0..j
    PROVE  Slices(B, x, i, j)
<1>0. Len(x) \in Nat /\ i \in Nat /\ j \in Nat /\ i + 1 \in Nat /\ 1 <= i + 1 /\ i + 1 <= j + 1 /\ j <= Len(x)
  BY LenProperties
<1>1. /\ SubSeq(x, i + 1, j) \in Seq(B) /\ Len(SubSeq(x, i + 1, j)) = j - (i + 1) + 1
      /\ \A p \in 1..(j - (i + 1) + 1) : SubSeq(x, i + 1, j)[p] = x[(i + 1) + p - 1]
  BY <1>0, Part
<1>2. j - (i + 1) + 1 = j - i /\ \A p \in 1..(j - i) : (i + 1) + p - 1 = i + p
  BY <1>0
<1> QED
  BY <1>1, <1>2 DEF Slices, Slice

LEMMA SlicesJoin ==
    ASSUME NEW B, NEW x \in Seq(B), NEW k \in 0..Len(x), NEW j \in 0..k, NEW i \in 0..j
    PROVE  Slice(x, i, j) \o Slice(x, j, k) = Slice(x, i, k)
<1>1. /\ Len(x) \in Nat /\ i + 1 \in 1..(Len(x) + 1) /\ j \in ((i + 1) - 1)..Len(x) /\ k \in j..Len(x)
  BY LenProperties
<1> QED
  BY <1>1, ConcatAdjacentSubSeq DEF Slice

LEMMA SliceOne ==
    ASSUME NEW B, NEW x \in Seq(B), NEW i \in 1..Len(x)
    PROVE  Slice(x, i - 1, i) = <<x[i]>>
<1>0. Len(x) \in Nat /\ i - 1 \in 0..i /\ i \in 0..Len(x) /\ x[i] \in B
  BY LenProperties
<1>1. Slices(B, x, i - 1, i)
  BY <1>0, SliceIs
<1> DEFINE t == Slice(x, i - 1, i)
           u == <<x[i]>>
<1>2. t \in Seq(B) /\ Len(t) = 1 /\ t[1] = x[i]
  <2>1. i - (i - 1) = 1 /\ i - 1 + 1 = i
    BY <1>0
  <2> QED
    BY <1>1, <2>1 DEF Slices
<1>3. u \in Seq(B) /\ Len(u) = 1 /\ u[1] = x[i]
  BY <1>0
<1> HIDE DEF t, u
<1>4. t = u
  BY <1>2, <1>3, SeqEqual
<1> QED
  BY <1>4 DEF t, u

LEMMA AppendIs ==
    ASSUME NEW B, NEW s \in Seq(B), NEW e \in B
    PROVE  Append(s, e) = s \o <<e>>
BY AppendIsConcat

LEMMA NoSlice ==
    ASSUME NEW B, NEW x \in Seq(B), NEW i \in 0..Len(x)
    PROVE  Slice(x, i, i) = <<>>
<1>1. Slices(B, x, i, i) /\ i \in Nat
  BY LenProperties, SliceIs
<1>2. Slice(x, i, i) \in Seq(B) /\ Len(Slice(x, i, i)) = 0
  BY <1>1 DEF Slices
<1> QED
  BY <1>2, EmptySeq

\* u, and behind it what x has from place i on, up to place j.
Held(u, x, i, j) == u \o Slice(x, i, j)

LEMMA HeldIs ==
    ASSUME NEW B, NEW u \in Seq(B), NEW x \in Seq(B), NEW j \in 0..Len(x), NEW i \in 0..j
    PROVE  /\ Held(u, x, i, j) \in Seq(B) /\ Len(u) \in Nat /\ Len(Held(u, x, i, j)) = Len(u) + (j - i)
           /\ \A p \in 1..Len(u) : Held(u, x, i, j)[p] = u[p]
           /\ \A p \in 1..(j - i) : Held(u, x, i, j)[Len(u) + p] = x[i + p]
<1>1. Slices(B, x, i, j)
  BY SliceIs
<1>2. Spliced(B, u, Slice(x, i, j), Held(u, x, i, j))
  BY <1>1, Concatenated DEF Held, Slices
<1> QED
  BY <1>1, <1>2 DEF Slices, Spliced

\* It grows by what comes.
LEMMA HeldGrows ==
    ASSUME NEW B, NEW u \in Seq(B), NEW x \in Seq(B), NEW k \in 0..Len(x), NEW j \in 0..k, NEW i \in 0..j
    PROVE  Held(u, x, i, j) \o Slice(x, j, k) = Held(u, x, i, k)
<1>0. i \in 0..k /\ j \in 0..Len(x)
  BY LenProperties
<1>1. Slice(x, i, j) \in Seq(B) /\ Slice(x, j, k) \in Seq(B)
  BY <1>0, SliceIs DEF Slices
<1>2. Associates(u, Slice(x, i, j), Slice(x, j, k))
  BY <1>1, Associative
<1>3. Slice(x, i, j) \o Slice(x, j, k) = Slice(x, i, k)
  BY SlicesJoin
<1> QED
  BY <1>2, <1>3 DEF Held, Associates

LEMMA HeldByOne ==
    ASSUME NEW B, NEW u \in Seq(B), NEW x \in Seq(B), NEW j \in 1..Len(x), NEW i \in 0..(j - 1)
    PROVE  Append(Held(u, x, i, j - 1), x[j]) = Held(u, x, i, j)
<1>0. Len(x) \in Nat /\ j \in 0..Len(x) /\ j - 1 \in 0..j /\ j - 1 \in 0..Len(x) /\ x[j] \in B /\ i \in 0..(j - 1)
  BY LenProperties
<1>1. Held(u, x, i, j - 1) \in Seq(B)
  BY <1>0, HeldIs
<1>2. Append(Held(u, x, i, j - 1), x[j]) = Held(u, x, i, j - 1) \o <<x[j]>>
  BY <1>0, <1>1, AppendIs
<1>3. <<x[j]>> = Slice(x, j - 1, j)
  BY SliceOne
<1>4. Held(u, x, i, j - 1) \o Slice(x, j - 1, j) = Held(u, x, i, j)
  BY <1>0, HeldGrows
<1> QED
  BY <1>2, <1>3, <1>4

\* A part that reaches as far as u at least, and what is left behind it.
LEMMA HeldCut ==
    ASSUME NEW B, NEW u \in Seq(B), NEW x \in Seq(B), NEW k \in 0..Len(x), NEW i \in 0..k,
           NEW n \in Nat, Len(u) <= n, n <= Len(u) + (k - i)
    PROVE  /\ i + (n - Len(u)) \in i..k
           /\ SubSeq(Held(u, x, i, k), 1, n) = Held(u, x, i, i + (n - Len(u)))
           /\ Behind(Held(u, x, i, k), n) = Slice(x, i + (n - Len(u)), k)
<1> DEFINE b == Held(u, x, i, k)
           j == i + (n - Len(u))
           v == Held(u, x, i, j)
           w == Slice(x, j, k)
<1>0. Len(u) \in Nat /\ Len(x) \in Nat /\ i \in Nat /\ k \in Nat /\ k <= Len(x)
  BY LenProperties
<1>1. j \in i..k /\ j \in 0..k /\ i \in 0..j /\ j \in 0..Len(x) /\ j - i = n - Len(u) /\ j \in Nat
  BY <1>0
<1> HIDE DEF j
<1>2. b = v \o w
  BY <1>1, HeldGrows
<1>3. v \in Seq(B) /\ w \in Seq(B) /\ Len(v) = n
  <2>1. Len(v) = Len(u) + (j - i) /\ v \in Seq(B)
    <3>1. j \in 0..Len(x) /\ i \in 0..j
      BY <1>1
    <3> QED
      BY <3>1, HeldIs
  <2> QED
    BY <1>0, <1>1, <2>1, SliceIs DEF Slices
<1> HIDE DEF v, w
<1>4. Spliced(B, v, w, b)
  BY <1>2, <1>3, Concatenated
<1>5. b \in Seq(B) /\ Len(b) = n + Len(w) /\ Len(w) \in Nat
  BY <1>3, <1>4 DEF Spliced
<1>6. SubSeq(b, 1, n) = v
  <2>1. /\ SubSeq(b, 1, n) \in Seq(B) /\ Len(SubSeq(b, 1, n)) = n - 1 + 1
        /\ \A p \in 1..(n - 1 + 1) : SubSeq(b, 1, n)[p] = b[1 + p - 1]
    BY <1>5, Part
  <2>2. n - 1 + 1 = n /\ \A p \in 1..n : 1 + p - 1 = p
    OBVIOUS
  <2>3. \A p \in 1..n : SubSeq(b, 1, n)[p] = v[p]
    BY <1>3, <1>4, <2>1, <2>2 DEF Spliced
  <2> QED
    BY <1>3, <2>1, <2>2, <2>3, SeqEqual
<1>7. SubSeq(b, n + 1, Len(b)) = w
  <2>1. /\ SubSeq(b, n + 1, Len(b)) \in Seq(B) /\ Len(SubSeq(b, n + 1, Len(b))) = Len(b) - (n + 1) + 1
        /\ \A p \in 1..(Len(b) - (n + 1) + 1) : SubSeq(b, n + 1, Len(b))[p] = b[(n + 1) + p - 1]
    BY <1>5, Part
  <2>2. Len(b) - (n + 1) + 1 = Len(w) /\ \A p \in 1..Len(w) : (n + 1) + p - 1 = n + p
    BY <1>5
  <2>3. \A p \in 1..Len(w) : SubSeq(b, n + 1, Len(b))[p] = w[p]
    BY <1>3, <1>4, <2>1, <2>2 DEF Spliced
  <2> QED
    BY <1>3, <2>1, <2>2, <2>3, SeqEqual
<1> QED
  BY <1>1, <1>6, <1>7 DEF b, j, v, w, Behind

\* The first place of a token.
LEMMA FirstPlace ==
    ASSUME NEW B, NEW x \in Seq(B), NEW v, NEW n, n = SelectInSeq(x, LAMBDA b : b = v)
    PROVE  \/ n = 0 /\ \A i \in 1..Len(x) : x[i] # v
           \/ n \in 1..Len(x) /\ x[n] = v /\ \A i \in 1..(n - 1) : x[i] # v
<1> DEFINE places == {i \in 1..Len(x) : x[i] = v}
<1>0. Len(x) \in Nat
  BY LenProperties
<1>1. n = IF places # {} THEN Min(places) ELSE 0
  BY DEF SelectInSeq
<1>2. CASE places = {}
  BY <1>1, <1>2
<1>3. CASE places # {}
  <2>1. places \subseteq Nat
    OBVIOUS
  <2>2. n = Min(places)
    BY <1>1, <1>3
  <2>3. n \in places /\ \A m \in places : n <= m
    <3> HIDE DEF places
    <3> QED
      BY <1>3, <2>1, <2>2, MinIsLeast
  <2>4. n \in 1..Len(x) /\ x[n] = v
    BY <2>3
  <2>5. ASSUME NEW i \in 1..(n - 1)
        PROVE  x[i] # v
    <3>1. i \in 1..Len(x) /\ ~ (n <= i)
      BY <1>0, <2>4
    <3> QED
      BY <2>3, <3>1
  <2> QED
    BY <2>4, <2>5
<1> QED
  BY <1>2, <1>3

LEMMA HeaderEnd ==
    ASSUME NEW B, NEW x \in Seq(B)
    PROVE  \/ find_header_end(x) = 0 /\ \A i \in 1..Len(x) : x[i] # "END"
           \/ /\ find_header_end(x) \in 1..Len(x) /\ x[find_header_end(x)] = "END"
              /\ \A i \in 1..(find_header_end(x) - 1) : x[i] # "END"
<1>1. find_header_end(x) = SelectInSeq(x, LAMBDA b : b = "END")
  BY DEF find_header_end
<1> QED
  BY <1>1, FirstPlace

-----------------------------------------------------------------------------
(* Recursion *)

\* One round of the loops, and of the reading byte by byte.
Round(what, s, i, c) ==
    CASE what = "asked" -> Asking(s, c, s.app[i])
      [] what = "dot" -> dot_message(c.st, c.to_upstream, c.to_app)
      [] what = "doh" -> h1_request(c.st, c.to_upstream, c.to_app)
      [] what = "request" -> drive_request_turn(c.rw, c.out)
      [] what = "response" -> IF c.more THEN step_response(c.rw, c.out) ELSE c
      [] what = "chunks" -> IF c.step = "More" THEN chunk_turn(c.framing, c.buf, c.data) ELSE c
      [] what = "flat" -> c \o s[i]

Rounds(what, s, f, a, n) ==
    /\ f = [i \in 0..n |-> f[i]] /\ f[0] = a
    /\ \A i \in 1..n : f[i] = Round(what, s, i, f[i - 1])

LEMMA RoundsExist ==
    ASSUME NEW what, NEW s, NEW a, NEW n \in Nat
    PROVE  \E f : Rounds(what, s, f, a, n)
<1> DEFINE Bad == {k \in Nat : ~ \E f : Rounds(what, s, f, a, k)}
<1>1. SUFFICES ASSUME Bad # {}
               PROVE  FALSE
  OBVIOUS
<1>2. PICK k \in Bad : \A m \in Bad : k <= m
  <2>1. Bad \subseteq Nat
    OBVIOUS
  <2> HIDE DEF Bad
  <2> QED
    BY <1>1, <2>1, Least
<1>3. CASE k = 0
  <2> DEFINE f == [i \in 0..0 |-> a]
  <2>1. Rounds(what, s, f, a, 0)
    BY DEF Rounds
  <2> QED
    BY <1>2, <1>3, <2>1
<1>4. CASE k # 0
  <2>1. k - 1 \in Nat /\ ~ (k <= k - 1) /\ k \in Nat
    BY <1>2, <1>4
  <2>2. PICK f : Rounds(what, s, f, a, k - 1)
    BY <1>2, <2>1
  <2> DEFINE h == [i \in 0..k |-> IF i = k THEN Round(what, s, k, f[k - 1]) ELSE f[i]]
  <2>3. h = [i \in 0..k |-> h[i]]
    OBVIOUS
  <2>4. h[0] = a
    BY <1>4, <2>1, <2>2 DEF Rounds
  <2>5. ASSUME NEW i \in 1..k
        PROVE  h[i] = Round(what, s, i, h[i - 1])
    <3>1. i \in 0..k /\ i - 1 \in 0..k /\ i - 1 # k
      BY <2>1
    <3>2. h[i - 1] = f[i - 1]
      BY <3>1
    <3>3. CASE i = k
      BY <3>1, <3>2, <3>3
    <3>4. CASE i # k
      <4>1. i \in 1..(k - 1)
        BY <2>1, <3>4
      <4>2. f[i] = Round(what, s, i, f[i - 1])
        BY <2>2, <4>1 DEF Rounds
      <4> QED
        BY <3>1, <3>2, <3>4, <4>2
    <3> QED
      BY <3>3, <3>4
  <2> HIDE DEF h
  <2>6. Rounds(what, s, h, a, k)
    BY <2>3, <2>4, <2>5 DEF Rounds
  <2> QED
    BY <1>2, <2>6
<1> QED
  BY <1>3, <1>4

LEMMA AskedIs ==
    ASSUME NEW s, Len(s.app) \in Nat
    PROVE  Rounds("asked", s, Asked(s), NothingAsked, Len(s.app))
<1> DEFINE n == Len(s.app)
           asked == CHOOSE f : f = [i \in 0..n |->
                        IF i = 0 THEN NothingAsked ELSE Asking(s, f[i - 1], s.app[i])]
<1>1. Asked(s) = asked
  BY DEF Asked
<1>2. PICK f : Rounds("asked", s, f, NothingAsked, n)
  <2> HIDE DEF n
  <2>1. n \in Nat
    BY DEF n
  <2> QED
    BY <2>1, RoundsExist
<1> HIDE DEF n
<1>3. f = [i \in 0..n |-> IF i = 0 THEN NothingAsked ELSE Asking(s, f[i - 1], s.app[i])]
  <2>1. ASSUME NEW i \in 0..n
        PROVE  f[i] = IF i = 0 THEN NothingAsked ELSE Asking(s, f[i - 1], s.app[i])
    <3>1. CASE i = 0
      BY <1>2, <3>1 DEF Rounds
    <3>2. CASE i # 0
      <4>1. i \in 1..n
        BY <3>2
      <4>2. f[i] = Round("asked", s, i, f[i - 1])
        BY <1>2, <4>1 DEF Rounds
      <4> QED
        BY <3>2, <4>2 DEF Round
    <3> QED
      BY <3>1, <3>2
  <2>2. f = [i \in 0..n |-> f[i]]
    BY <1>2 DEF Rounds
  <2>3. [i \in 0..n |-> f[i]] = [i \in 0..n |-> IF i = 0 THEN NothingAsked ELSE Asking(s, f[i - 1], s.app[i])]
    BY <2>1
  <2> QED
    BY <2>2, <2>3
<1>4. asked = [i \in 0..n |-> IF i = 0 THEN NothingAsked ELSE Asking(s, asked[i - 1], s.app[i])]
  BY <1>3
<1> HIDE DEF asked
<1>5. n \in Nat
  BY DEF n
<1>6. asked[0] = NothingAsked
  BY <1>4, <1>5
<1>7. ASSUME NEW i \in 1..n
      PROVE  asked[i] = Round("asked", s, i, asked[i - 1])
  <2>1. i \in 0..n /\ i # 0
    BY <1>5
  <2>2. asked[i] = Asking(s, asked[i - 1], s.app[i])
    BY <1>4, <2>1
  <2> QED
    BY <2>2 DEF Round
<1>8. asked = [i \in 0..n |-> asked[i]]
  BY <1>4
<1> QED
  BY <1>1, <1>6, <1>7, <1>8 DEF Rounds, n

LEMMA DotRounds ==
    ASSUME NEW st, Len(st.app_buf) \in Nat
    PROVE  \E f : /\ Rounds("dot", <<>>, f, Cross(st, <<>>, <<>>), Len(st.app_buf))
                  /\ dot_messages(st) = f[Len(st.app_buf)]
<1> DEFINE n == Len(st.app_buf)
           a == Cross(st, <<>>, <<>>)
           turns == CHOOSE f : f = [i \in 0..n |->
                        IF i = 0 THEN a ELSE dot_message(f[i - 1].st, f[i - 1].to_upstream, f[i - 1].to_app)]
<1>1. dot_messages(st) = turns[n]
  BY DEF dot_messages
<1>2. PICK f : Rounds("dot", <<>>, f, a, n)
  <2> HIDE DEF n, a
  <2>1. n \in Nat
    BY DEF n
  <2> QED
    BY <2>1, RoundsExist
<1> HIDE DEF n, a
<1>3. f = [i \in 0..n |-> IF i = 0 THEN a ELSE dot_message(f[i - 1].st, f[i - 1].to_upstream, f[i - 1].to_app)]
  <2>1. ASSUME NEW i \in 0..n
        PROVE  f[i] = IF i = 0 THEN a ELSE dot_message(f[i - 1].st, f[i - 1].to_upstream, f[i - 1].to_app)
    <3>1. CASE i = 0
      BY <1>2, <3>1 DEF Rounds
    <3>2. CASE i # 0
      <4>1. i \in 1..n
        BY <3>2
      <4>2. f[i] = Round("dot", <<>>, i, f[i - 1])
        BY <1>2, <4>1 DEF Rounds
      <4> QED
        BY <3>2, <4>2 DEF Round
    <3> QED
      BY <3>1, <3>2
  <2>2. f = [i \in 0..n |-> f[i]]
    BY <1>2 DEF Rounds
  <2>3. [i \in 0..n |-> f[i]] = [i \in 0..n |->
            IF i = 0 THEN a ELSE dot_message(f[i - 1].st, f[i - 1].to_upstream, f[i - 1].to_app)]
    BY <2>1
  <2> QED
    BY <2>2, <2>3
<1>4. turns = [i \in 0..n |-> IF i = 0 THEN a ELSE dot_message(turns[i - 1].st, turns[i - 1].to_upstream, turns[i - 1].to_app)]
  BY <1>3
<1> HIDE DEF turns
<1>5. n \in Nat
  BY DEF n
<1>6. turns[0] = a
  BY <1>4, <1>5
<1>7. ASSUME NEW i \in 1..n
      PROVE  turns[i] = Round("dot", <<>>, i, turns[i - 1])
  <2>1. i \in 0..n /\ i # 0
    BY <1>5
  <2>2. turns[i] = dot_message(turns[i - 1].st, turns[i - 1].to_upstream, turns[i - 1].to_app)
    BY <1>4, <2>1
  <2> QED
    BY <2>2 DEF Round
<1>8. turns = [i \in 0..n |-> turns[i]]
  BY <1>4
<1>9. Rounds("dot", <<>>, turns, a, n)
  BY <1>6, <1>7, <1>8 DEF Rounds
<1> QED
  BY <1>1, <1>9 DEF n, a

LEMMA DohRounds ==
    ASSUME NEW st, Len(st.app_buf) \in Nat
    PROVE  \E f : /\ Rounds("doh", <<>>, f, Cross(st, <<>>, <<>>), Len(st.app_buf))
                  /\ h1_requests(st) = f[Len(st.app_buf)]
<1> DEFINE n == Len(st.app_buf)
           a == Cross(st, <<>>, <<>>)
           turns == CHOOSE f : f = [i \in 0..n |->
                        IF i = 0 THEN a ELSE h1_request(f[i - 1].st, f[i - 1].to_upstream, f[i - 1].to_app)]
<1>1. h1_requests(st) = turns[n]
  BY DEF h1_requests
<1>2. PICK f : Rounds("doh", <<>>, f, a, n)
  <2> HIDE DEF n, a
  <2>1. n \in Nat
    BY DEF n
  <2> QED
    BY <2>1, RoundsExist
<1> HIDE DEF n, a
<1>3. f = [i \in 0..n |-> IF i = 0 THEN a ELSE h1_request(f[i - 1].st, f[i - 1].to_upstream, f[i - 1].to_app)]
  <2>1. ASSUME NEW i \in 0..n
        PROVE  f[i] = IF i = 0 THEN a ELSE h1_request(f[i - 1].st, f[i - 1].to_upstream, f[i - 1].to_app)
    <3>1. CASE i = 0
      BY <1>2, <3>1 DEF Rounds
    <3>2. CASE i # 0
      <4>1. i \in 1..n
        BY <3>2
      <4>2. f[i] = Round("doh", <<>>, i, f[i - 1])
        BY <1>2, <4>1 DEF Rounds
      <4> QED
        BY <3>2, <4>2 DEF Round
    <3> QED
      BY <3>1, <3>2
  <2>2. f = [i \in 0..n |-> f[i]]
    BY <1>2 DEF Rounds
  <2>3. [i \in 0..n |-> f[i]] = [i \in 0..n |->
            IF i = 0 THEN a ELSE h1_request(f[i - 1].st, f[i - 1].to_upstream, f[i - 1].to_app)]
    BY <2>1
  <2> QED
    BY <2>2, <2>3
<1>4. turns = [i \in 0..n |-> IF i = 0 THEN a ELSE h1_request(turns[i - 1].st, turns[i - 1].to_upstream, turns[i - 1].to_app)]
  BY <1>3
<1> HIDE DEF turns
<1>5. n \in Nat
  BY DEF n
<1>6. turns[0] = a
  BY <1>4, <1>5
<1>7. ASSUME NEW i \in 1..n
      PROVE  turns[i] = Round("doh", <<>>, i, turns[i - 1])
  <2>1. i \in 0..n /\ i # 0
    BY <1>5
  <2>2. turns[i] = h1_request(turns[i - 1].st, turns[i - 1].to_upstream, turns[i - 1].to_app)
    BY <1>4, <2>1
  <2> QED
    BY <2>2 DEF Round
<1>8. turns = [i \in 0..n |-> turns[i]]
  BY <1>4
<1>9. Rounds("doh", <<>>, turns, a, n)
  BY <1>6, <1>7, <1>8 DEF Rounds
<1> QED
  BY <1>1, <1>9 DEF n, a

LEMMA RequestRounds ==
    ASSUME NEW rw, Len(rw.req_buf) \in Nat
    PROVE  \E f : /\ Rounds("request", <<>>, f, Out(rw, <<>>), Len(rw.req_buf) + 1)
                  /\ drive_request(rw) = f[Len(rw.req_buf) + 1]
<1> DEFINE n == Len(rw.req_buf) + 1
           a == Out(rw, <<>>)
           turns == CHOOSE f : f = [i \in 0..n |->
                        IF i = 0 THEN a ELSE drive_request_turn(f[i - 1].rw, f[i - 1].out)]
<1>1. drive_request(rw) = turns[n]
  BY DEF drive_request
<1>2. PICK f : Rounds("request", <<>>, f, a, n)
  <2>1. n \in Nat
    BY DEF n
  <2> HIDE DEF n, a
  <2> QED
    BY <2>1, RoundsExist
<1>0. n \in Nat
  OBVIOUS
<1> HIDE DEF n, a
<1>3. f = [i \in 0..n |-> IF i = 0 THEN a ELSE drive_request_turn(f[i - 1].rw, f[i - 1].out)]
  <2>1. ASSUME NEW i \in 0..n
        PROVE  f[i] = IF i = 0 THEN a ELSE drive_request_turn(f[i - 1].rw, f[i - 1].out)
    <3>1. CASE i = 0
      BY <1>2, <3>1 DEF Rounds
    <3>2. CASE i # 0
      <4>1. i \in 1..n
        BY <3>2
      <4>2. f[i] = Round("request", <<>>, i, f[i - 1])
        BY <1>2, <4>1 DEF Rounds
      <4> QED
        BY <3>2, <4>2 DEF Round
    <3> QED
      BY <3>1, <3>2
  <2>2. f = [i \in 0..n |-> f[i]]
    BY <1>2 DEF Rounds
  <2>3. [i \in 0..n |-> f[i]] = [i \in 0..n |->
            IF i = 0 THEN a ELSE drive_request_turn(f[i - 1].rw, f[i - 1].out)]
    BY <2>1
  <2> QED
    BY <2>2, <2>3
<1>4. turns = [i \in 0..n |-> IF i = 0 THEN a ELSE drive_request_turn(turns[i - 1].rw, turns[i - 1].out)]
  BY <1>3
<1> HIDE DEF turns
<1>5. n \in Nat
  BY <1>0
<1>6. turns[0] = a
  BY <1>4, <1>5
<1>7. ASSUME NEW i \in 1..n
      PROVE  turns[i] = Round("request", <<>>, i, turns[i - 1])
  <2>1. i \in 0..n /\ i # 0
    BY <1>5
  <2>2. turns[i] = drive_request_turn(turns[i - 1].rw, turns[i - 1].out)
    BY <1>4, <2>1
  <2> QED
    BY <2>2 DEF Round
<1>8. turns = [i \in 0..n |-> turns[i]]
  BY <1>4
<1>9. Rounds("request", <<>>, turns, a, n)
  BY <1>6, <1>7, <1>8 DEF Rounds
<1> QED
  BY <1>1, <1>9 DEF n, a

LEMMA ResponseRounds ==
    ASSUME NEW rw, Len(rw.resp_buf) \in Nat
    PROVE  \E f : /\ Rounds("response", <<>>, f, Step(TRUE, rw, <<>>), Len(rw.resp_buf) + 1)
                  /\ drive_response(rw) = Out(f[Len(rw.resp_buf) + 1].rw, f[Len(rw.resp_buf) + 1].out)
<1> DEFINE n == Len(rw.resp_buf) + 1
           a == Step(TRUE, rw, <<>>)
           turns == CHOOSE f : f = [i \in 0..n |->
                        IF i = 0 THEN a ELSE (IF f[i - 1].more THEN step_response(f[i - 1].rw, f[i - 1].out) ELSE f[i - 1])]
<1>1. drive_response(rw) = Out(turns[n].rw, turns[n].out)
  BY DEF drive_response, Out
<1>2. PICK f : Rounds("response", <<>>, f, a, n)
  <2>1. n \in Nat
    BY DEF n
  <2> HIDE DEF n, a
  <2> QED
    BY <2>1, RoundsExist
<1>0. n \in Nat
  OBVIOUS
<1> HIDE DEF n, a
<1>3. f = [i \in 0..n |-> IF i = 0 THEN a ELSE (IF f[i - 1].more THEN step_response(f[i - 1].rw, f[i - 1].out) ELSE f[i - 1])]
  <2>1. ASSUME NEW i \in 0..n
        PROVE  f[i] = IF i = 0 THEN a ELSE (IF f[i - 1].more THEN step_response(f[i - 1].rw, f[i - 1].out) ELSE f[i - 1])
    <3>1. CASE i = 0
      BY <1>2, <3>1 DEF Rounds
    <3>2. CASE i # 0
      <4>1. i \in 1..n
        BY <3>2
      <4>2. f[i] = Round("response", <<>>, i, f[i - 1])
        BY <1>2, <4>1 DEF Rounds
      <4> QED
        BY <3>2, <4>2 DEF Round
    <3> QED
      BY <3>1, <3>2
  <2>2. f = [i \in 0..n |-> f[i]]
    BY <1>2 DEF Rounds
  <2>3. [i \in 0..n |-> f[i]] = [i \in 0..n |->
            IF i = 0 THEN a ELSE (IF f[i - 1].more THEN step_response(f[i - 1].rw, f[i - 1].out) ELSE f[i - 1])]
    BY <2>1
  <2> QED
    BY <2>2, <2>3
<1>4. turns = [i \in 0..n |-> IF i = 0 THEN a ELSE (IF turns[i - 1].more THEN step_response(turns[i - 1].rw, turns[i - 1].out) ELSE turns[i - 1])]
  BY <1>3
<1> HIDE DEF turns
<1>5. n \in Nat
  BY <1>0
<1>6. turns[0] = a
  BY <1>4, <1>5
<1>7. ASSUME NEW i \in 1..n
      PROVE  turns[i] = Round("response", <<>>, i, turns[i - 1])
  <2>1. i \in 0..n /\ i # 0
    BY <1>5
  <2>2. turns[i] = (IF turns[i - 1].more THEN step_response(turns[i - 1].rw, turns[i - 1].out) ELSE turns[i - 1])
    BY <1>4, <2>1
  <2> QED
    BY <2>2 DEF Round
<1>8. turns = [i \in 0..n |-> turns[i]]
  BY <1>4
<1>9. Rounds("response", <<>>, turns, a, n)
  BY <1>6, <1>7, <1>8 DEF Rounds
<1> QED
  BY <1>1, <1>9 DEF n, a

LEMMA FlattenIs ==
    ASSUME NEW S, NEW ss \in Seq(Seq(S)), NEW P,
           P[0] = <<>>, \A k \in 0..Len(ss) : P[k] \in Seq(S),
           \A k \in 1..Len(ss) : P[k] = P[k - 1] \o ss[k]
    PROVE  FlattenSeq(ss) = P[Len(ss)]
<1>0. Len(ss) \in Nat
  BY LenProperties
<1>1. CASE Len(ss) = 0
  BY <1>1, LenProperties, EmptySeq DEF FlattenSeq
<1>2. CASE Len(ss) # 0
  <2> DEFINE n == Len(ss)
             F(f) == f = [i \in 1..n |-> IF i = 1 THEN ss[i] ELSE f[i - 1] \o ss[i]]
             p == [i \in 1..n |-> P[i]]
             flatten == CHOOSE f : F(f)
  <2>1. FlattenSeq(ss) = flatten[n]
    BY <1>2 DEF FlattenSeq
  <2>2. n \in Nat /\ n >= 1 /\ \A i \in 1..n : ss[i] \in Seq(S)
    BY <1>0, <1>2, LenProperties
  <2>3. F(p)
    <3>1. ASSUME NEW i \in 1..n
          PROVE  P[i] = IF i = 1 THEN ss[i] ELSE p[i - 1] \o ss[i]
      <4>1. CASE i = 1
        <5>1. 1 \in 1..n /\ i - 1 = 0
          BY <2>2, <4>1
        <5>2. ss[1] \in Seq(S)
          BY <2>2, <5>1
        <5>3. <<>> \o ss[1] = ss[1]
          BY <5>2, Concat
        <5>4. P[1] = P[1 - 1] \o ss[1]
          BY <5>1
        <5>5. P[1 - 1] = <<>>
          BY <4>1, <5>1
        <5> QED
          BY <4>1, <5>3, <5>4, <5>5
      <4>2. CASE i # 1
        <5>1. i - 1 \in 1..n
          BY <2>2, <4>2
        <5>2. p[i - 1] = P[i - 1]
          BY <5>1
        <5> QED
          BY <4>2, <5>2
      <4> QED
        BY <4>1, <4>2
    <3>2. p = [i \in 1..n |-> P[i]]
      OBVIOUS
    <3> HIDE DEF p
    <3>3. [i \in 1..n |-> P[i]] = [i \in 1..n |-> IF i = 1 THEN ss[i] ELSE p[i - 1] \o ss[i]]
      BY <3>1
    <3> QED
      BY <3>2, <3>3
  <2>4. F(flatten)
    <3> HIDE DEF p, F
    <3> QED
      BY <2>3
  <2> HIDE DEF flatten
  <2>5. ASSUME NEW i \in 1..n
        PROVE  flatten[i] = IF i = 1 THEN ss[i] ELSE flatten[i - 1] \o ss[i]
    BY <2>4
  <2>6. ASSUME NEW i \in 1..n
        PROVE  P[i] = IF i = 1 THEN ss[i] ELSE P[i - 1] \o ss[i]
    <3>1. P[i] = IF i = 1 THEN ss[i] ELSE p[i - 1] \o ss[i]
      <4>1. p[i] = IF i = 1 THEN ss[i] ELSE p[i - 1] \o ss[i]
        <5> HIDE DEF p
        <5> QED
          BY <2>3
      <4> QED
        BY <4>1
    <3>2. i # 1 => i - 1 \in 1..n
      BY <2>2
    <3> QED
      BY <3>1, <3>2
  <2> DEFINE Bad == {i \in 1..n : flatten[i] # P[i]}
  <2> HIDE DEF F, p
  <2>7. Bad = {}
    <3> SUFFICES ASSUME Bad # {}
                 PROVE  FALSE
      OBVIOUS
    <3>1. PICK i \in Bad : \A m \in Bad : i <= m
      <4>1. Bad \subseteq Nat
        OBVIOUS
      <4> HIDE DEF Bad
      <4> QED
        BY <4>1, Least
    <3>2. i \in 1..n /\ flatten[i] # P[i]
      BY <3>1
    <3>3. i # 1
      BY <2>5, <2>6, <3>2
    <3>4. i - 1 \in 1..n /\ ~ (i <= i - 1)
      BY <3>2, <3>3
    <3>5. flatten[i - 1] = P[i - 1]
      BY <3>1, <3>4
    <3> QED
      BY <2>5, <2>6, <3>2, <3>3, <3>5
  <2> QED
    BY <2>1, <2>2, <2>7
<1> QED
  BY <1>1, <1>2

LEMMA PartsExist ==
    ASSUME NEW S, NEW ss \in Seq(Seq(S))
    PROVE  \E P : /\ P[0] = <<>> /\ \A k \in 0..Len(ss) : P[k] \in Seq(S)
                  /\ \A k \in 1..Len(ss) : P[k] = P[k - 1] \o ss[k]
<1> DEFINE n == Len(ss)
<1>0. n \in Nat /\ \A i \in 1..n : ss[i] \in Seq(S)
  BY LenProperties
<1>1. PICK P : Rounds("flat", ss, P, <<>>, n)
  <2> HIDE DEF n
  <2> QED
    BY <1>0, RoundsExist
<1> HIDE DEF n
<1>2. ASSUME NEW k \in 1..n
      PROVE  P[k] = P[k - 1] \o ss[k]
  <2>1. P[k] = Round("flat", ss, k, P[k - 1])
    BY <1>1 DEF Rounds
  <2> QED
    BY <2>1 DEF Round
<1> DEFINE Bad == {k \in 0..n : P[k] \notin Seq(S)}
<1>3. Bad = {}
  <2> SUFFICES ASSUME Bad # {}
               PROVE  FALSE
    OBVIOUS
  <2>1. PICK k \in Bad : \A m \in Bad : k <= m
    <3>1. Bad \subseteq Nat
      OBVIOUS
    <3> HIDE DEF Bad
    <3> QED
      BY <3>1, Least
  <2>2. k \in 0..n /\ P[k] \notin Seq(S)
    BY <2>1
  <2>3. P[0] \in Seq(S)
    <3>1. P[0] = <<>>
      BY <1>1 DEF Rounds
    <3> QED
      BY <3>1, EmptySeq
  <2>4. k # 0
    BY <2>2, <2>3
  <2>5. k \in 1..n /\ k - 1 \in 0..n /\ ~ (k <= k - 1)
    BY <1>0, <2>2, <2>4
  <2>6. P[k - 1] \in Seq(S)
    BY <2>1, <2>5
  <2>7. P[k - 1] \o ss[k] \in Seq(S)
    BY <1>0, <2>5, <2>6, Concat
  <2> QED
    BY <1>2, <2>2, <2>5, <2>7
<1>4. P[0] = <<>>
  BY <1>1 DEF Rounds
<1> QED
  BY <1>2, <1>3, <1>4 DEF n

LEMMA FlattenTyped ==
    ASSUME NEW S, NEW ss \in Seq(Seq(S))
    PROVE  FlattenSeq(ss) \in Seq(S)
<1>1. PICK P : /\ P[0] = <<>> /\ \A k \in 0..Len(ss) : P[k] \in Seq(S)
               /\ \A k \in 1..Len(ss) : P[k] = P[k - 1] \o ss[k]
  BY PartsExist
<1>2. FlattenSeq(ss) = P[Len(ss)]
  BY <1>1, FlattenIs
<1>3. Len(ss) \in 0..Len(ss)
  BY LenProperties
<1> QED
  BY <1>1, <1>2, <1>3

-----------------------------------------------------------------------------
(* What is asked *)

Bytes(s) == {s.app[i] : i \in 1..Len(s.app)} \cup {"identity", "END"}

LEMMA AppIs ==
    ASSUME NEW s \in Scripts
    PROVE  /\ Len(s.app) \in Nat /\ s.app \in Seq(Bytes(s))
           /\ s.kind \in {"http", "dot", "doh"} /\ s.payload \in BOOLEAN
           /\ s.sni \in BOOLEAN /\ s.trusts \in BOOLEAN
<1>1. /\ Len(s.app) \in Nat /\ s.app = [i \in 1..Len(s.app) |-> s.app[i]]
      /\ s.kind \in {"http", "dot", "doh"} /\ s.payload \in BOOLEAN
      /\ s.sni \in BOOLEAN /\ s.trusts \in BOOLEAN
  BY ScriptAssumption DEF IsSequence
<1> DEFINE x == s.app
           n == Len(s.app)
           B == Bytes(s)
<1>2. \A i \in 1..n : x[i] \in B
  BY DEF Bytes
<1>3. x = [i \in 1..n |-> x[i]] /\ n \in Nat
  BY <1>1
<1> HIDE DEF x, n, B
<1>4. [i \in 1..n |-> x[i]] \in Seq(B)
  BY <1>2, <1>3
<1> QED
  BY <1>1, <1>3, <1>4 DEF x, n, B

LEMMA Greatest ==
    ASSUME NEW S, S \subseteq Numbers, S # {}
    PROVE  Max(S) \in S
<1> DEFINE T == {k \in 0..12 : 12 - k \in S}
<1>1. T \subseteq Nat /\ T # {}
  <2>1. PICK s \in S : TRUE
    OBVIOUS
  <2>2. s \in 0..12
    BY DEF Numbers
  <2>3. 12 - s \in 0..12 /\ 12 - (12 - s) = s
    BY <2>2
  <2>4. 12 - s \in T
    BY <2>1, <2>3
  <2>5. T \subseteq Nat
    OBVIOUS
  <2> HIDE DEF T
  <2> QED
    BY <2>4, <2>5
<1>2. PICK k \in T : \A m \in T : k <= m
  <2> HIDE DEF T
  <2> QED
    BY <1>1, Least
<1>3. 12 - k \in S /\ k \in 0..12
  BY <1>2
<1>4. ASSUME NEW m \in S
      PROVE  12 - k >= m
  <2>1. m \in 0..12
    BY DEF Numbers
  <2>2. 12 - m \in 0..12 /\ 12 - (12 - m) = m
    BY <2>1
  <2>3. 12 - m \in T
    BY <1>4, <2>2
  <2>4. k <= 12 - m
    BY <1>2, <2>3
  <2> QED
    BY <1>3, <2>1, <2>4
<1>5. \E x \in S : \A y \in S : x >= y
  BY <1>3, <1>4
<1> QED
  BY <1>5 DEF Max

LEMMA FramingIs ==
    ASSUME NEW headers
    PROVE  request_framing(headers).n \in Nat
<1> DEFINE cl == content_length(headers)
<1>1. cl = -1 \/ cl \in Numbers
  <2> DEFINE n == {k \in Numbers : header(headers, Lengths) # <<>> /\ length(k) = header(headers, Lengths)[1]}
  <2>1. cl = IF n = {} THEN -1 ELSE Max(n)
    BY DEF content_length
  <2>2. n \subseteq Numbers
    OBVIOUS
  <2> HIDE DEF n, cl
  <2> QED
    BY <2>1, <2>2, Greatest
<1>2. cl > 0 => cl \in Nat
  BY <1>1 DEF Numbers
<1>3. request_framing(headers) =
          IF is_chunked(headers) THEN Chunked ELSE IF cl > 0 THEN Framing("Length", cl) ELSE NoBody
  BY DEF request_framing
<1> HIDE DEF cl
<1> QED
  BY <1>2, <1>3 DEF Chunked, NoBody, Framing

\* How long the message at the front is: 0 until that can be said.
Total(kind, b) ==
    IF kind = "dot" THEN IF Len(b) < 2 THEN 0 ELSE dot_total(b)
    ELSE IF find_header_end(b) = 0 THEN 0
    ELSE find_header_end(b) + request_framing(SubSeq(b, 1, find_header_end(b) - 1)).n

\* Its question, if it is answered here.
Hit(kind, b) ==
    IF kind = "dot" THEN block_wire(SubSeq(b, 3, Len(b)))
    ELSE hit_of(extract_query(SubSeq(b, 1, find_header_end(b) - 1),
                              SubSeq(b, find_header_end(b) + 1, Len(b))))

Whole(kind, b) == Total(kind, b) > 0 /\ Len(b) = Total(kind, b)

\* Over DoT it is led by two octets.
Led(kind, b) == kind = "dot" => \A i \in 1..Len(b) : i <= 2 => b[i] \in Octets

LEMMA TotalIs ==
    ASSUME NEW B, NEW b \in Seq(B), NEW kind, Led(kind, b)
    PROVE  /\ Total(kind, b) \in Nat
           /\ kind = "dot" /\ Len(b) >= 2 => Total(kind, b) >= 2
<1>0. Len(b) \in Nat
  BY LenProperties
<1>1. CASE kind = "dot"
  <2>1. CASE Len(b) < 2
    BY <1>0, <1>1, <2>1 DEF Total
  <2>2. CASE ~ (Len(b) < 2)
    <3>1. b[1] \in Octets /\ b[2] \in Octets
      BY <1>0, <1>1, <2>2 DEF Led
    <3>2. number(b[1]) \in Numbers /\ number(b[2]) \in Numbers
      BY <3>1 DEF Octets, number
    <3>3. number(b[1]) \in Nat /\ number(b[2]) \in Nat
      BY <3>2 DEF Numbers
    <3>4. dot_total(b) \in Nat /\ dot_total(b) >= 2
      BY <3>3 DEF dot_total
    <3> QED
      BY <1>1, <2>2, <3>4 DEF Total
  <2> QED
    BY <2>1, <2>2
<1>2. CASE kind # "dot"
  <2>1. find_header_end(b) \in Nat
    BY <1>0, HeaderEnd
  <2>2. request_framing(SubSeq(b, 1, find_header_end(b) - 1)).n \in Nat
    BY FramingIs
  <2> QED
    BY <1>2, <2>1, <2>2 DEF Total
<1> QED
  BY <1>1, <1>2

\* A part of a buffer from its front says as much of its length, when it says it.
LEMMA TotalOfPart ==
    ASSUME NEW B, NEW b \in Seq(B), NEW kind \in {"dot", "doh"}, Led(kind, b), NEW n \in 0..Len(b)
    PROVE  /\ Led(kind, SubSeq(b, 1, n)) /\ Total(kind, SubSeq(b, 1, n)) \in {0, Total(kind, b)}
           /\ n >= Total(kind, b) => Total(kind, SubSeq(b, 1, n)) = Total(kind, b)
<1> DEFINE u == SubSeq(b, 1, n)
<1>0. Len(b) \in Nat /\ n \in Nat /\ n <= Len(b)
  BY LenProperties
<1>1. u \in Seq(B) /\ Len(u) = n /\ \A i \in 1..n : u[i] = b[i]
  <2>1. /\ SubSeq(b, 1, n) \in Seq(B) /\ Len(SubSeq(b, 1, n)) = n - 1 + 1
        /\ \A i \in 1..(n - 1 + 1) : SubSeq(b, 1, n)[i] = b[1 + i - 1]
    BY <1>0, Part
  <2>2. n - 1 + 1 = n /\ \A i \in 1..n : 1 + i - 1 = i
    BY <1>0
  <2> QED
    BY <2>1, <2>2
<1> HIDE DEF u
<1>2. Led(kind, u)
  BY <1>0, <1>1 DEF Led
<1>3. Total(kind, b) \in Nat
  BY TotalIs
<1>4. CASE kind = "dot"
  <2>1. CASE n < 2
    <3>1. Total(kind, u) = 0
      BY <1>1, <1>4, <2>1 DEF Total
    <3>2. Total(kind, b) = 0 \/ Total(kind, b) >= 2
      BY <1>0, <1>4, TotalIs DEF Total
    <3>3. n >= Total(kind, b) => Total(kind, b) = 0
      BY <1>0, <1>3, <2>1, <3>2
    <3> QED
      BY <1>2, <3>1, <3>3 DEF u
  <2>2. CASE ~ (n < 2)
    <3>1. u[1] = b[1] /\ u[2] = b[2] /\ ~ (Len(b) < 2) /\ ~ (Len(u) < 2)
      BY <1>0, <1>1, <2>2
    <3>2. dot_total(u) = dot_total(b)
      BY <3>1 DEF dot_total
    <3>3. Total(kind, u) = Total(kind, b)
      BY <1>4, <3>1, <3>2 DEF Total
    <3> QED
      BY <1>2, <3>3 DEF u
  <2> QED
    BY <2>1, <2>2
<1>5. CASE kind = "doh"
  <2> DEFINE e == find_header_end(b)
             d == find_header_end(u)
  <2>1. \/ e = 0 /\ \A i \in 1..Len(b) : b[i] # "END"
        \/ e \in 1..Len(b) /\ b[e] = "END" /\ \A i \in 1..(e - 1) : b[i] # "END"
    BY HeaderEnd
  <2>2. \/ d = 0 /\ \A i \in 1..Len(u) : u[i] # "END"
        \/ d \in 1..Len(u) /\ u[d] = "END" /\ \A i \in 1..(d - 1) : u[i] # "END"
    BY <1>1, HeaderEnd
  <2>3. Total(kind, b) = IF e = 0 THEN 0 ELSE e + request_framing(SubSeq(b, 1, e - 1)).n
    BY <1>5 DEF Total
  <2>4. Total(kind, u) = IF d = 0 THEN 0 ELSE d + request_framing(SubSeq(u, 1, d - 1)).n
    BY <1>5 DEF Total
  <2>5. request_framing(SubSeq(b, 1, e - 1)).n \in Nat
    BY FramingIs
  <2> HIDE DEF e, d
  <2>6. CASE d = 0
    <3>1. n >= Total(kind, b) => e = 0
      <4> SUFFICES ASSUME n >= Total(kind, b), e # 0
                   PROVE  FALSE
        OBVIOUS
      <4>1. e \in 1..n /\ b[e] = "END"
        BY <1>0, <2>1, <2>3, <2>5
      <4>2. u[e] # "END" /\ u[e] = b[e]
        BY <1>1, <2>2, <2>6, <4>1
      <4> QED
        BY <4>1, <4>2
    <3>2. Total(kind, u) = 0
      BY <2>4, <2>6
    <3>3. e = 0 => Total(kind, b) = 0
      BY <2>3
    <3> QED
      BY <1>2, <3>1, <3>2, <3>3 DEF u
  <2>7. CASE d # 0
    <3>1. d \in 1..n /\ d \in 1..Len(b) /\ b[d] = "END" /\ d \in Nat
      BY <1>0, <1>1, <2>2, <2>7
    <3>2. e \in 1..Len(b) /\ b[e] = "END"
      BY <2>1, <3>1
    <3>3. e = d
      <4>1. ~ (d < e)
        <5> SUFFICES ASSUME d < e
                     PROVE  FALSE
          OBVIOUS
        <5>1. d \in 1..(e - 1)
          BY <3>1, <3>2
        <5> QED
          BY <2>1, <3>1, <3>2, <5>1
      <4>2. ~ (e < d)
        <5> SUFFICES ASSUME e < d
                     PROVE  FALSE
          OBVIOUS
        <5>1. e \in 1..(d - 1) /\ e \in 1..n
          BY <1>0, <3>1, <3>2
        <5>2. u[e] = "END"
          BY <1>1, <3>2, <5>1
        <5> QED
          BY <2>2, <2>7, <5>1, <5>2
      <4> QED
        BY <3>1, <3>2, <4>1, <4>2
    <3>4. SubSeq(u, 1, d - 1) = SubSeq(b, 1, d - 1)
      <4> DEFINE v == SubSeq(u, 1, d - 1)
                 w == SubSeq(b, 1, d - 1)
      <4>0. d - 1 \in Nat /\ 1 <= (d - 1) + 1 /\ d - 1 <= Len(u) /\ d - 1 <= Len(b) /\ d - 1 <= n
        BY <1>0, <1>1, <3>1
      <4>1. /\ v \in Seq(B) /\ Len(v) = (d - 1) - 1 + 1
            /\ \A i \in 1..((d - 1) - 1 + 1) : v[i] = u[1 + i - 1]
        BY <1>1, <4>0, Part
      <4>2. /\ w \in Seq(B) /\ Len(w) = (d - 1) - 1 + 1
            /\ \A i \in 1..((d - 1) - 1 + 1) : w[i] = b[1 + i - 1]
        BY <4>0, Part
      <4>3. (d - 1) - 1 + 1 = d - 1 /\ \A i \in 1..(d - 1) : 1 + i - 1 = i /\ i \in 1..n
        BY <1>0, <4>0
      <4> HIDE DEF v, w
      <4>4. \A i \in 1..(d - 1) : v[i] = w[i]
        BY <1>1, <4>1, <4>2, <4>3
      <4>5. v = w
        BY <4>1, <4>2, <4>3, <4>4, SeqEqual
      <4> QED
        BY <4>5 DEF v, w
    <3>5. Total(kind, u) = Total(kind, b)
      BY <2>3, <2>4, <2>7, <3>3, <3>4
    <3> QED
      BY <1>2, <3>5 DEF u
  <2> QED
    BY <2>6, <2>7
<1> QED
  BY <1>4, <1>5

\* What is read of the plaintext, in s.
Acc(held, left, out) == [held |-> held, left |-> left, out |-> out]

AccOf(B, s, acc) ==
    /\ acc = Acc(acc.held, acc.left, acc.out)
    /\ acc.held \in Seq(B) /\ acc.left \in Nat /\ acc.out \in Seq(B)
    /\ s.kind = "http" =>
          /\ ~s.payload => acc.held = <<>> /\ acc.left = 0
          /\ acc.left > 0 => acc.held = <<>>
          /\ \A i \in 1..Len(acc.held) : acc.held[i] # "END"
    /\ s.kind # "http" =>
          /\ acc.left = 0 /\ Led(s.kind, acc.held)
          /\ Total(s.kind, acc.held) = 0 \/ Len(acc.held) < Total(s.kind, acc.held)

Grown(acc, held) == [acc EXCEPT !.held = held]

LEMMA AskingHttp ==
    ASSUME NEW s, s.kind = "http", s.payload \in BOOLEAN, NEW acc, acc.left \in Nat, NEW byte
    PROVE  Asking(s, acc, byte) =
               IF ~s.payload THEN Acc(<<>>, 0, acc.out \o <<byte>>)
               ELSE IF acc.left > 0 THEN Acc(<<>>, acc.left - 1, acc.out \o <<byte>>)
               ELSE IF byte # "END" THEN Grown(acc, Append(acc.held, byte))
               ELSE Acc(<<>>, request_framing(acc.held).n,
                        acc.out \o edit_request_head(Append(acc.held, byte)))
<1> DEFINE held == Append(acc.held, byte)
           edit == edit_request_head(held)
           n == request_framing(acc.held).n
           result == Asking(s, acc, byte)
           one == [held |-> <<>>, left |-> 0, out |-> acc.out \o <<byte>>]
           head == [held |-> <<>>, left |-> 0, out |-> acc.out \o edit]
           grown == Grown(acc, held)
<1>1. CASE ~s.payload
  <2>1. result = one
    BY <1>1 DEF Asking
  <2> QED
    BY <1>1, <2>1 DEF Acc
<1>2. CASE s.payload /\ acc.left > 0
  <2>1. result = [one EXCEPT !.left = acc.left - 1]
    BY <1>2 DEF Asking
  <2> QED
    BY <1>2, <2>1 DEF Acc
<1>3. CASE s.payload /\ ~ (acc.left > 0) /\ byte # "END"
  <2>1. acc.left = 0
    BY <1>3
  <2>2. result = grown
    BY <1>3, <2>1 DEF Asking, Grown
  <2> QED
    BY <1>3, <2>2
<1>4. CASE s.payload /\ ~ (acc.left > 0) /\ byte = "END"
  <2>1. acc.left = 0
    BY <1>4
  <2>2. result = [head EXCEPT !.left = n]
    BY <1>4, <2>1 DEF Asking
  <2> QED
    BY <1>4, <2>2 DEF Acc
<1> QED
  BY <1>1, <1>2, <1>3, <1>4

\* A byte of a head is held, until the head is whole.
ReadsHttp(s, acc, byte, next) ==
    s.payload /\ acc.left = 0 /\ byte # "END" => next = Grown(acc, Append(acc.held, byte))

LEMMA AskingHead ==
    ASSUME NEW s, s.kind = "http", s.payload \in BOOLEAN, NEW acc, acc.left \in Nat, NEW byte
    PROVE  ReadsHttp(s, acc, byte, Asking(s, acc, byte))
<1> SUFFICES ASSUME s.payload, acc.left = 0, byte # "END"
             PROVE  Asking(s, acc, byte) = Grown(acc, Append(acc.held, byte))
  BY DEF ReadsHttp
<1> QED
  BY DEF Asking, Grown

\* A question read to its end is sent on, or answered here.
ReadsDns(s, acc, w, next) ==
    next = IF Whole(s.kind, w)
           THEN Acc(<<>>, 0, acc.out \o (IF Hit(s.kind, w) # {} THEN <<>> ELSE w))
           ELSE [acc EXCEPT !.held = w]

LEMMA AskingDns ==
    ASSUME NEW s, s.kind \in {"dot", "doh"}, NEW acc, NEW byte,
           NEW B, Append(acc.held, byte) \in Seq(B), Total(s.kind, Append(acc.held, byte)) \in Nat
    PROVE  ReadsDns(s, acc, Append(acc.held, byte), Asking(s, acc, byte))
<1> DEFINE w == Append(acc.held, byte)
           end == find_header_end(w)
           head == SubSeq(w, 1, end - 1)
           hit == Hit(s.kind, w)
           done == [held |-> <<>>, left |-> 0, out |-> acc.out \o (IF hit # {} THEN <<>> ELSE w)]
           grown == [acc EXCEPT !.held = w]
<1>1. CASE s.kind = "dot"
  <2>1. Asking(s, acc, byte) = IF Len(w) > 1 /\ Len(w) = dot_total(w) THEN done ELSE grown
    BY <1>1 DEF Asking, Hit
  <2>2. Whole(s.kind, w) <=> Len(w) > 1 /\ Len(w) = dot_total(w)
    <3>1. Len(w) \in Nat
      BY LenProperties
    <3> QED
      BY <1>1, <3>1 DEF Whole, Total
  <2> QED
    BY <2>1, <2>2 DEF Acc, ReadsDns
<1>2. CASE s.kind = "doh"
  <2>1. Asking(s, acc, byte) = IF end > 0 /\ Len(w) = end + request_framing(head).n THEN done ELSE grown
    BY <1>2 DEF Asking, Hit
  <2>2. Total(s.kind, w) = IF end = 0 THEN 0 ELSE end + request_framing(head).n
    BY <1>2 DEF Total
  <2>3. end = 0 \/ end \in 1..Len(w)
    BY HeaderEnd
  <2>4. Len(w) \in Nat /\ request_framing(head).n \in Nat
    BY LenProperties, FramingIs
  <2> HIDE DEF end, head, hit
  <2>5. Whole(s.kind, w) <=> end > 0 /\ Len(w) = end + request_framing(head).n
    BY <2>2, <2>3, <2>4 DEF Whole
  <2> QED
    BY <2>1, <2>5 DEF Acc, hit, ReadsDns
<1> QED
  BY <1>1, <1>2

LEMMA EditIs ==
    ASSUME NEW B, NEW h \in Seq(B), "identity" \in B, "END" \in B
    PROVE  edit_request_head(h) \in Seq(B)
<1> DEFINE ss == [i \in DOMAIN h |-> IF h[i] \in {"accept-encoding", "END"} THEN <<>> ELSE <<h[i]>>]
           n == Len(h)
           end == <<"identity", "END">>
<1>0. n \in Nat /\ DOMAIN h = 1..n /\ \A i \in 1..n : h[i] \in B
  BY LenProperties
<1>1. ss \in Seq(Seq(B))
  <2>1. ss = [i \in 1..n |-> IF h[i] \in {"accept-encoding", "END"} THEN <<>> ELSE <<h[i]>>]
    BY <1>0
  <2>2. \A i \in 1..n : (IF h[i] \in {"accept-encoding", "END"} THEN <<>> ELSE <<h[i]>>) \in Seq(B)
    BY <1>0
  <2> HIDE DEF n, ss
  <2> QED
    BY <1>0, <2>1, <2>2
<1>2. edit_request_head(h) = FlattenSeq(ss) \o end
  BY DEF edit_request_head
<1>3. end \in Seq(B)
  OBVIOUS
<1> HIDE DEF ss, end
<1>4. FlattenSeq(ss) \in Seq(B)
  BY <1>1, FlattenTyped
<1> QED
  BY <1>2, <1>3, <1>4, Concat

\* What the reading needs of the script.
Sound(s) ==
    /\ s \in Scripts
    /\ s.kind = "dot" => \A n \in DOMAIN s.app : Len(Asked(s)[n - 1].held) < 2 => s.app[n] \in Octets

LEMMA NoMessage ==
    ASSUME NEW kind \in {"dot", "doh"}
    PROVE  Led(kind, <<>>) /\ Total(kind, <<>>) = 0
<1> DEFINE b == <<>>
<1>1. b \in Seq({}) /\ Len(b) = 0
  OBVIOUS
<1> HIDE DEF b
<1>2. find_header_end(b) = 0
  <2>1. find_header_end(b) = 0 \/ find_header_end(b) \in 1..Len(b)
    BY <1>1, HeaderEnd
  <2> QED
    BY <1>1, <2>1
<1>3. Led(kind, b)
  BY <1>1 DEF Led
<1>4. Total(kind, b) = 0
  BY <1>1, <1>2 DEF Total
<1> QED
  BY <1>3, <1>4 DEF b

\* What a byte more does.
Extends(B, acc, next) == \E w \in Seq(B) : next.out = acc.out \o w

LEMMA AskingDnsIsSound ==
    ASSUME NEW B, NEW s, s.kind \in {"dot", "doh"}, NEW acc, AccOf(B, s, acc), NEW byte \in B,
           s.kind = "dot" /\ Len(acc.held) < 2 => byte \in Octets
    PROVE  AccOf(B, s, Asking(s, acc, byte)) /\ Extends(B, acc, Asking(s, acc, byte))
<1> DEFINE u == acc.held
           w == Append(u, byte)
           next == Asking(s, acc, byte)
           k == s.kind
<1>0. /\ acc = Acc(u, 0, acc.out) /\ u \in Seq(B) /\ acc.out \in Seq(B) /\ k # "http"
      /\ Led(k, u) /\ (Total(k, u) = 0 \/ Len(u) < Total(k, u)) /\ Len(u) \in Nat
  BY LenProperties DEF AccOf
<1>1. w \in Seq(B) /\ Len(w) = Len(u) + 1 /\ w[Len(u) + 1] = byte /\ \A i \in 1..Len(u) : w[i] = u[i]
  BY <1>0, AppendProperties
<1> HIDE DEF w, u, k
<1>2. Led(k, w)
  <2> SUFFICES ASSUME k = "dot", NEW i \in 1..Len(w), i <= 2
               PROVE  w[i] \in Octets
    BY DEF Led
  <2>1. CASE i \in 1..Len(u)
    BY <1>0, <1>1, <2>1 DEF Led
  <2>2. CASE i \notin 1..Len(u)
    <3>1. i = Len(u) + 1 /\ Len(u) < 2
      BY <1>0, <1>1, <2>2
    <3> QED
      BY <1>1, <3>1 DEF u, k
  <2> QED
    BY <2>1, <2>2
<1>3. Total(k, w) \in Nat
  BY <1>1, <1>2, TotalIs
<1>4. SubSeq(w, 1, Len(u)) = u
  <2>1. 1 <= Len(u) + 1 /\ Len(u) <= Len(w)
    BY <1>0, <1>1
  <2>2. /\ SubSeq(w, 1, Len(u)) \in Seq(B) /\ Len(SubSeq(w, 1, Len(u))) = Len(u) - 1 + 1
        /\ \A i \in 1..(Len(u) - 1 + 1) : SubSeq(w, 1, Len(u))[i] = w[1 + i - 1]
    BY <1>0, <1>1, <2>1, Part
  <2>3. Len(u) - 1 + 1 = Len(u) /\ \A i \in 1..Len(u) : 1 + i - 1 = i
    BY <1>0
  <2>4. \A i \in 1..Len(u) : SubSeq(w, 1, Len(u))[i] = u[i]
    BY <1>1, <2>2, <2>3
  <2> QED
    BY <1>0, <2>2, <2>3, <2>4, SeqEqual
<1>5. Len(u) >= Total(k, w) => Total(k, u) = Total(k, w)
  <2>1. k \in {"dot", "doh"} /\ Len(u) \in 0..Len(w)
    BY <1>0, <1>1 DEF k
  <2>2. Len(u) >= Total(k, w) => Total(k, SubSeq(w, 1, Len(u))) = Total(k, w)
    BY <1>1, <1>2, <2>1, TotalOfPart
  <2> QED
    BY <1>4, <2>2
<1>6. next = IF Whole(k, w)
             THEN Acc(<<>>, 0, acc.out \o (IF Hit(k, w) # {} THEN <<>> ELSE w))
             ELSE [acc EXCEPT !.held = w]
  <2>1. s.kind \in {"dot", "doh"} /\ w = Append(acc.held, byte) /\ w \in Seq(B) /\ Total(s.kind, w) \in Nat
    BY <1>1, <1>3 DEF w, u, k
  <2> HIDE DEF next
  <2>2. ReadsDns(s, acc, w, Asking(s, acc, byte))
    <3>1. Append(acc.held, byte) \in Seq(B) /\ Total(s.kind, Append(acc.held, byte)) \in Nat
      BY <2>1
    <3>2. ReadsDns(s, acc, Append(acc.held, byte), Asking(s, acc, byte))
      BY <2>1, <3>1, AskingDns
    <3> QED
      BY <2>1, <3>2
  <2> QED
    BY <2>2 DEF k, next, ReadsDns
<1> HIDE DEF next
<1>7. CASE Whole(k, w)
  <2> DEFINE more == IF Hit(k, w) # {} THEN <<>> ELSE w
  <2>1. more \in Seq(B)
    BY <1>1, EmptySeq
  <2> HIDE DEF more
  <2>2. next = Acc(<<>>, 0, acc.out \o more)
    BY <1>6, <1>7 DEF more
  <2>3. acc.out \o more \in Seq(B) /\ <<>> \in Seq(B)
    BY <1>0, <2>1, Concat
  <2>4. Led(k, <<>>) /\ Total(k, <<>>) = 0
    BY NoMessage DEF k
  <2>5. next.held = <<>> /\ next.left = 0 /\ next.out = acc.out \o more
    BY <2>2 DEF Acc
  <2>6. AccOf(B, s, next)
    BY <1>0, <2>2, <2>3, <2>4, <2>5 DEF AccOf, k
  <2> QED
    BY <2>1, <2>5, <2>6 DEF Extends, next
<1>8. CASE ~ Whole(k, w)
  <2>1. next = Acc(w, 0, acc.out)
    BY <1>0, <1>6, <1>8 DEF Acc
  <2>2. next.held = w /\ next.left = 0 /\ next.out = acc.out
    BY <2>1 DEF Acc
  <2>3. Total(k, w) = 0 \/ Len(w) < Total(k, w)
    BY <1>0, <1>1, <1>3, <1>5, <1>8 DEF Whole
  <2>4. AccOf(B, s, next)
    BY <1>0, <1>1, <1>2, <2>1, <2>2, <2>3 DEF AccOf, k
  <2>5. next.out = acc.out \o <<>> /\ <<>> \in Seq(B)
    BY <1>0, <2>2, Concat
  <2> QED
    BY <2>4, <2>5 DEF Extends, next
<1> QED
  BY <1>7, <1>8

LEMMA AskingHttpIsSound ==
    ASSUME NEW B, "identity" \in B, "END" \in B, NEW s, s.kind = "http", s.payload \in BOOLEAN,
           NEW acc, AccOf(B, s, acc), NEW byte \in B
    PROVE  AccOf(B, s, Asking(s, acc, byte)) /\ Extends(B, acc, Asking(s, acc, byte))
<1> DEFINE u == acc.held
           w == Append(u, byte)
           next == Asking(s, acc, byte)
           n == request_framing(u).n
           edit == edit_request_head(w)
<1>0. /\ acc = Acc(u, acc.left, acc.out) /\ u \in Seq(B) /\ acc.left \in Nat /\ acc.out \in Seq(B)
      /\ (~s.payload => u = <<>> /\ acc.left = 0) /\ (acc.left > 0 => u = <<>>)
      /\ (\A i \in 1..Len(u) : u[i] # "END") /\ Len(u) \in Nat
  BY LenProperties DEF AccOf
<1>1. w \in Seq(B) /\ Len(w) = Len(u) + 1 /\ w[Len(u) + 1] = byte /\ \A i \in 1..Len(u) : w[i] = u[i]
  BY <1>0, AppendProperties
<1>2. next = IF ~s.payload THEN Acc(<<>>, 0, acc.out \o <<byte>>)
             ELSE IF acc.left > 0 THEN Acc(<<>>, acc.left - 1, acc.out \o <<byte>>)
             ELSE IF byte # "END" THEN Grown(acc, w)
             ELSE Acc(<<>>, n, acc.out \o edit)
  BY <1>0, AskingHttp
<1>3. <<byte>> \in Seq(B) /\ <<>> \in Seq(B) /\ acc.out \o <<byte>> \in Seq(B) /\ acc.out \o <<>> = acc.out
  <2>1. <<byte>> \in Seq(B)
    OBVIOUS
  <2> QED
    BY <1>0, <2>1, Concat
<1>4. edit \in Seq(B) /\ acc.out \o edit \in Seq(B) /\ n \in Nat
  <2>1. edit \in Seq(B)
    BY <1>1, EditIs
  <2>2. n \in Nat
    BY FramingIs
  <2> HIDE DEF edit
  <2> QED
    BY <1>0, <2>1, <2>2, Concat
<1> HIDE DEF next, w, u, n, edit
<1>5. \A left \in Nat, out \in Seq(B) :
          s.payload \/ left = 0 => AccOf(B, s, Acc(<<>>, left, out))
  BY <1>3 DEF AccOf, Acc
<1>7. CASE ~s.payload
  <2>1. next = Acc(<<>>, 0, acc.out \o <<byte>>)
    BY <1>2, <1>7
  <2>2. next.out = acc.out \o <<byte>>
    BY <2>1 DEF Acc
  <2> QED
    BY <1>3, <1>5, <1>7, <2>1, <2>2 DEF Extends, next
<1>8. CASE s.payload /\ acc.left > 0
  <2>1. next = Acc(<<>>, acc.left - 1, acc.out \o <<byte>>)
    BY <1>2, <1>8
  <2>2. next.out = acc.out \o <<byte>> /\ acc.left - 1 \in Nat
    BY <1>0, <1>8, <2>1 DEF Acc
  <2> QED
    BY <1>3, <1>5, <1>8, <2>1, <2>2 DEF Extends, next
<1>9. CASE s.payload /\ ~ (acc.left > 0) /\ byte # "END"
  <2>1. next = Acc(w, acc.left, acc.out)
    BY <1>0, <1>2, <1>9 DEF Acc, Grown
  <2>2. next.held = w /\ next.left = acc.left /\ next.out = acc.out
    BY <2>1 DEF Acc
  <2>3. \A i \in 1..Len(w) : w[i] # "END"
    <3> SUFFICES ASSUME NEW i \in 1..Len(w)
                 PROVE  w[i] # "END"
      OBVIOUS
    <3>1. CASE i \in 1..Len(u)
      BY <1>0, <1>1, <3>1
    <3>2. CASE i \notin 1..Len(u)
      <4>1. i = Len(u) + 1
        BY <1>0, <1>1, <3>2
      <4> QED
        BY <1>1, <1>9, <4>1
    <3> QED
      BY <3>1, <3>2
  <2>4. AccOf(B, s, next)
    BY <1>0, <1>1, <1>9, <2>1, <2>2, <2>3 DEF AccOf
  <2>5. next.out = acc.out \o <<>>
    BY <1>3, <2>2
  <2> QED
    BY <1>3, <2>4, <2>5 DEF Extends, next
<1>10. CASE s.payload /\ ~ (acc.left > 0) /\ byte = "END"
  <2>1. next = Acc(<<>>, n, acc.out \o edit)
    BY <1>2, <1>10
  <2>2. next.out = acc.out \o edit
    BY <2>1 DEF Acc
  <2> QED
    BY <1>4, <1>5, <1>10, <2>1, <2>2 DEF Extends, next
<1> QED
  BY <1>7, <1>8, <1>9, <1>10

LEMMA AskedStep ==
    ASSUME NEW s, Sound(s), NEW n \in 1..Len(s.app), AccOf(Bytes(s), s, Asked(s)[n - 1])
    PROVE  /\ Asked(s)[n] = Asking(s, Asked(s)[n - 1], s.app[n])
           /\ AccOf(Bytes(s), s, Asked(s)[n])
           /\ Extends(Bytes(s), Asked(s)[n - 1], Asked(s)[n])
<1> DEFINE B == Bytes(s)
           acc == Asked(s)[n - 1]
           byte == s.app[n]
<1>1. /\ Len(s.app) \in Nat /\ s.app \in Seq(B) /\ s.kind \in {"http", "dot", "doh"} /\ s.payload \in BOOLEAN
      /\ s \in Scripts
  BY AppIs DEF Sound
<1>2. DOMAIN s.app = 1..Len(s.app) /\ byte \in B
  BY <1>1, LenProperties
<1>3. Asked(s)[n] = Asking(s, acc, byte)
  <2>1. Rounds("asked", s, Asked(s), NothingAsked, Len(s.app))
    BY <1>1, AskedIs
  <2>2. Asked(s)[n] = Round("asked", s, n, acc)
    BY <2>1 DEF Rounds
  <2> QED
    BY <2>2 DEF Round
<1>4. s.kind = "dot" /\ Len(acc.held) < 2 => byte \in Octets
  BY <1>2 DEF Sound
<1>5. "identity" \in B /\ "END" \in B
  BY DEF Bytes
<1> HIDE DEF B, acc, byte
<1>6. AccOf(B, s, acc)
  BY DEF B, acc
<1>7. AccOf(B, s, Asking(s, acc, byte)) /\ Extends(B, acc, Asking(s, acc, byte))
  <2>1. CASE s.kind = "http"
    BY <1>1, <1>2, <1>5, <1>6, <2>1, AskingHttpIsSound
  <2>2. CASE s.kind # "http"
    <3>1. s.kind \in {"dot", "doh"}
      BY <1>1, <2>2
    <3> QED
      BY <1>2, <1>4, <1>6, <3>1, AskingDnsIsSound
  <2> QED
    BY <2>1, <2>2
<1> QED
  BY <1>3, <1>7 DEF B, acc, byte

LEMMA AskedSound ==
    ASSUME NEW s, Sound(s)
    PROVE  /\ Asked(s)[0] = NothingAsked
           /\ \A n \in 0..Len(s.app) : AccOf(Bytes(s), s, Asked(s)[n])
<1> DEFINE B == Bytes(s)
           Bad == {n \in 0..Len(s.app) : ~AccOf(B, s, Asked(s)[n])}
<1>1. /\ Len(s.app) \in Nat /\ s.app \in Seq(B) /\ s.kind \in {"http", "dot", "doh"} /\ s.payload \in BOOLEAN
  BY AppIs DEF Sound
<1>2. Asked(s)[0] = NothingAsked
  BY <1>1, AskedIs DEF Rounds
<1>3. AccOf(B, s, NothingAsked)
  <2> DEFINE a == NothingAsked
  <2>1. a = Acc(a.held, a.left, a.out) /\ a.held = <<>> /\ a.left = 0 /\ a.out = <<>>
    BY DEF NothingAsked, Acc
  <2> HIDE DEF a, B
  <2>2. <<>> \in Seq(B) /\ Len(<<>>) = 0
    BY EmptySeq
  <2>3. s.kind # "http" => Led(s.kind, <<>>) /\ Total(s.kind, <<>>) = 0
    BY <1>1, NoMessage
  <2>4. \A i \in 1..Len(a.held) : a.held[i] # "END"
    BY <2>1, <2>2
  <2> QED
    BY <1>1, <2>1, <2>2, <2>3, <2>4 DEF AccOf, a
<1>4. Bad = {}
  <2> SUFFICES ASSUME Bad # {}
               PROVE  FALSE
    OBVIOUS
  <2>1. PICK n \in Bad : \A m \in Bad : n <= m
    <3>1. Bad \subseteq Nat
      OBVIOUS
    <3> HIDE DEF Bad
    <3> QED
      BY <3>1, Least
  <2>2. n \in 0..Len(s.app) /\ ~AccOf(B, s, Asked(s)[n])
    BY <2>1
  <2>3. n # 0
    BY <1>2, <1>3, <2>2
  <2>4. n \in 1..Len(s.app) /\ n - 1 \in 0..Len(s.app) /\ ~ (n <= n - 1)
    BY <1>1, <2>2, <2>3
  <2>5. AccOf(B, s, Asked(s)[n - 1])
    BY <2>1, <2>4
  <2> QED
    BY <2>2, <2>4, <2>5, AskedStep
<1> QED
  BY <1>2, <1>4

LEMMA OutGrows ==
    ASSUME NEW s, Sound(s), NEW j \in 0..Len(s.app), NEW k \in 0..j
    PROVE  Extends(Bytes(s), Asked(s)[k], Asked(s)[j])
<1> DEFINE B == Bytes(s)
           out(n) == Asked(s)[n].out
           Bad == {n \in k..j : ~ Extends(B, Asked(s)[k], Asked(s)[n])}
<1>0. Len(s.app) \in Nat /\ j \in Nat /\ k \in Nat /\ j <= Len(s.app) /\ k <= j
  BY AppIs DEF Sound
<1>1. \A n \in 0..Len(s.app) : AccOf(B, s, Asked(s)[n]) /\ out(n) \in Seq(B)
  BY AskedSound DEF AccOf
<1> HIDE DEF B
<1>2. Bad = {}
  <2> SUFFICES ASSUME Bad # {}
               PROVE  FALSE
    OBVIOUS
  <2>1. PICK n \in Bad : \A m \in Bad : n <= m
    <3>1. Bad \subseteq Nat
      BY <1>0
    <3> HIDE DEF Bad
    <3> QED
      BY <3>1, Least
  <2>2. n \in k..j /\ ~ Extends(B, Asked(s)[k], Asked(s)[n])
    BY <2>1
  <2>3. n # k
    <3>1. out(k) \in Seq(B)
      BY <1>0, <1>1
    <3>2. out(k) = out(k) \o <<>> /\ <<>> \in Seq(B)
      BY <3>1, Concat
    <3>3. Extends(B, Asked(s)[k], Asked(s)[k])
      BY <3>2 DEF Extends
    <3> QED
      BY <2>2, <3>3
  <2>4. /\ n \in 1..Len(s.app) /\ n - 1 \in k..j /\ ~ (n <= n - 1) /\ n - 1 \in 0..Len(s.app)
        /\ k \in 0..Len(s.app)
    BY <1>0, <2>2, <2>3
  <2>5. Extends(B, Asked(s)[k], Asked(s)[n - 1])
    BY <2>1, <2>4
  <2>6. AccOf(B, s, Asked(s)[n - 1])
    BY <1>1, <2>4
  <2>7. Extends(B, Asked(s)[n - 1], Asked(s)[n])
    BY <2>4, <2>6, AskedStep DEF B
  <2>8. PICK v \in Seq(B) : out(n - 1) = out(k) \o v
    BY <2>5 DEF Extends
  <2>9. PICK w \in Seq(B) : out(n) = out(n - 1) \o w
    BY <2>7 DEF Extends
  <2>10. out(k) \in Seq(B)
    BY <1>1, <2>4
  <2> DEFINE o == out(k)
             p == out(n)
  <2>11. p = (o \o v) \o w /\ o \in Seq(B)
    BY <2>8, <2>9, <2>10
  <2> HIDE DEF o, p
  <2>12. Associates(o, v, w) /\ v \o w \in Seq(B)
    BY <2>11, Associative, Concat
  <2>13. p = o \o (v \o w)
    BY <2>11, <2>12 DEF Associates
  <2>14. Extends(B, Asked(s)[k], Asked(s)[n])
    BY <2>12, <2>13 DEF Extends, o, p
  <2> QED
    BY <2>2, <2>14
<1>3. j \in k..j
  BY <1>0
<1> QED
  BY <1>2, <1>3 DEF B

\* It is f that is read from the k-th byte to the last.
LEMMA AskedRuns ==
    ASSUME NEW s, Sound(s), NEW last \in 0..Len(s.app), NEW k \in 0..last, NEW f,
           f[k] = Asked(s)[k],
           \A i \in (k + 1)..last : Asking(s, f[i - 1], s.app[i]) = f[i]
    PROVE  Asked(s)[last] = f[last]
<1> DEFINE Bad == {n \in k..last : Asked(s)[n] # f[n]}
<1>0. Len(s.app) \in Nat /\ last \in Nat /\ k \in Nat /\ last <= Len(s.app) /\ k <= last
  BY AppIs DEF Sound
<1>1. Bad = {}
  <2> SUFFICES ASSUME Bad # {}
               PROVE  FALSE
    OBVIOUS
  <2>1. PICK n \in Bad : \A m \in Bad : n <= m
    <3>1. Bad \subseteq Nat
      BY <1>0
    <3> HIDE DEF Bad
    <3> QED
      BY <3>1, Least
  <2>2. n \in k..last /\ Asked(s)[n] # f[n]
    BY <2>1
  <2>3. n # k
    BY <2>2
  <2>4. /\ n \in 1..Len(s.app) /\ n - 1 \in k..last /\ ~ (n <= n - 1) /\ n \in (k + 1)..last
        /\ n - 1 \in 0..Len(s.app)
    BY <1>0, <2>2, <2>3
  <2>5. Asked(s)[n - 1] = f[n - 1]
    BY <2>1, <2>4
  <2>6. Asked(s)[n] = Asking(s, Asked(s)[n - 1], s.app[n])
    BY <2>4, AskedSound, AskedStep
  <2>7. Asking(s, f[n - 1], s.app[n]) = f[n]
    BY <2>4
  <2> QED
    BY <2>2, <2>5, <2>6, <2>7
<1>2. last \in k..last
  BY <1>0
<1> QED
  BY <1>1, <1>2

LEMMA HeldNone ==
    ASSUME NEW B, NEW u \in Seq(B), NEW x \in Seq(B), NEW i \in 0..Len(x)
    PROVE  Held(u, x, i, i) = u
<1>1. Slice(x, i, i) = <<>>
  BY NoSlice
<1> QED
  BY <1>1, Concat DEF Held

LEMMA ReadsHead ==
    ASSUME NEW s, Sound(s), s.kind = "http", s.payload, NEW last \in 0..Len(s.app), NEW k \in 0..last,
           Asked(s)[k].left = 0, \A i \in (k + 1)..last : s.app[i] # "END"
    PROVE  Asked(s)[last] = Acc(Held(Asked(s)[k].held, s.app, k, last), 0, Asked(s)[k].out)
<1> DEFINE B == Bytes(s)
           x == s.app
           u == Asked(s)[k].held
           v == Asked(s)[k].out
           f == [i \in k..last |-> Acc(Held(u, x, k, i), 0, v)]
<1>0. Len(x) \in Nat /\ last \in Nat /\ k \in Nat /\ last <= Len(x) /\ k <= last /\ k \in 0..Len(x) /\ x \in Seq(B)
  BY AppIs DEF Sound
<1>1. AccOf(B, s, Asked(s)[k])
  BY <1>0, AskedSound
<1>2. u \in Seq(B) /\ v \in Seq(B) /\ Asked(s)[k] = Acc(u, 0, v)
  BY <1>1 DEF AccOf
<1> HIDE DEF B, u, v
<1>3. f[k] = Asked(s)[k]
  <2>1. Held(u, x, k, k) = u
    BY <1>0, <1>2, HeldNone
  <2>2. f[k] = Acc(Held(u, x, k, k), 0, v)
    BY <1>0
  <2> QED
    BY <1>2, <2>1, <2>2
<1>4. ASSUME NEW i \in (k + 1)..last
      PROVE  Asking(s, f[i - 1], s.app[i]) = f[i]
  <2>1. i \in k..last /\ i - 1 \in k..last /\ i \in 1..Len(x) /\ k \in 0..(i - 1)
    BY <1>0
  <2>2. Append(Held(u, x, k, i - 1), x[i]) = Held(u, x, k, i)
    BY <1>0, <1>2, <2>1, HeldByOne, ZenonT(30)
  <2> DEFINE a == f[i - 1]
  <2>3. a = Acc(Held(u, x, k, i - 1), 0, v)
    BY <2>1
  <2>4. f[i] = Acc(Held(u, x, k, i), 0, v)
    BY <2>1
  <2> HIDE DEF f, a
  <2>5. a.held = Held(u, x, k, i - 1) /\ a.left = 0 /\ a.out = v
    BY <2>3 DEF Acc
  <2>6. x[i] # "END" /\ s.payload \in BOOLEAN
    <3>1. s.app[i] # "END"
      OBVIOUS
    <3> QED
      BY <3>1, AppIs DEF Sound
  <2>7. Asking(s, a, x[i]) = Acc(Append(a.held, x[i]), 0, v)
    <3>1. ReadsHttp(s, a, x[i], Asking(s, a, x[i]))
      <4>1. a.left \in Nat
        BY <2>5
      <4>2. s.payload \in BOOLEAN
        BY <2>6
      <4> DEFINE b == x[i]
                 e == Asking(s, a, x[i])
      <4> HIDE DEF a, b
      <4>3. ReadsHttp(s, a, b, Asking(s, a, b))
        BY ONLY s.kind = "http", <4>1, <4>2, AskingHead
      <4> QED
        BY <4>3 DEF b
    <3> DEFINE w == Append(a.held, x[i])
    <3>2. Asking(s, a, x[i]) = Grown(a, w)
      BY <2>5, <2>6, <3>1 DEF ReadsHttp
    <3> HIDE DEF w
    <3>3. Grown(a, w) = Acc(w, 0, v)
      BY <2>3 DEF Acc, Grown
    <3> QED
      BY <3>2, <3>3 DEF w
  <2> HIDE DEF x
  <2> QED
    BY <2>2, <2>4, <2>5, <2>7 DEF a, x
<1>5. f[last] = Acc(Held(u, x, k, last), 0, v)
  BY <1>0
<1> HIDE DEF f
<1>6. Asked(s)[last] = f[last]
  BY <1>3, <1>4, AskedRuns
<1> QED
  BY <1>5, <1>6 DEF u, v

LEMMA ReadsBody ==
    ASSUME NEW s, Sound(s), s.kind = "http", s.payload, NEW last \in 0..Len(s.app), NEW k \in 0..last,
           Asked(s)[k].held = <<>>, last - k <= Asked(s)[k].left
    PROVE  Asked(s)[last] = Acc(<<>>, Asked(s)[k].left - (last - k), Held(Asked(s)[k].out, s.app, k, last))
<1> DEFINE B == Bytes(s)
           x == s.app
           n == Asked(s)[k].left
           v == Asked(s)[k].out
           f == [i \in k..last |-> Acc(<<>>, n - (i - k), Held(v, x, k, i))]
<1>0. Len(x) \in Nat /\ last \in Nat /\ k \in Nat /\ last <= Len(x) /\ k <= last /\ k \in 0..Len(x) /\ x \in Seq(B)
  BY AppIs DEF Sound
<1>1. AccOf(B, s, Asked(s)[k])
  BY <1>0, AskedSound
<1>2. n \in Nat /\ v \in Seq(B) /\ Asked(s)[k] = Acc(<<>>, n, v) /\ last - k <= n
  BY <1>1 DEF AccOf
<1> HIDE DEF B, n, v
<1>3. f[k] = Asked(s)[k]
  <2>1. Held(v, x, k, k) = v
    BY <1>0, <1>2, HeldNone
  <2>2. f[k] = Acc(<<>>, n - (k - k), Held(v, x, k, k)) /\ n - (k - k) = n
    BY <1>0, <1>2
  <2> QED
    BY <1>2, <2>1, <2>2
<1>4. ASSUME NEW i \in (k + 1)..last
      PROVE  Asking(s, f[i - 1], s.app[i]) = f[i]
  <2>1. i \in k..last /\ i - 1 \in k..last /\ i \in 1..Len(x) /\ k \in 0..(i - 1) /\ i \in 0..Len(x)
        /\ i - 1 \in 0..i /\ k \in 0..(i - 1)
    BY <1>0
  <2>2. Held(v, x, k, i - 1) \o <<x[i]>> = Held(v, x, k, i)
    <3>1. <<x[i]>> = Slice(x, i - 1, i)
      BY <1>0, <2>1, SliceOne
    <3>2. Held(v, x, k, i - 1) \o Slice(x, i - 1, i) = Held(v, x, k, i)
      BY <1>0, <1>2, <2>1, HeldGrows
    <3> QED
      BY <3>1, <3>2
  <2> DEFINE a == f[i - 1]
             m == n - ((i - 1) - k)
  <2>3. a = Acc(<<>>, m, Held(v, x, k, i - 1))
    BY <2>1
  <2>4. f[i] = Acc(<<>>, n - (i - k), Held(v, x, k, i))
    BY <2>1
  <2>5. m \in Nat /\ m > 0 /\ m - 1 = n - (i - k)
    BY <1>0, <1>2, <2>1
  <2> HIDE DEF f, a, m
  <2>6. a.held = <<>> /\ a.left = m /\ a.out = Held(v, x, k, i - 1)
    BY <2>3 DEF Acc
  <2>7. Asking(s, a, x[i]) = Acc(<<>>, a.left - 1, a.out \o <<x[i]>>)
    BY <2>5, <2>6, AskingHttp
  <2> QED
    BY <2>2, <2>4, <2>5, <2>6, <2>7 DEF a
<1>5. f[last] = Acc(<<>>, n - (last - k), Held(v, x, k, last))
  BY <1>0
<1> HIDE DEF f
<1>6. Asked(s)[last] = f[last]
  BY <1>3, <1>4, AskedRuns
<1> QED
  BY <1>5, <1>6 DEF n, v

LEMMA ReadsRaw ==
    ASSUME NEW s, Sound(s), s.kind = "http", ~s.payload, NEW last \in 0..Len(s.app), NEW k \in 0..last
    PROVE  Asked(s)[last] = Acc(<<>>, 0, Held(Asked(s)[k].out, s.app, k, last))
<1> DEFINE B == Bytes(s)
           x == s.app
           v == Asked(s)[k].out
           f == [i \in k..last |-> Acc(<<>>, 0, Held(v, x, k, i))]
<1>0. Len(x) \in Nat /\ last \in Nat /\ k \in Nat /\ last <= Len(x) /\ k <= last /\ k \in 0..Len(x) /\ x \in Seq(B)
  BY AppIs DEF Sound
<1>1. AccOf(B, s, Asked(s)[k])
  BY <1>0, AskedSound
<1>2. v \in Seq(B) /\ Asked(s)[k] = Acc(<<>>, 0, v)
  BY <1>1 DEF AccOf
<1> HIDE DEF B, v
<1>3. f[k] = Asked(s)[k]
  <2>1. Held(v, x, k, k) = v
    BY <1>0, <1>2, HeldNone
  <2>2. f[k] = Acc(<<>>, 0, Held(v, x, k, k))
    BY <1>0, <1>2
  <2> QED
    BY <1>2, <2>1, <2>2
<1>4. ASSUME NEW i \in (k + 1)..last
      PROVE  Asking(s, f[i - 1], s.app[i]) = f[i]
  <2>1. i \in k..last /\ i - 1 \in k..last /\ i \in 1..Len(x) /\ k \in 0..(i - 1) /\ i \in 0..Len(x)
        /\ i - 1 \in 0..i /\ k \in 0..(i - 1)
    BY <1>0
  <2>2. Held(v, x, k, i - 1) \o <<x[i]>> = Held(v, x, k, i)
    <3>1. <<x[i]>> = Slice(x, i - 1, i)
      BY <1>0, <2>1, SliceOne
    <3>2. Held(v, x, k, i - 1) \o Slice(x, i - 1, i) = Held(v, x, k, i)
      BY <1>0, <1>2, <2>1, HeldGrows
    <3> QED
      BY <3>1, <3>2
  <2> DEFINE a == f[i - 1]
  <2>3. a = Acc(<<>>, 0, Held(v, x, k, i - 1))
    BY <2>1
  <2>4. f[i] = Acc(<<>>, 0, Held(v, x, k, i))
    BY <2>1
  <2> HIDE DEF f, a
  <2>6. a.left = 0 /\ a.out = Held(v, x, k, i - 1)
    BY <2>3 DEF Acc
  <2>7. Asking(s, a, x[i]) = Acc(<<>>, 0, a.out \o <<x[i]>>)
    <3>1. s.payload \in BOOLEAN
      BY AppIs DEF Sound
    <3> QED
      BY <2>6, <3>1, AskingHttp
  <2> QED
    BY <2>2, <2>4, <2>6, <2>7 DEF a
<1>5. f[last] = Acc(<<>>, 0, Held(v, x, k, last))
  BY <1>0
<1> HIDE DEF f
<1>6. Asked(s)[last] = f[last]
  BY <1>3, <1>4, AskedRuns
<1> QED
  BY <1>5, <1>6 DEF v

LEMMA SubSub ==
    ASSUME NEW B, NEW b \in Seq(B), NEW n \in 0..Len(b), NEW j \in 0..n, NEW i \in Nat, 1 <= i, i <= j + 1
    PROVE  SubSeq(SubSeq(b, 1, n), i, j) = SubSeq(b, i, j)
<1> DEFINE u == SubSeq(b, 1, n)
           v == SubSeq(u, i, j)
           w == SubSeq(b, i, j)
<1>0. Len(b) \in Nat /\ n \in Nat /\ n <= Len(b) /\ j \in Nat /\ j <= n /\ j <= Len(b)
  BY LenProperties
<1>1. u \in Seq(B) /\ Len(u) = n /\ \A p \in 1..n : u[p] = b[p]
  <2>1. /\ SubSeq(b, 1, n) \in Seq(B) /\ Len(SubSeq(b, 1, n)) = n - 1 + 1
        /\ \A p \in 1..(n - 1 + 1) : SubSeq(b, 1, n)[p] = b[1 + p - 1]
    BY <1>0, Part
  <2>2. n - 1 + 1 = n /\ \A p \in 1..n : 1 + p - 1 = p
    BY <1>0
  <2> QED
    BY <2>1, <2>2
<1> HIDE DEF u
<1>2. v \in Seq(B) /\ Len(v) = j - i + 1 /\ \A p \in 1..(j - i + 1) : v[p] = u[i + p - 1]
  <2>1. j <= Len(u)
    BY <1>0, <1>1
  <2> QED
    BY <1>0, <1>1, <2>1, Part
<1>3. w \in Seq(B) /\ Len(w) = j - i + 1 /\ \A p \in 1..(j - i + 1) : w[p] = b[i + p - 1]
  BY <1>0, Part
<1>4. \A p \in 1..(j - i + 1) : i + p - 1 \in 1..n
  BY <1>0
<1> HIDE DEF v, w
<1>5. \A p \in 1..Len(v) : v[p] = w[p]
  BY <1>1, <1>2, <1>3, <1>4
<1>6. v = w
  BY <1>2, <1>3, <1>5, SeqEqual
<1> QED
  BY <1>6 DEF v, w, u

\* The end of a head is where it was, in a part that goes so far.
LEMMA EndOfPart ==
    ASSUME NEW B, NEW b \in Seq(B), NEW n \in 0..Len(b), find_header_end(b) \in 1..n
    PROVE  find_header_end(SubSeq(b, 1, n)) = find_header_end(b)
<1> DEFINE u == SubSeq(b, 1, n)
           e == find_header_end(b)
           d == find_header_end(u)
<1>0. Len(b) \in Nat /\ n \in Nat /\ n <= Len(b)
  BY LenProperties
<1>1. u \in Seq(B) /\ Len(u) = n /\ \A p \in 1..n : u[p] = b[p]
  <2>1. /\ SubSeq(b, 1, n) \in Seq(B) /\ Len(SubSeq(b, 1, n)) = n - 1 + 1
        /\ \A p \in 1..(n - 1 + 1) : SubSeq(b, 1, n)[p] = b[1 + p - 1]
    BY <1>0, Part
  <2>2. n - 1 + 1 = n /\ \A p \in 1..n : 1 + p - 1 = p
    BY <1>0
  <2> QED
    BY <2>1, <2>2
<1> HIDE DEF u
<1>2. \/ e = 0 /\ \A i \in 1..Len(b) : b[i] # "END"
      \/ e \in 1..Len(b) /\ b[e] = "END" /\ \A i \in 1..(e - 1) : b[i] # "END"
  BY HeaderEnd
<1>3. \/ d = 0 /\ \A i \in 1..Len(u) : u[i] # "END"
      \/ d \in 1..Len(u) /\ u[d] = "END" /\ \A i \in 1..(d - 1) : u[i] # "END"
  BY <1>1, HeaderEnd
<1>4. e \in 1..n
  OBVIOUS
<1> HIDE DEF e, d
<1>5. e \in Nat /\ e # 0 /\ b[e] = "END" /\ u[e] = "END"
  BY <1>0, <1>1, <1>2, <1>4
<1>6. d \in 1..n /\ u[d] = "END" /\ \A i \in 1..(d - 1) : u[i] # "END"
  BY <1>1, <1>3, <1>4, <1>5
<1>7. ~ (d < e)
  <2> SUFFICES ASSUME d < e
               PROVE  FALSE
    OBVIOUS
  <2>1. d \in 1..(e - 1)
    BY <1>0, <1>4, <1>6
  <2> QED
    BY <1>1, <1>2, <1>5, <1>6, <2>1
<1>8. ~ (e < d)
  <2> SUFFICES ASSUME e < d
               PROVE  FALSE
    OBVIOUS
  <2>1. e \in 1..(d - 1)
    BY <1>0, <1>4, <1>6
  <2> QED
    BY <1>5, <1>6, <2>1
<1>9. d = e
  BY <1>0, <1>4, <1>6, <1>7, <1>8
<1> QED
  BY <1>9 DEF d, e, u

\* What is answered here, of the message at the front.
HitAt(kind, b, total) ==
    IF kind = "dot" THEN block_wire(SubSeq(b, 3, total))
    ELSE hit_of(extract_query(SubSeq(b, 1, find_header_end(b) - 1),
                              SubSeq(b, find_header_end(b) + 1, total)))

LEMMA HitOfPart ==
    ASSUME NEW B, NEW b \in Seq(B), NEW kind \in {"dot", "doh"}, Led(kind, b),
           Total(kind, b) > 0, Total(kind, b) <= Len(b)
    PROVE  /\ Hit(kind, SubSeq(b, 1, Total(kind, b))) = HitAt(kind, b, Total(kind, b))
           /\ Whole(kind, SubSeq(b, 1, Total(kind, b)))
<1> DEFINE n == Total(kind, b)
           w == SubSeq(b, 1, n)
           e == find_header_end(b)
<1>0. Len(b) \in Nat /\ n \in Nat
  BY LenProperties, TotalIs
<1>1. n \in 0..Len(b) /\ n > 0 /\ n <= Len(b)
  BY <1>0
<1>2. w \in Seq(B) /\ Len(w) = n
  <2>1. /\ SubSeq(b, 1, n) \in Seq(B) /\ Len(SubSeq(b, 1, n)) = n - 1 + 1
    <3> HIDE DEF n
    <3> QED
      BY <1>0, <1>1, Part
  <2>2. n - 1 + 1 = n
    BY <1>0
  <2> QED
    BY <2>1, <2>2
<1>3. Total(kind, w) = n
  BY <1>0, <1>1, TotalOfPart
<1>4. Whole(kind, w)
  BY <1>1, <1>2, <1>3 DEF Whole
<1>5. Hit(kind, w) = HitAt(kind, b, n)
  <2>1. CASE kind = "dot"
    <3>1. n >= 2
      <4>1. Len(b) >= 2
        <5> SUFFICES ASSUME Len(b) < 2
                     PROVE  FALSE
          BY <1>0
        <5>1. n = 0
          BY <2>1 DEF Total
        <5> QED
          BY <1>1, <5>1
      <4> QED
        BY <2>1, <4>1, TotalIs
    <3>2. 3 \in Nat /\ 1 <= 3 /\ 3 <= n + 1 /\ n \in 0..n
      BY <1>0, <3>1
    <3>3. SubSeq(w, 3, n) = SubSeq(b, 3, n)
      <4> HIDE DEF n
      <4> QED
        BY <1>1, <3>2, SubSub
    <3>4. Hit(kind, w) = block_wire(SubSeq(w, 3, Len(w))) /\ HitAt(kind, b, n) = block_wire(SubSeq(b, 3, n))
      BY <2>1 DEF Hit, HitAt
    <3> QED
      BY <1>2, <3>3, <3>4
  <2>2. CASE kind = "doh"
    <3>1. e # 0
      <4> SUFFICES ASSUME e = 0
                   PROVE  FALSE
        OBVIOUS
      <4>1. n = 0
        BY <2>2 DEF Total
      <4> QED
        BY <1>1, <4>1
    <3>2. e \in 1..Len(b)
      BY <3>1, HeaderEnd
    <3>3. n = e + request_framing(SubSeq(b, 1, e - 1)).n
      BY <2>2, <3>1 DEF Total
    <3>4. request_framing(SubSeq(b, 1, e - 1)).n \in Nat
      BY FramingIs
    <3>5. Hit(kind, w) = hit_of(extract_query(SubSeq(w, 1, find_header_end(w) - 1),
                                              SubSeq(w, find_header_end(w) + 1, Len(w))))
      BY <2>2 DEF Hit
    <3>6. HitAt(kind, b, n) = hit_of(extract_query(SubSeq(b, 1, e - 1), SubSeq(b, e + 1, n)))
      BY <2>2 DEF HitAt
    <3>7. n <= Len(b) /\ n \in 0..Len(b)
      BY <1>1
    <3> DEFINE f == request_framing(SubSeq(b, 1, e - 1)).n
    <3> HIDE DEF n, e, f
    <3>8. e \in Nat /\ e \in 1..n /\ e - 1 \in 0..n /\ n \in 0..n /\ e + 1 \in Nat /\ 1 <= e + 1 /\ e + 1 <= n + 1
          /\ 1 \in Nat /\ 1 <= (e - 1) + 1
      <4>1. n = e + f /\ f \in Nat
        BY <3>3, <3>4 DEF f
      <4> QED
        BY <1>0, <3>2, <3>7, <4>1
    <3>9. find_header_end(w) = e
      <4>1. find_header_end(b) \in 1..n
        BY <3>8 DEF e
      <4> QED
        BY <3>7, <4>1, EndOfPart DEF e
    <3>10. SubSeq(w, 1, e - 1) = SubSeq(b, 1, e - 1)
      BY <3>7, <3>8, SubSub
    <3>11. SubSeq(w, e + 1, n) = SubSeq(b, e + 1, n)
      BY <3>7, <3>8, SubSub
    <3> QED
      BY <1>2, <3>5, <3>6, <3>9, <3>10, <3>11
  <2> QED
    BY <2>1, <2>2
<1> QED
  BY <1>4, <1>5

Helds(B, u, x, i, j) ==
    /\ Held(u, x, i, j) \in Seq(B) /\ Len(u) \in Nat /\ Len(Held(u, x, i, j)) = Len(u) + (j - i)
    /\ \A p \in 1..Len(u) : Held(u, x, i, j)[p] = u[p]
    /\ \A p \in 1..(j - i) : Held(u, x, i, j)[Len(u) + p] = x[i + p]

LEMMA HeldHas ==
    ASSUME NEW B, NEW u \in Seq(B), NEW x \in Seq(B), NEW j \in 0..Len(x), NEW i \in 0..j
    PROVE  Helds(B, u, x, i, j)
<1>1. Slices(B, x, i, j)
  BY SliceIs
<1>2. Spliced(B, u, Slice(x, i, j), Held(u, x, i, j))
  BY <1>1, Concatenated DEF Held, Slices
<1> QED
  BY <1>1, <1>2 DEF Slices, Spliced, Helds

LEMMA ReadsMessage ==
    ASSUME NEW s, Sound(s), s.kind \in {"dot", "doh"}, NEW last \in 0..Len(s.app), NEW k \in 0..last,
           \A i \in (k + 1)..last : /\ Total(s.kind, Held(Asked(s)[k].held, s.app, k, i)) \in Nat
                                    /\ ~ Whole(s.kind, Held(Asked(s)[k].held, s.app, k, i))
    PROVE  Asked(s)[last] = Acc(Held(Asked(s)[k].held, s.app, k, last), 0, Asked(s)[k].out)
<1> DEFINE B == Bytes(s)
           x == s.app
           u == Asked(s)[k].held
           v == Asked(s)[k].out
           f == [i \in k..last |-> Acc(Held(u, x, k, i), 0, v)]
<1>0. Len(x) \in Nat /\ last \in Nat /\ k \in Nat /\ last <= Len(x) /\ k <= last /\ k \in 0..Len(x) /\ x \in Seq(B)
  BY AppIs DEF Sound
<1>1. AccOf(B, s, Asked(s)[k])
  BY <1>0, AskedSound
<1>2. u \in Seq(B) /\ v \in Seq(B) /\ Asked(s)[k] = Acc(u, 0, v)
  BY <1>1 DEF AccOf
<1>9. \A i \in (k + 1)..last : Total(s.kind, Held(u, x, k, i)) \in Nat /\ ~ Whole(s.kind, Held(u, x, k, i))
  OBVIOUS
<1> HIDE DEF B, u, v
<1>3. f[k] = Asked(s)[k]
  <2>1. Held(u, x, k, k) = u
    BY <1>0, <1>2, HeldNone
  <2>2. f[k] = Acc(Held(u, x, k, k), 0, v)
    BY <1>0
  <2> QED
    BY <1>2, <2>1, <2>2
<1>4. ASSUME NEW i \in (k + 1)..last
      PROVE  Asking(s, f[i - 1], s.app[i]) = f[i]
  <2>1. i \in k..last /\ i - 1 \in k..last /\ i \in 1..Len(x) /\ k \in 0..(i - 1) /\ i \in 0..Len(x) /\ k \in 0..i
    BY <1>0
  <2>2. Append(Held(u, x, k, i - 1), x[i]) = Held(u, x, k, i)
    BY <1>0, <1>2, <2>1, HeldByOne
  <2> DEFINE a == f[i - 1]
             w == Held(u, x, k, i)
             b == x[i]
  <2>3. a = Acc(Held(u, x, k, i - 1), 0, v)
    BY <2>1
  <2>4. f[i] = Acc(w, 0, v)
    BY <2>1
  <2> HIDE DEF f, a
  <2>5. a.held = Held(u, x, k, i - 1) /\ a.left = 0 /\ a.out = v
    BY <2>3 DEF Acc
  <2>6. Append(a.held, b) = w
    BY <2>2, <2>5
  <2>7. w \in Seq(B) /\ Total(s.kind, w) \in Nat /\ ~ Whole(s.kind, w)
    <3>1. w \in Seq(B)
      BY <1>0, <1>2, <2>1, HeldIs
    <3> QED
      BY <1>9, <3>1
  <2> HIDE DEF w, b
  <2>8. ReadsDns(s, a, Append(a.held, b), Asking(s, a, b))
    <3>1. Append(a.held, b) \in Seq(B) /\ Total(s.kind, Append(a.held, b)) \in Nat
      BY <2>6, <2>7
    <3>2. s.kind \in {"dot", "doh"}
      OBVIOUS
    <3> QED
      BY ONLY <3>1, <3>2, AskingDns
  <2>9. Asking(s, a, b) = [a EXCEPT !.held = w]
    BY <2>6, <2>7, <2>8 DEF ReadsDns
  <2>10. [a EXCEPT !.held = w] = Acc(w, 0, v)
    BY <2>3 DEF Acc
  <2> QED
    BY <2>4, <2>9, <2>10 DEF a, b
<1>5. f[last] = Acc(Held(u, x, k, last), 0, v)
  BY <1>0
<1> HIDE DEF f
<1>6. Asked(s)[last] = f[last]
  BY <1>3, <1>4, AskedRuns
<1> QED
  BY <1>5, <1>6 DEF u, v

\* What is held is led by its octets, wherever the bytes were cut.
LEMMA LedIs ==
    ASSUME NEW s, Sound(s), s.kind \in {"dot", "doh"}, NEW last \in 0..Len(s.app), NEW k \in 0..last
    PROVE  Led(s.kind, Held(Asked(s)[k].held, s.app, k, last))
<1> DEFINE B == Bytes(s)
           x == s.app
           u == Asked(s)[k].held
           w == Held(u, x, k, last)
<1>0. Len(x) \in Nat /\ last \in Nat /\ k \in Nat /\ last <= Len(x) /\ k <= last /\ k \in 0..Len(x) /\ x \in Seq(B)
      /\ DOMAIN x = 1..Len(x)
  BY AppIs DEF Sound
<1>1. AccOf(B, s, Asked(s)[k])
  BY <1>0, AskedSound
<1>2. u \in Seq(B) /\ Led(s.kind, u)
  BY <1>1 DEF AccOf
<1>3. SUFFICES ASSUME s.kind = "dot", NEW i \in 1..Len(w), i <= 2
               PROVE  w[i] \in Octets
  BY DEF Led
<1> HIDE DEF B, u
<1>4. /\ w \in Seq(B) /\ Len(u) \in Nat /\ Len(w) = Len(u) + (last - k)
      /\ \A p \in 1..Len(u) : w[p] = u[p]
      /\ \A p \in 1..(last - k) : w[Len(u) + p] = x[k + p]
  <2>1. Helds(B, u, x, k, last)
    BY <1>0, <1>2, HeldHas
  <2> QED
    BY <2>1 DEF Helds
<1> HIDE DEF w
<1>5. CASE i \in 1..Len(u)
  BY <1>2, <1>3, <1>4, <1>5 DEF Led
<1>6. CASE i \notin 1..Len(u)
  <2> DEFINE p == i - Len(u)
             j == k + p
  <2>1. /\ p \in 1..(last - k) /\ i = Len(u) + p /\ j \in 1..Len(x) /\ j - 1 \in 0..Len(x) /\ k \in 0..(j - 1)
        /\ j \in Nat /\ (j - 1) - k = p - 1
    <3>1. Len(u) \in Nat /\ i \in Nat /\ i <= Len(u) + (last - k) /\ ~ (i <= Len(u))
      BY <1>0, <1>3, <1>4, <1>6
    <3>2. p \in 1..(last - k) /\ i = Len(u) + p /\ p \in Nat
      BY <1>0, <3>1
    <3> HIDE DEF p
    <3> QED
      BY <1>0, <3>2
  <2>2. w[i] = x[j]
    BY <1>4, <2>1
  <2> HIDE DEF p, j
  <2>3. ASSUME NEW m \in (k + 1)..(j - 1)
        PROVE  Total(s.kind, Held(u, x, k, m)) \in Nat /\ ~ Whole(s.kind, Held(u, x, k, m))
    <3>1. m \in 0..Len(x) /\ k \in 0..m /\ m - k <= p - 1 /\ m \in Nat
      BY <1>0, <2>1
    <3>2. Len(Held(u, x, k, m)) = Len(u) + (m - k)
      BY <1>0, <1>2, <3>1, HeldIs
    <3>3. Len(Held(u, x, k, m)) < 2
      BY <1>0, <1>3, <1>4, <2>1, <3>1, <3>2
    <3>4. Total(s.kind, Held(u, x, k, m)) = 0
      BY <1>3, <3>3 DEF Total
    <3> QED
      BY <3>4 DEF Whole
  <2>4. Asked(s)[j - 1] = Acc(Held(u, x, k, j - 1), 0, Asked(s)[k].out)
    <3> DEFINE l == j - 1
    <3>1. l \in 0..Len(x) /\ k \in 0..l
      BY <2>1
    <3>2. \A m \in (k + 1)..l : Total(s.kind, Held(u, x, k, m)) \in Nat /\ ~ Whole(s.kind, Held(u, x, k, m))
      BY <2>3
    <3> HIDE DEF l
    <3>3. Asked(s)[l] = Acc(Held(u, x, k, l), 0, Asked(s)[k].out)
      BY <3>1, <3>2, ReadsMessage DEF u
    <3> QED
      BY <3>3 DEF l
  <2>5. Len(Asked(s)[j - 1].held) = Len(u) + ((j - 1) - k)
    <3>1. Asked(s)[j - 1].held = Held(u, x, k, j - 1)
      BY <2>4 DEF Acc
    <3>2. Len(Held(u, x, k, j - 1)) = Len(u) + ((j - 1) - k)
      <4>1. Helds(B, u, x, k, j - 1)
        BY <1>0, <1>2, <2>1, HeldHas
      <4> QED
        BY <4>1 DEF Helds
    <3> QED
      BY <3>1, <3>2
  <2>6. Len(Asked(s)[j - 1].held) < 2
    BY <1>0, <1>3, <1>4, <2>1, <2>5
  <2>7. s.app[j] \in Octets
    BY <1>0, <1>3, <2>1, <2>6 DEF Sound
  <2> QED
    BY <2>2, <2>7
<1> QED
  BY <1>5, <1>6

\* What is made of the message at the front of a buffer, when it is all there.
MessageIs(s, k, last, b, total) ==
    /\ b \in Seq(Bytes(s)) /\ total \in Nat
    /\ total = 0 \/ Len(b) < total => Asked(s)[last] = Acc(b, 0, Asked(s)[k].out)
    /\ total > 0 /\ total <= Len(b) =>
          /\ SubSeq(b, 1, total) \in Seq(Bytes(s))
          /\ \E j \in (k + 1)..last :
                /\ Asked(s)[j] = Acc(<<>>, 0, Asked(s)[k].out \o
                                    (IF HitAt(s.kind, b, total) # {} THEN <<>> ELSE SubSeq(b, 1, total)))
                /\ Behind(b, total) = Slice(s.app, j, last)

LEMMA MessageRead ==
    ASSUME NEW s, Sound(s), s.kind \in {"dot", "doh"}, NEW last \in 0..Len(s.app), NEW k \in 0..last
    PROVE  MessageIs(s, k, last, Held(Asked(s)[k].held, s.app, k, last),
                     Total(s.kind, Held(Asked(s)[k].held, s.app, k, last)))
<1> DEFINE B == Bytes(s)
           x == s.app
           u == Asked(s)[k].held
           v == Asked(s)[k].out
           b == Held(u, x, k, last)
           kind == s.kind
           total == Total(kind, b)
<1>0. Len(x) \in Nat /\ last \in Nat /\ k \in Nat /\ last <= Len(x) /\ k <= last /\ k \in 0..Len(x) /\ x \in Seq(B)
      /\ DOMAIN x = 1..Len(x)
  BY AppIs DEF Sound
<1>1. AccOf(B, s, Asked(s)[k])
  BY <1>0, AskedSound
<1>2. u \in Seq(B) /\ v \in Seq(B) /\ Len(u) \in Nat
      /\ (Total(kind, u) = 0 \/ Len(u) < Total(kind, u))
  BY <1>1, LenProperties DEF AccOf
<1>3. Led(kind, b)
  BY LedIs
<1> HIDE DEF B, u, v
<1>4. b \in Seq(B) /\ Len(b) = Len(u) + (last - k) /\ Len(b) \in Nat
  <2>1. Helds(B, u, x, k, last)
    BY <1>0, <1>2, HeldHas
  <2>2. b \in Seq(B) /\ Len(b) = Len(u) + (last - k)
    BY <2>1 DEF Helds
  <2> QED
    BY <2>2, LenProperties
<1>5. total \in Nat
  BY <1>3, <1>4, TotalIs
<1>6. kind \in {"dot", "doh"}
  OBVIOUS
<1> HIDE DEF kind
<1>7. ASSUME NEW i \in k..last
      PROVE  /\ Held(u, x, k, i) = SubSeq(b, 1, Len(u) + (i - k)) /\ Len(u) + (i - k) \in 0..Len(b)
             /\ Len(Held(u, x, k, i)) = Len(u) + (i - k)
             /\ Held(u, x, k, i) \in Seq(B)
             /\ Total(kind, Held(u, x, k, i)) \in {0, total}
             /\ Len(u) + (i - k) >= total => Total(kind, Held(u, x, k, i)) = total
  <2> DEFINE n == Len(u) + (i - k)
  <2>1. n \in Nat /\ Len(u) <= n /\ n <= Len(u) + (last - k) /\ k + (n - Len(u)) = i /\ k \in 0..last /\ n \in 0..Len(b)
        /\ i \in 0..Len(x) /\ k \in 0..i
    BY <1>0, <1>2, <1>4, SMTT(20)
  <2> HIDE DEF n, b
  <2>2. SubSeq(b, 1, n) = Held(u, x, k, i)
    <3>1. SubSeq(Held(u, x, k, last), 1, n) = Held(u, x, k, k + (n - Len(u)))
      BY <1>0, <1>2, <2>1, HeldCut
    <3> QED
      BY <2>1, <3>1 DEF b
  <2>3. /\ Total(kind, SubSeq(b, 1, n)) \in {0, Total(kind, b)}
        /\ n >= Total(kind, b) => Total(kind, SubSeq(b, 1, n)) = Total(kind, b)
    BY <1>3, <1>4, <1>6, <2>1, TotalOfPart
  <2>4. Held(u, x, k, i) \in Seq(B) /\ Len(Held(u, x, k, i)) = Len(u) + (i - k)
    <3>1. Helds(B, u, x, k, i)
      BY <1>0, <1>2, <2>1, HeldHas
    <3> QED
      BY <3>1 DEF Helds
  <2> QED
    BY <2>1, <2>2, <2>3, <2>4 DEF n
<1> HIDE DEF b, total
<1>8. ASSUME NEW l \in k..last, total = 0 \/ Len(u) + (l - k) < total
      PROVE  Asked(s)[l] = Acc(Held(u, x, k, l), 0, v)
  <2>1. l \in 0..Len(x) /\ k \in 0..l
    BY <1>0
  <2>2. ASSUME NEW i \in (k + 1)..l
        PROVE  Total(kind, Held(u, x, k, i)) \in Nat /\ ~ Whole(kind, Held(u, x, k, i))
    <3>1. i \in k..last /\ Len(u) + (i - k) <= Len(u) + (l - k) /\ Len(u) + (i - k) \in Nat
      BY <1>0, <1>2
    <3>2. Len(Held(u, x, k, i)) = Len(u) + (i - k) /\ Total(kind, Held(u, x, k, i)) \in {0, total}
      BY <1>7, <3>1
    <3> DEFINE t == Total(kind, Held(u, x, k, i))
               n == Len(Held(u, x, k, i))
    <3>3. t \in Nat
      BY <1>5, <3>2
    <3> HIDE DEF t, n
    <3>4. ~ (t > 0 /\ n = t)
      <4>1. n = Len(u) + (i - k) /\ t \in {0, total}
        BY <3>2 DEF n, t
      <4> QED
        BY <1>0, <1>2, <1>5, <1>8, <3>1, <4>1
    <3> QED
      BY <3>3, <3>4 DEF Whole, t, n
  <2> QED
    BY <2>1, <2>2, ReadsMessage DEF u, v, kind
<1>9. total = 0 \/ Len(b) < total => Asked(s)[last] = Acc(b, 0, v)
  BY <1>0, <1>4, <1>8 DEF b
<1>10. ASSUME total > 0, total <= Len(b)
       PROVE  /\ SubSeq(b, 1, total) \in Seq(B)
              /\ \E j \in (k + 1)..last :
                    /\ Asked(s)[j] = Acc(<<>>, 0, v \o
                                        (IF HitAt(kind, b, total) # {} THEN <<>> ELSE SubSeq(b, 1, total)))
                    /\ Behind(b, total) = Slice(x, j, last)
  <2>1. Len(u) < total
    <3> SUFFICES ASSUME Len(u) >= total
                 PROVE  FALSE
      BY <1>2, <1>5
    <3>1. k \in k..last /\ k - k = 0 /\ Len(u) + (k - k) = Len(u)
      BY <1>0, <1>2
    <3>2. Total(kind, Held(u, x, k, k)) = total
      BY <1>7, <3>1
    <3>3. Held(u, x, k, k) = u
      BY <1>0, <1>2, HeldNone
    <3> QED
      BY <1>2, <1>5, <1>10, <3>2, <3>3
  <2> DEFINE j == k + (total - Len(u))
             w == Held(u, x, k, j)
  <2>2. /\ j \in (k + 1)..last /\ j \in k..last /\ Len(u) + (j - k) = total /\ j - 1 \in k..last
        /\ Len(u) + ((j - 1) - k) < total /\ j \in 1..Len(x) /\ k \in 0..(j - 1) /\ k \in 0..last
        /\ Len(u) <= total /\ total <= Len(u) + (last - k)
    BY <1>0, <1>2, <1>4, <1>5, <1>10, <2>1
  <2>3. Behind(b, total) = Slice(x, j, last)
    BY <1>0, <1>2, <1>5, <2>2, HeldCut DEF b
  <2> HIDE DEF j
  <2>4. w = SubSeq(b, 1, total) /\ w \in Seq(B)
    <3>1. Held(u, x, k, j) = SubSeq(b, 1, Len(u) + (j - k)) /\ Held(u, x, k, j) \in Seq(B)
      BY <1>7, <2>2
    <3> QED
      BY <2>2, <3>1
  <2>5. Hit(kind, w) = HitAt(kind, b, total) /\ Whole(kind, w)
    <3>1. /\ Hit(kind, SubSeq(b, 1, Total(kind, b))) = HitAt(kind, b, Total(kind, b))
          /\ Whole(kind, SubSeq(b, 1, Total(kind, b)))
      BY <1>3, <1>4, <1>6, <1>10, HitOfPart DEF total
    <3> QED
      BY <2>4, <3>1 DEF total
  <2> DEFINE a == Asked(s)[j - 1]
             y == x[j]
  <2>6. a = Acc(Held(u, x, k, j - 1), 0, v)
    BY <1>8, <2>2
  <2>7. a.held = Held(u, x, k, j - 1) /\ a.out = v
    BY <2>6 DEF Acc
  <2>8. Append(a.held, y) = w
    <3>1. Append(Held(u, x, k, j - 1), x[j]) = Held(u, x, k, j)
      BY <1>0, <1>2, <2>2, HeldByOne
    <3> QED
      BY <2>7, <3>1
  <2>9. Asked(s)[j] = Asking(s, a, y)
    <3>1. j - 1 \in 0..Len(x)
      BY <2>2
    <3>2. AccOf(Bytes(s), s, Asked(s)[j - 1])
      BY <3>1, AskedSound
    <3> QED
      BY <2>2, <3>2, AskedStep
  <2>10. Total(kind, w) \in Nat
    <3>1. Total(kind, Held(u, x, k, j)) \in {0, total}
      BY <1>7, <2>2
    <3> QED
      BY <1>5, <3>1
  <2> HIDE DEF w, a, y
  <2>11. ReadsDns(s, a, Append(a.held, y), Asking(s, a, y))
    <3>1. Append(a.held, y) \in Seq(B) /\ Total(s.kind, Append(a.held, y)) \in Nat
      BY <2>4, <2>8, <2>10 DEF kind
    <3>2. s.kind \in {"dot", "doh"}
      OBVIOUS
    <3> QED
      BY ONLY <3>1, <3>2, AskingDns
  <2>12. Asked(s)[j] = Acc(<<>>, 0, v \o (IF HitAt(kind, b, total) # {} THEN <<>> ELSE SubSeq(b, 1, total)))
    BY <2>4, <2>5, <2>7, <2>8, <2>9, <2>11 DEF ReadsDns, kind
  <2> QED
    BY <2>2, <2>3, <2>4, <2>12
<1>11. MessageIs(s, k, last, b, total)
  BY <1>4, <1>5, <1>9, <1>10 DEF MessageIs, B, v, kind
<1> QED
  BY <1>11 DEF b, total, u, kind

-----------------------------------------------------------------------------
(* One turn of a loop *)

\* The states that read the app's plaintext, field by field.
DotSt(buf, given_up, st) ==
    [kind |-> "Dot", app_buf |-> buf, passthrough |-> given_up, blocked |-> st.blocked]
DohSt(proto, buf, given_up, st) ==
    [kind |-> "Doh", proto |-> proto, app_buf |-> buf, h2 |-> st.h2, up |-> st.up,
     pending |-> st.pending, h1_passthrough |-> given_up, blocked |-> st.blocked]
RwSt(active, given_up, req, buf, rw) ==
    [active |-> active, disabled |-> given_up, req |-> req, req_buf |-> buf,
     resp |-> rw.resp, resp_buf |-> rw.resp_buf, pending_head |-> rw.pending_head]

\* What the server may answer, and how the rewriter stands to it.
Heard(s) == UNION {{s.replies[i][j] : j \in 1..Len(s.replies[i])} : i \in 1..Len(s.replies)}
Kinds == {"Length", "UntilClose", "Chunked"}
States == {"Size", "Trailer", "Data", "DataCrlf"}
BodyOk(f) ==
    /\ f = [kind |-> f.kind, state |-> f.state, n |-> f.n, line |-> f.line]
    /\ f.kind \in Kinds /\ f.state \in States /\ f.n \in Nat
\* A response is between heads, or in a body.
Hears(R, resp, resp_buf) ==
    /\ resp_buf \in Seq(R)
    /\ resp = [phase |-> resp.phase, head |-> resp.head, scan |-> resp.scan, body |-> resp.body,
               body_done |-> resp.body_done]
    /\ resp.phase = "Head" \/ (resp.phase \in {"Buffer", "Stream", "Pass"} /\ BodyOk(resp.body))

Written(what, c) == IF what = "request" THEN c.out ELSE c.to_upstream

\* c has read k bytes of the first last, and holds the others; with u before it, what it
\* has written is what they ask.
Stands(what, s, u, c, k, last) ==
    /\ Written(what, c) \in Seq(Bytes(s)) /\ u \o Written(what, c) = Asked(s)[k].out
    /\ what = "dot" => c.st = DotSt(Held(Asked(s)[k].held, s.app, k, last), FALSE, c.st)
    /\ what = "doh" => c.st = DohSt("H1", Held(Asked(s)[k].held, s.app, k, last), FALSE, c.st)
    /\ what = "request" =>
           /\ c.rw = RwSt(TRUE, FALSE, Asked(s)[k].left, Held(Asked(s)[k].held, s.app, k, last), c.rw)
           /\ Hears(Heard(s), c.rw.resp, c.rw.resp_buf)

\* It has given up.
Lost(what, c) ==
    /\ what = "dot" => c.st = DotSt(<<>>, TRUE, c.st)
    /\ what = "doh" => c.st = DohSt("H1", <<>>, TRUE, c.st)
    /\ what = "request" => c.rw = RwSt(TRUE, TRUE, 0, <<>>, c.rw)

\* A turn gives up, is stuck with all read, or reads on.
Turned(what, s, u, next, k, last) ==
    \/ Lost(what, next)
    \/ \E j \in k..last : Stands(what, s, u, next, j, last) /\ (j = last \/ j > k)

WritesOn(B, u, up, w) == up \o w \in Seq(B) /\ u \o (up \o w) = (u \o up) \o w

LEMMA WroteOn ==
    ASSUME NEW B, NEW u \in Seq(B), NEW up \in Seq(B), NEW w \in Seq(B)
    PROVE  WritesOn(B, u, up, w)
<1>1. Associates(u, up, w)
  BY Associative
<1>2. up \o w \in Seq(B)
  BY Concat
<1> QED
  BY <1>1, <1>2 DEF Associates, WritesOn

\* All is held that was read.
LEMMA HeldAll ==
    ASSUME NEW s, Sound(s), NEW last \in 0..Len(s.app), NEW b \in Seq(Bytes(s))
    PROVE  Held(b, s.app, last, last) = b
<1>1. s.app \in Seq(Bytes(s))
  BY AppIs DEF Sound
<1> QED
  BY <1>1, HeldNone

LEMMA HeldRest ==
    ASSUME NEW s, Sound(s), NEW last \in 0..Len(s.app), NEW j \in 0..last
    PROVE  Held(<<>>, s.app, j, last) = Slice(s.app, j, last)
<1>1. s.app \in Seq(Bytes(s))
  BY AppIs DEF Sound
<1> DEFINE w == Slice(s.app, j, last)
<1>2. w \in Seq(Bytes(s))
  BY <1>1, SliceIs DEF Slices
<1> HIDE DEF w
<1>3. <<>> \o w = w
  BY <1>2, Concat
<1> QED
  BY <1>3 DEF Held, w

MessageSt(what, buf, given_up, st) ==
    IF what = "dot" THEN DotSt(buf, given_up, st) ELSE DohSt("H1", buf, given_up, st)

\* What a turn over messages does, by what it makes of the one at the front.
Goes(what, s, u, c, next, k, last, b, total) ==
    /\ (total = 0 \/ Len(b) < total) /\ next.st = c.st /\ next.to_upstream = c.to_upstream =>
           Turned(what, s, u, next, k, last)
    /\ next.st = MessageSt(what, <<>>, TRUE, next.st) => Turned(what, s, u, next, k, last)
    /\ total > 0 /\ total <= Len(b) /\ next.st = MessageSt(what, Behind(b, total), FALSE, next.st)
         /\ next.to_upstream = (IF HitAt(what, b, total) # {} THEN c.to_upstream
                                ELSE c.to_upstream \o SubSeq(b, 1, total)) =>
           Turned(what, s, u, next, k, last)

LEMMA MessageTurn ==
    ASSUME NEW s, Sound(s), NEW what \in {"dot", "doh"}, s.kind = what,
           NEW last \in 0..Len(s.app), NEW k \in 0..last,
           NEW u \in Seq(Bytes(s)), NEW c, Stands(what, s, u, c, k, last), NEW next
    PROVE  Goes(what, s, u, c, next, k, last, Held(Asked(s)[k].held, s.app, k, last),
                Total(what, Held(Asked(s)[k].held, s.app, k, last)))
<1> DEFINE B == Bytes(s)
           x == s.app
           b == Held(Asked(s)[k].held, x, k, last)
           v == Asked(s)[k].out
           total == Total(what, b)
           up == c.to_upstream
           n == Len(b)
           hit == HitAt(what, b, total)
           w == SubSeq(b, 1, total)
<1>0. Len(x) \in Nat /\ last \in Nat /\ k \in Nat /\ last <= Len(x) /\ k <= last
  BY AppIs DEF Sound
<1>1. c.st = MessageSt(what, b, FALSE, c.st) /\ up \in Seq(B) /\ u \o up = v
  BY DEF Stands, Written, MessageSt
<1>2. MessageIs(s, k, last, b, total)
  BY MessageRead
<1>3. b \in Seq(B) /\ total \in Nat /\ n \in Nat
  BY <1>2, LenProperties DEF MessageIs
<1> HIDE DEF b, v, total, up, n, hit, w
<1>6. ASSUME total = 0 \/ n < total, next.st = c.st, next.to_upstream = up
      PROVE  Turned(what, s, u, next, k, last)
  <2>1. Asked(s)[last] = Acc(b, 0, v)
    BY <1>2, <1>6 DEF MessageIs, n, v
  <2>2. Asked(s)[last].held = b /\ Asked(s)[last].out = v
    BY <2>1 DEF Acc
  <2>4. Held(Asked(s)[last].held, x, last, last) = b
    BY <1>3, <2>2, HeldAll
  <2>5. Stands(what, s, u, next, last, last)
    BY <1>1, <1>6, <2>2, <2>4 DEF Stands, Written, MessageSt
  <2> QED
    BY <1>0, <2>5 DEF Turned
<1>7. ASSUME next.st = MessageSt(what, <<>>, TRUE, next.st)
      PROVE  Turned(what, s, u, next, k, last)
  BY <1>7 DEF Turned, Lost, MessageSt
<1>8. ASSUME total > 0, total <= n, next.st = MessageSt(what, Behind(b, total), FALSE, next.st),
             next.to_upstream = (IF hit # {} THEN up ELSE up \o w)
      PROVE  Turned(what, s, u, next, k, last)
  <2>1. PICK j \in (k + 1)..last :
           /\ Asked(s)[j] = Acc(<<>>, 0, v \o (IF hit # {} THEN <<>> ELSE w))
           /\ Behind(b, total) = Slice(x, j, last)
    BY <1>2, <1>8 DEF MessageIs, n, v, hit, w
  <2>2. w \in Seq(B)
    BY <1>2, <1>8 DEF MessageIs, n, w
  <2>3. Asked(s)[j].held = <<>> /\ Asked(s)[j].out = v \o (IF hit # {} THEN <<>> ELSE w)
    BY <2>1 DEF Acc
  <2>4. next.to_upstream \in Seq(B) /\ u \o next.to_upstream = Asked(s)[j].out
    <3>1. CASE hit # {}
      <4>1. v \in Seq(B)
        BY <1>1, Concat
      <4>2. v \o <<>> = v
        BY <4>1, Concat
      <4> QED
        BY <1>1, <1>8, <2>3, <3>1, <4>2
    <3>2. CASE hit = {}
      <4>1. WritesOn(B, u, up, w)
        BY <1>1, <2>2, WroteOn
      <4>2. up \o w \in Seq(B) /\ u \o (up \o w) = (u \o up) \o w
        BY <4>1 DEF WritesOn
      <4> QED
        BY <1>1, <1>8, <2>3, <3>2, <4>2
    <3> QED
      BY <3>1, <3>2
  <2>5. j \in k..last /\ j \in 0..last /\ j > k
    BY <1>0
  <2>6. Held(Asked(s)[j].held, x, j, last) = Behind(b, total)
    BY <2>1, <2>3, <2>5, HeldRest
  <2>7. Stands(what, s, u, next, j, last)
    BY <1>8, <2>4, <2>6 DEF Stands, Written, MessageSt
  <2> QED
    BY <2>5, <2>7 DEF Turned
<1>9. Goes(what, s, u, c, next, k, last, b, total)
  BY <1>6, <1>7, <1>8 DEF Goes, n, up, hit, w
<1> QED
  BY <1>9 DEF b, total

LEMMA DotTurn ==
    ASSUME NEW s, Sound(s), s.kind = "dot", NEW last \in 0..Len(s.app), NEW k \in 0..last,
           NEW u \in Seq(Bytes(s)), NEW c, Stands("dot", s, u, c, k, last)
    PROVE  Turned("dot", s, u, dot_message(c.st, c.to_upstream, c.to_app), k, last)
<1> DEFINE B == Bytes(s)
           x == s.app
           b == Held(Asked(s)[k].held, x, k, last)
           v == Asked(s)[k].out
           total == Total("dot", b)
           up == c.to_upstream
           n == Len(b)
           hit == HitAt("dot", b, total)
           next == dot_message(c.st, up, c.to_app)
           w == SubSeq(b, 1, total)
<1>0. Len(x) \in Nat /\ last \in Nat /\ k \in Nat /\ last <= Len(x) /\ k <= last
  BY AppIs DEF Sound
<1>1. c.st = DotSt(b, FALSE, c.st) /\ up \in Seq(B) /\ u \o up = v
  BY DEF Stands, Written
<1>2. MessageIs(s, k, last, b, total)
  <2>1. s.kind \in {"dot", "doh"} /\ "dot" = s.kind
    OBVIOUS
  <2> QED
    BY <2>1, MessageRead
<1>3. b \in Seq(B) /\ total \in Nat /\ n \in Nat
  BY <1>2, LenProperties DEF MessageIs
<1>4. total = IF n < 2 THEN 0 ELSE dot_total(b)
  BY DEF Total
<1>5. ~ (n < 2) => total >= 2
  <2>1. Led("dot", b)
    BY LedIs
  <2> QED
    BY <1>3, <2>1, TotalIs
<1> HIDE DEF b, v, total, up, n, hit, next, w
<1>6. Goes("dot", s, u, c, next, k, last, b, total)
  <2>1. "dot" \in {"dot", "doh"} /\ s.kind = "dot"
    OBVIOUS
  <2> QED
    BY <2>1, MessageTurn DEF b, total
<1> DEFINE st == c.st
           names(h) == SetToSeq({NameOf[q] : q \in h})
           t(h) == [st EXCEPT !.app_buf = Behind(@, dot_total(b)), !.blocked = @ \o names(h)]
<1>9. st.app_buf = b
  BY <1>1 DEF DotSt
<1>10. next = IF n < 2 THEN Cross(st, up, c.to_app)
              ELSE IF n < dot_total(b)
              THEN IF dot_total(b) > MAX_PENDING
                   THEN Cross([st EXCEPT !.passthrough = TRUE, !.app_buf = <<>>], up \o b, c.to_app)
                   ELSE Cross(st, up, c.to_app)
              ELSE IF block_wire(SubSeq(b, 3, dot_total(b))) # {}
              THEN Cross(t(block_wire(SubSeq(b, 3, dot_total(b)))), up,
                         c.to_app \o framed(nxdomain(CHOOSE q \in block_wire(SubSeq(b, 3, dot_total(b))) : TRUE)))
              ELSE Cross(t(block_wire(SubSeq(b, 3, dot_total(b)))), up \o SubSeq(b, 1, dot_total(b)), c.to_app)
  BY <1>9 DEF next, dot_message, n
<1>11. ASSUME NEW h
       PROVE  t(h) = DotSt(Behind(b, dot_total(b)), FALSE, t(h))
  <2> DEFINE l == names(h)
             m == Behind(b, dot_total(b))
             bl == st.blocked
  <2>1. st = [kind |-> "Dot", app_buf |-> b, passthrough |-> FALSE, blocked |-> bl]
    BY <1>1 DEF DotSt
  <2>3. t(h) = [st EXCEPT !.app_buf = m, !.blocked = bl \o l]
    BY <1>9
  <2> HIDE DEF st, l, m, bl, t
  <2>2. t(h) = [kind |-> "Dot", app_buf |-> m, passthrough |-> FALSE, blocked |-> bl \o l]
    BY <2>1, <2>3
  <2>4. t(h).blocked = bl \o l
    BY <2>2
  <2> QED
    BY <2>2, <2>4 DEF DotSt, m
<1>12. ASSUME NEW y, y = [st EXCEPT !.passthrough = TRUE, !.app_buf = <<>>]
       PROVE  y = DotSt(<<>>, TRUE, y)
  <2> DEFINE bl == st.blocked
  <2>1. st = [kind |-> "Dot", app_buf |-> b, passthrough |-> FALSE, blocked |-> bl]
    BY <1>1 DEF DotSt
  <2> HIDE DEF st, bl
  <2>2. y = [kind |-> "Dot", app_buf |-> <<>>, passthrough |-> TRUE, blocked |-> bl]
    BY <1>12, <2>1
  <2>3. y.blocked = bl
    BY <2>2
  <2> QED
    BY <2>2, <2>3 DEF DotSt
<1> HIDE DEF st, t
<1>13. CASE n < 2
  <2>1. next.st = c.st /\ next.to_upstream = up
    BY <1>10, <1>13 DEF st, Cross
  <2> QED
    BY <1>4, <1>6, <1>13, <2>1 DEF next, up, Goes
<1>14. CASE ~ (n < 2) /\ n < dot_total(b)
  <2>1. total = dot_total(b)
    BY <1>4, <1>14
  <2>2. CASE dot_total(b) > MAX_PENDING
    <3>1. next = Cross([st EXCEPT !.passthrough = TRUE, !.app_buf = <<>>], up \o b, c.to_app)
      BY <1>10, <1>14, <2>2
    <3>2. next.st = [st EXCEPT !.passthrough = TRUE, !.app_buf = <<>>]
      BY <3>1 DEF Cross
    <3>3. next.st = DotSt(<<>>, TRUE, next.st)
      BY <1>12, <3>2
    <3> QED
      BY <1>6, <3>3 DEF next, up, Goes, MessageSt
  <2>3. CASE ~ (dot_total(b) > MAX_PENDING)
    <3>1. next.st = c.st /\ next.to_upstream = up
      BY <1>10, <1>14, <2>3 DEF st, Cross
    <3> QED
      BY <1>6, <1>14, <2>1, <3>1 DEF next, up, n, Goes
  <2> QED
    BY <2>2, <2>3
<1>15. CASE ~ (n < 2) /\ ~ (n < dot_total(b))
  <2>1. total = dot_total(b) /\ total > 0 /\ total <= n
    BY <1>3, <1>4, <1>5, <1>15
  <2>2. hit = block_wire(SubSeq(b, 3, dot_total(b))) /\ w = SubSeq(b, 1, dot_total(b))
    BY <2>1 DEF hit, HitAt, w
  <2>3. next.st = t(hit) /\ next.to_upstream = (IF hit # {} THEN up ELSE up \o w)
    BY <1>10, <1>15, <2>2 DEF Cross
  <2>4. next.st = DotSt(Behind(b, total), FALSE, next.st)
    BY <1>11, <2>1, <2>3
  <2> QED
    BY <1>6, <2>1, <2>3, <2>4 DEF next, up, n, hit, w, Goes, MessageSt
<1> QED
  BY <1>13, <1>14, <1>15

LEMMA DohTurn ==
    ASSUME NEW s, Sound(s), s.kind = "doh", NEW last \in 0..Len(s.app), NEW k \in 0..last,
           NEW u \in Seq(Bytes(s)), NEW c, Stands("doh", s, u, c, k, last)
    PROVE  Turned("doh", s, u, h1_request(c.st, c.to_upstream, c.to_app), k, last)
<1> DEFINE x == s.app
           b == Held(Asked(s)[k].held, x, k, last)
           total == Total("doh", b)
           up == c.to_upstream
           n == Len(b)
           hit == HitAt("doh", b, total)
           next == h1_request(c.st, up, c.to_app)
           w == SubSeq(b, 1, total)
           st == c.st
           end == find_header_end(b)
           head == SubSeq(b, 1, end - 1)
           framing == request_framing(head)
           names(h) == SetToSeq({NameOf[q] : q \in h})
           t(h) == [st EXCEPT !.app_buf = Behind(@, end + framing.n), !.blocked = @ \o names(h)]
           found == hit_of(extract_query(head, SubSeq(b, end + 1, end + framing.n)))
<1>1. st = DohSt("H1", b, FALSE, st)
  BY DEF Stands
<1>2. MessageIs(s, k, last, b, total)
  <2>1. s.kind \in {"dot", "doh"} /\ "doh" = s.kind
    OBVIOUS
  <2> QED
    BY <2>1, MessageRead
<1>3. total \in Nat /\ n \in Nat
  BY <1>2, LenProperties DEF MessageIs
<1>4. total = IF end = 0 THEN 0 ELSE end + framing.n
  BY DEF Total
<1>5. end = 0 \/ end \in 1..n
  BY <1>2, HeaderEnd DEF MessageIs
<1>6. Goes("doh", s, u, c, next, k, last, b, total)
  <2>1. "doh" \in {"dot", "doh"} /\ s.kind = "doh"
    OBVIOUS
  <2> HIDE DEF next
  <2> QED
    BY <2>1, MessageTurn
<1>7. framing.n \in Nat
  BY FramingIs
<1>9. st.app_buf = b
  BY <1>1 DEF DohSt
<1>10. next = IF end = 0 THEN Cross(st, up, c.to_app)
              ELSE IF head = <<>> \/ head[1] \notin RequestLines \/ framing.kind = "Chunked"
              THEN Cross([st EXCEPT !.h1_passthrough = TRUE, !.app_buf = <<>>], up \o b, c.to_app)
              ELSE IF n < end + framing.n THEN Cross(st, up, c.to_app)
              ELSE IF found # {}
              THEN Cross(t(found), up, c.to_app \o h1_response(nxdomain(CHOOSE q \in found : TRUE)))
              ELSE Cross(t(found), up \o SubSeq(b, 1, end + framing.n), c.to_app)
  BY <1>9 DEF h1_request
<1> HIDE DEF b, total, up, n, hit, next, w, end, head, framing, found
<1>11. ASSUME NEW h
       PROVE  t(h) = DohSt("H1", Behind(b, end + framing.n), FALSE, t(h))
  <2> DEFINE l == names(h)
             m == Behind(b, end + framing.n)
             bl == st.blocked
             h2 == st.h2
             r == st.up
             pending == st.pending
  <2>1. st = [kind |-> "Doh", proto |-> "H1", app_buf |-> b, h2 |-> h2, up |-> r,
              pending |-> pending, h1_passthrough |-> FALSE, blocked |-> bl]
    BY <1>1 DEF DohSt
  <2>3. t(h) = [st EXCEPT !.app_buf = m, !.blocked = bl \o l]
    BY <1>9
  <2> HIDE DEF st, l, m, bl, h2, r, pending, t
  <2>2. t(h) = [kind |-> "Doh", proto |-> "H1", app_buf |-> m, h2 |-> h2, up |-> r,
                pending |-> pending, h1_passthrough |-> FALSE, blocked |-> bl \o l]
    BY <2>1, <2>3
  <2>4. t(h).blocked = bl \o l /\ t(h).h2 = h2 /\ t(h).up = r /\ t(h).pending = pending
    BY <2>2
  <2> QED
    BY <2>2, <2>4 DEF DohSt, m
<1>12. ASSUME NEW y, y = [st EXCEPT !.h1_passthrough = TRUE, !.app_buf = <<>>]
       PROVE  y = DohSt("H1", <<>>, TRUE, y)
  <2> DEFINE bl == st.blocked
             h2 == st.h2
             r == st.up
             pending == st.pending
  <2>1. st = [kind |-> "Doh", proto |-> "H1", app_buf |-> b, h2 |-> h2, up |-> r,
              pending |-> pending, h1_passthrough |-> FALSE, blocked |-> bl]
    BY <1>1 DEF DohSt
  <2> HIDE DEF st, bl, h2, r, pending
  <2>2. y = [kind |-> "Doh", proto |-> "H1", app_buf |-> <<>>, h2 |-> h2, up |-> r,
             pending |-> pending, h1_passthrough |-> TRUE, blocked |-> bl]
    BY <1>12, <2>1
  <2>3. y.blocked = bl /\ y.h2 = h2 /\ y.up = r /\ y.pending = pending
    BY <2>2
  <2> QED
    BY <2>2, <2>3 DEF DohSt
<1> HIDE DEF st, t
<1>13. CASE end = 0
  <2>1. next.st = c.st /\ next.to_upstream = up
    BY <1>10, <1>13 DEF st, Cross
  <2> QED
    BY <1>4, <1>6, <1>13, <2>1 DEF next, up, Goes
<1>14. CASE end # 0 /\ (head = <<>> \/ head[1] \notin RequestLines \/ framing.kind = "Chunked")
  <2>1. next = Cross([st EXCEPT !.h1_passthrough = TRUE, !.app_buf = <<>>], up \o b, c.to_app)
    BY <1>10, <1>14
  <2>2. next.st = [st EXCEPT !.h1_passthrough = TRUE, !.app_buf = <<>>]
    BY <2>1 DEF Cross
  <2>3. next.st = DohSt("H1", <<>>, TRUE, next.st)
    BY <1>12, <2>2
  <2> QED
    BY <1>6, <2>3 DEF next, up, Goes, MessageSt
<1>15. CASE end # 0 /\ ~ (head = <<>> \/ head[1] \notin RequestLines \/ framing.kind = "Chunked")
  <2>0. total = end + framing.n /\ total > 0
    BY <1>3, <1>4, <1>5, <1>7, <1>15
  <2>1. CASE n < end + framing.n
    <3>1. next.st = c.st /\ next.to_upstream = up
      BY <1>10, <1>15, <2>1 DEF st, Cross
    <3> QED
      BY <1>6, <2>0, <2>1, <3>1 DEF next, up, n, Goes
  <2>2. CASE ~ (n < end + framing.n)
    <3>1. total <= n
      BY <1>3, <2>0, <2>2
    <3>2. hit = found /\ w = SubSeq(b, 1, end + framing.n)
      BY <2>0 DEF hit, HitAt, w, found, head, end
    <3>3. next.st = t(hit) /\ next.to_upstream = (IF hit # {} THEN up ELSE up \o w)
      BY <1>10, <1>15, <2>2, <3>2 DEF Cross
    <3>4. next.st = DohSt("H1", Behind(b, total), FALSE, next.st)
      BY <1>11, <2>0, <3>3
    <3> QED
      BY <1>6, <2>0, <3>1, <3>3, <3>4 DEF next, up, n, hit, w, Goes, MessageSt
  <2> QED
    BY <2>1, <2>2
<1> QED
  BY <1>13, <1>14, <1>15

Cuts(u, x, i, k, n) ==
    /\ SubSeq(Held(u, x, i, k), 1, n) = Held(u, x, i, i + (n - Len(u)))
    /\ Behind(Held(u, x, i, k), n) = Slice(x, i + (n - Len(u)), k)

LEMMA HeldCuts ==
    ASSUME NEW B, NEW u \in Seq(B), NEW x \in Seq(B), NEW k \in 0..Len(x), NEW i \in 0..k,
           NEW n \in Nat, Len(u) <= n, n <= Len(u) + (k - i)
    PROVE  Cuts(u, x, i, k, n)
<1>1. SubSeq(Held(u, x, i, k), 1, n) = Held(u, x, i, i + (n - Len(u)))
  BY HeldCut
<1>2. Behind(Held(u, x, i, k), n) = Slice(x, i + (n - Len(u)), k)
  BY HeldCut
<1> QED
  BY <1>1, <1>2 DEF Cuts

\* The end of a head: it is edited, and its body is to come.
ReadsEnd(s, acc, next) ==
    s.payload /\ acc.left = 0 =>
        next = Acc(<<>>, request_framing(acc.held).n,
                   acc.out \o edit_request_head(Append(acc.held, "END")))

LEMMA AskingEnd ==
    ASSUME NEW s, s.kind = "http", s.payload \in BOOLEAN, NEW acc
    PROVE  ReadsEnd(s, acc, Asking(s, acc, "END"))
<1> SUFFICES ASSUME s.payload, acc.left = 0
             PROVE  Asking(s, acc, "END") = Acc(<<>>, request_framing(acc.held).n,
                        acc.out \o edit_request_head(Append(acc.held, "END")))
  BY DEF ReadsEnd
<1> DEFINE edit == edit_request_head(Append(acc.held, "END"))
           n == request_framing(acc.held).n
           head == [held |-> <<>>, left |-> 0, out |-> acc.out \o edit]
<1>1. Asking(s, acc, "END") = [head EXCEPT !.left = n]
  BY DEF Asking
<1> QED
  BY <1>1 DEF Acc

\* What one turn of the rewriter may come to.
LEMMA RequestTurn ==
    ASSUME NEW s, Sound(s), s.kind = "http", s.payload, NEW last \in 0..Len(s.app), NEW k \in 0..last,
           NEW u \in Seq(Bytes(s)), NEW c, Stands("request", s, u, c, k, last)
    PROVE  Turned("request", s, u, drive_request_turn(c.rw, c.out), k, last)
<1> DEFINE B == Bytes(s)
           x == s.app
           g == Asked(s)[k].held
           b == Held(g, x, k, last)
           v == Asked(s)[k].out
           left == Asked(s)[k].left
           rw == c.rw
           out == c.out
           n == Len(b)
           next == drive_request_turn(rw, out)
           end == find_header_end(b)
           head == SubSeq(b, 1, end - 1)
           framing == request_framing(head)
           edit == edit_request_head(Append(head, "END"))
<1>0. /\ Len(x) \in Nat /\ last \in Nat /\ k \in Nat /\ last <= Len(x) /\ k <= last /\ k \in 0..Len(x)
      /\ x \in Seq(B) /\ s.payload \in BOOLEAN
  BY AppIs DEF Sound
<1>1. /\ rw = RwSt(TRUE, FALSE, left, b, rw) /\ out \in Seq(B) /\ u \o out = v
      /\ Hears(Heard(s), rw.resp, rw.resp_buf)
  BY DEF Stands, Written
<1>2. AccOf(B, s, Asked(s)[k])
  BY <1>0, AskedSound
<1>3. /\ g \in Seq(B) /\ left \in Nat /\ v \in Seq(B) /\ Len(g) \in Nat /\ Asked(s)[k] = Acc(g, left, v)
      /\ (left > 0 => g = <<>>) /\ (\A i \in 1..Len(g) : g[i] # "END")
  BY <1>2, LenProperties DEF AccOf
<1>4. "identity" \in B /\ "END" \in B
  BY DEF Bytes
<1> HIDE DEF B, g, v, left
<1>5. /\ b \in Seq(B) /\ n = Len(g) + (last - k) /\ n \in Nat
      /\ \A p \in 1..Len(g) : b[p] = g[p]
      /\ \A p \in 1..(last - k) : b[Len(g) + p] = x[k + p]
  <2>1. Helds(B, g, x, k, last)
    BY <1>0, <1>3, HeldHas
  <2>2. b \in Seq(B) /\ n = Len(g) + (last - k)
      /\ (\A p \in 1..Len(g) : b[p] = g[p])
      /\ \A p \in 1..(last - k) : b[Len(g) + p] = x[k + p]
    BY <2>1 DEF Helds
  <2>3. n \in Nat
    BY <2>2, LenProperties
  <2> QED
    BY <2>2, <2>3
<1>6. rw.req = left /\ rw.req_buf = b
  BY <1>1 DEF RwSt
<1>7. \/ end = 0 /\ \A i \in 1..n : b[i] # "END"
      \/ end \in 1..n /\ b[end] = "END" /\ \A i \in 1..(end - 1) : b[i] # "END"
  BY <1>5, HeaderEnd
<1> DEFINE take == Min({left, n})
           r == [rw EXCEPT !.req_buf = Behind(b, end), !.pending_head = Append(@, head[1] = "HEAD")]
           bodied == [rw EXCEPT !.req = left - take, !.req_buf = Behind(b, take)]
           step == IF end > 0 THEN "Head" ELSE IF n > MAX_HEADER_BYTES THEN "Error" ELSE "NeedMore"
<1>8. next = CASE left = 0 /\ step = "NeedMore" -> Out(rw, out)
               [] left = 0 /\ step = "Error" -> disable_flush_req(rw, out)
               [] left = 0 /\ step = "Head" ->
                      IF head = <<>> \/ head[1] \notin RequestLines THEN disable_flush_req(rw, out)
                      ELSE IF framing.kind = "Chunked" THEN disable_flush_req(r, out \o edit)
                      ELSE Out([r EXCEPT !.req = framing.n], out \o edit)
               [] left > 0 -> Out(bodied, out \o SubSeq(b, 1, take))
  BY <1>6 DEF drive_request_turn, take_head
<1> HIDE DEF next
<1> DEFINE resp == rw.resp
           resp_buf == rw.resp_buf
           pending == rw.pending_head
<1>9. rw = [active |-> TRUE, disabled |-> FALSE, req |-> left, req_buf |-> b,
            resp |-> resp, resp_buf |-> resp_buf, pending_head |-> pending]
  BY <1>1 DEF RwSt
<1>17. Hears(Heard(s), resp, resp_buf)
  BY <1>1
<1> HIDE DEF rw, resp, resp_buf, pending
<1>10. ASSUME NEW y, y = disable_flush_req(rw, out) \/ y = disable_flush_req(r, out \o edit), left = 0
       PROVE  Lost("request", y)
  <2>1. CASE y = disable_flush_req(rw, out)
    <3>1. y.rw = [rw EXCEPT !.disabled = TRUE, !.req_buf = <<>>]
      BY <2>1 DEF disable_flush_req, Out
    <3>2. y.rw = [active |-> TRUE, disabled |-> TRUE, req |-> 0, req_buf |-> <<>>,
                  resp |-> resp, resp_buf |-> resp_buf, pending_head |-> pending]
      BY <1>9, <1>10, <3>1, ZenonT(30)
    <3>3. y.rw.resp = resp /\ y.rw.resp_buf = resp_buf /\ y.rw.pending_head = pending
      BY <3>2
    <3> QED
      BY <3>2, <3>3 DEF Lost, RwSt
  <2>2. CASE y = disable_flush_req(r, out \o edit)
    <3> DEFINE heads == Append(pending, head[1] = "HEAD")
               rest == Behind(b, end)
    <3>0. rw.pending_head = pending
      BY DEF pending
    <3>1. y.rw = [r EXCEPT !.disabled = TRUE, !.req_buf = <<>>]
      BY <2>2 DEF disable_flush_req, Out
    <3>2. r = [rw EXCEPT !.req_buf = rest, !.pending_head = heads]
      BY <3>0
    <3> HIDE DEF heads, rest, r
    <3>3. r = [active |-> TRUE, disabled |-> FALSE, req |-> 0, req_buf |-> rest,
               resp |-> resp, resp_buf |-> resp_buf, pending_head |-> heads]
      BY <1>9, <1>10, <3>2
    <3>4. y.rw = [active |-> TRUE, disabled |-> TRUE, req |-> 0, req_buf |-> <<>>,
                  resp |-> resp, resp_buf |-> resp_buf, pending_head |-> heads]
      BY <3>1, <3>3, ZenonT(30)
    <3>5. y.rw.resp = resp /\ y.rw.resp_buf = resp_buf /\ y.rw.pending_head = heads
      BY <3>4
    <3> QED
      BY <3>4, <3>5 DEF Lost, RwSt
  <2> QED
    BY <1>10, <2>1, <2>2
<1>11. ASSUME next = Out(rw, out), left = 0, end = 0
       PROVE  Turned("request", s, u, next, k, last)
  <2>1. \A i \in (k + 1)..last : s.app[i] # "END"
    <3> SUFFICES ASSUME NEW i \in (k + 1)..last
                 PROVE  x[i] # "END"
      OBVIOUS
    <3>1. i - k \in 1..(last - k) /\ k + (i - k) = i /\ Len(g) + (i - k) \in 1..n
      BY <1>0, <1>3, <1>5
    <3>2. b[Len(g) + (i - k)] = x[k + (i - k)]
      BY <1>5, <3>1
    <3>3. b[Len(g) + (i - k)] # "END"
      BY <1>7, <1>11, <3>1
    <3> QED
      BY <3>1, <3>2, <3>3
  <2>2. Asked(s)[last] = Acc(b, 0, v)
    <3>1. Asked(s)[k].left = 0
      BY <1>11 DEF left
    <3> QED
      BY <2>1, <3>1, ReadsHead DEF g, v
  <2>3. Asked(s)[last].held = b /\ Asked(s)[last].left = 0 /\ Asked(s)[last].out = v
    BY <2>2 DEF Acc
  <2>4. Held(Asked(s)[last].held, x, last, last) = b
    BY <1>5, <2>3, HeldAll DEF B
  <2>5. next.rw = rw /\ next.out = out
    BY <1>11 DEF Out
  <2>6. next.rw = RwSt(TRUE, FALSE, 0, b, next.rw) /\ Hears(Heard(s), next.rw.resp, next.rw.resp_buf)
    BY <1>1, <1>11, <2>5
  <2>7. Stands("request", s, u, next, last, last)
    BY <1>1, <2>3, <2>4, <2>5, <2>6 DEF Stands, Written, B
  <2> QED
    BY <1>0, <2>7 DEF Turned
<1>12. ASSUME left = 0, end # 0, next = Out([r EXCEPT !.req = framing.n], out \o edit)
       PROVE  Turned("request", s, u, next, k, last)
  <2>1. end \in 1..n /\ b[end] = "END" /\ (\A i \in 1..(end - 1) : b[i] # "END")
    BY <1>7, <1>12
  <2>2. Len(g) < end
    <3> SUFFICES ASSUME end <= Len(g)
                 PROVE  FALSE
      BY <1>3, <1>5, <2>1
    <3>1. end \in 1..Len(g)
      BY <1>3, <2>1
    <3> QED
      BY <1>3, <1>5, <2>1, <3>1
  <2> DEFINE j == k + (end - Len(g))
  <2>3. /\ j \in (k + 1)..last /\ j \in 1..Len(x) /\ j \in 0..last /\ j - 1 \in 0..Len(x) /\ k \in 0..(j - 1)
        /\ j \in k..last /\ j > k
        /\ k + ((end - 1) - Len(g)) = j - 1 /\ end - 1 \in Nat /\ Len(g) <= end - 1 /\ end - 1 <= Len(g) + (last - k)
        /\ end \in Nat /\ Len(g) <= end /\ end <= Len(g) + (last - k) /\ k \in 0..last /\ j - k \in 1..(last - k)
        /\ Len(g) + (j - k) = end /\ k + (j - k) = j
    <3>1. end \in Nat /\ 1 <= end /\ end <= n /\ n = Len(g) + (last - k) /\ Len(g) \in Nat /\ Len(g) < end
      BY <1>3, <1>5, <2>1, <2>2
    <3> HIDE DEF end, n
    <3>2. j \in Nat /\ j > k /\ j <= last /\ j - k = end - Len(g) /\ end - Len(g) \in Nat
      BY <1>0, <3>1
    <3>3. k + ((end - 1) - Len(g)) = j - 1 /\ end - 1 \in Nat /\ Len(g) <= end - 1 /\ end - 1 <= Len(g) + (last - k)
      BY <1>0, <3>1
    <3> HIDE DEF j
    <3>4. /\ j \in (k + 1)..last /\ j \in 1..Len(x) /\ j \in 0..last /\ j - 1 \in 0..Len(x) /\ k \in 0..(j - 1)
          /\ j \in k..last /\ j - k \in 1..(last - k)
      BY <1>0, <3>2
    <3> QED
      BY <1>0, <3>1, <3>2, <3>3, <3>4
  <2>4. Behind(b, end) = Slice(x, j, last)
    <3> HIDE DEF end
    <3>1. end \in Nat /\ Len(g) <= end /\ end <= Len(g) + (last - k) /\ k + (end - Len(g)) = j
      BY <2>3
    <3>2. Cuts(g, x, k, last, end)
      <4> HIDE DEF j
      <4> QED
        BY <1>0, <1>3, <3>1, HeldCuts
    <3> HIDE DEF j
    <3> QED
      BY <3>1, <3>2 DEF Cuts
  <2>5. head = Held(g, x, k, j - 1)
    <3> DEFINE m == end - 1
    <3>1. m \in Nat /\ Len(g) <= m /\ m <= Len(g) + (last - k) /\ k + (m - Len(g)) = j - 1
      BY <2>3
    <3> HIDE DEF m, j
    <3>2. Cuts(g, x, k, last, m)
      BY <1>0, <1>3, <3>1, HeldCuts
    <3> QED
      BY <3>1, <3>2 DEF m, Cuts
  <2>6. x[j] = "END"
    <3>1. b[Len(g) + (j - k)] = x[k + (j - k)]
      BY <1>5, <2>3
    <3> QED
      BY <2>1, <2>3, <3>1
  <2>7. \A i \in (k + 1)..(j - 1) : s.app[i] # "END"
    <3> SUFFICES ASSUME NEW i \in (k + 1)..(j - 1)
                 PROVE  x[i] # "END"
      OBVIOUS
    <3>1. i - k \in 1..(last - k) /\ k + (i - k) = i /\ Len(g) + (i - k) \in 1..(end - 1)
      <4> HIDE DEF end, n
      <4>1. i \in Nat /\ k < i /\ i < j
        BY <1>0, <2>3
      <4> HIDE DEF j
      <4> QED
        BY <1>0, <1>3, <2>3, <4>1
    <3>2. b[Len(g) + (i - k)] = x[k + (i - k)]
      BY <1>5, <3>1
    <3>3. b[Len(g) + (i - k)] # "END"
      BY <2>1, <3>1
    <3> QED
      BY <3>1, <3>2, <3>3
  <2> HIDE DEF j
  <2>8. Asked(s)[j - 1] = Acc(head, 0, v)
    <3> DEFINE l == j - 1
    <3>1. l \in 0..Len(s.app) /\ k \in 0..l /\ Asked(s)[k].left = 0 /\ \A i \in (k + 1)..l : s.app[i] # "END"
      BY <1>12, <2>3, <2>7 DEF left
    <3> HIDE DEF l
    <3>2. Asked(s)[l] = Acc(Held(g, x, k, l), 0, v)
      BY <3>1, ReadsHead DEF g, v
    <3> QED
      BY <2>5, <3>2 DEF l
  <2> DEFINE a == Asked(s)[j - 1]
  <2>9. Asked(s)[j] = Asking(s, a, "END")
    <3>1. AccOf(Bytes(s), s, Asked(s)[j - 1])
      BY <2>3, AskedSound
    <3>2. Asked(s)[j] = Asking(s, a, s.app[j])
      BY <2>3, <3>1, AskedStep
    <3> QED
      BY <2>6, <3>2
  <2> HIDE DEF head
  <2>10. a.held = head /\ a.left = 0 /\ a.out = v
    BY <2>8 DEF Acc
  <2> HIDE DEF a
  <2>11. ReadsEnd(s, a, Asking(s, a, "END"))
    BY <1>0, AskingEnd
  <2>12. Asked(s)[j] = Acc(<<>>, framing.n, v \o edit)
    BY <2>9, <2>10, <2>11 DEF ReadsEnd
  <2> HIDE DEF edit, framing
  <2>13. Asked(s)[j].held = <<>> /\ Asked(s)[j].left = framing.n /\ Asked(s)[j].out = v \o edit
    BY <2>12 DEF Acc
  <2>14. edit \in Seq(B)
    <3>1. head \in Seq(B)
      <4> DEFINE l == j - 1
      <4>1. l \in 0..Len(x) /\ k \in 0..l
        BY <2>3
      <4> HIDE DEF l, head
      <4>2. Held(g, x, k, l) \in Seq(B)
        BY <1>0, <1>3, <4>1, HeldIs
      <4> QED
        BY <2>5, <4>2 DEF l
    <3> HIDE DEF head
    <3>2. Append(head, "END") \in Seq(B)
      BY <1>4, <3>1, AppendProperties
    <3> QED
      BY <1>4, <3>2, EditIs DEF edit
  <2>15. next.out \in Seq(B) /\ u \o next.out = v \o edit
    <3>1. WritesOn(B, u, out, edit)
      BY <1>1, <2>14, WroteOn DEF B
    <3>2. next.out = out \o edit
      BY <1>12 DEF Out
    <3> QED
      BY <1>1, <3>1, <3>2 DEF WritesOn
  <2>16. /\ next.rw = RwSt(TRUE, FALSE, framing.n, Behind(b, end), next.rw)
         /\ Hears(Heard(s), next.rw.resp, next.rw.resp_buf)
    <3> DEFINE heads == Append(pending, head[1] = "HEAD")
               rest == Behind(b, end)
               m == framing.n
    <3>0. rw.pending_head = pending
      BY DEF pending
    <3>1. next.rw = [r EXCEPT !.req = m]
      BY <1>12 DEF Out
    <3>2. r = [rw EXCEPT !.req_buf = rest, !.pending_head = heads]
      BY <3>0
    <3> HIDE DEF heads, rest, r, m
    <3>3. r = [active |-> TRUE, disabled |-> FALSE, req |-> 0, req_buf |-> rest,
               resp |-> resp, resp_buf |-> resp_buf, pending_head |-> heads]
      BY <1>9, <1>12, <3>2
    <3>4. next.rw = [active |-> TRUE, disabled |-> FALSE, req |-> m, req_buf |-> rest,
                     resp |-> resp, resp_buf |-> resp_buf, pending_head |-> heads]
      BY <3>1, <3>3, ZenonT(30)
    <3>5. next.rw.resp = resp /\ next.rw.resp_buf = resp_buf /\ next.rw.pending_head = heads
      BY <3>4
    <3> QED
      BY <1>17, <3>4, <3>5 DEF RwSt, rest, m
  <2>17. Held(Asked(s)[j].held, x, j, last) = Behind(b, end)
    BY <2>3, <2>4, <2>13, HeldRest
  <2>18. Stands("request", s, u, next, j, last)
    BY <2>13, <2>15, <2>16, <2>17 DEF Stands, Written, B
  <2> QED
    BY <2>3, <2>18 DEF Turned
<1>13. ASSUME left > 0, next = Out(bodied, out \o SubSeq(b, 1, take))
       PROVE  Turned("request", s, u, next, k, last)
  <2>1. take \in {left, n} /\ take <= left /\ take <= n
    <3> DEFINE S == {left, n}
    <3>1. S \subseteq Nat /\ S # {}
      BY <1>3, <1>5
    <3>2. left \in S /\ n \in S
      OBVIOUS
    <3> HIDE DEF S
    <3>3. Min(S) \in S /\ \A m \in S : Min(S) <= m
      BY <3>1, MinIsLeast
    <3> QED
      BY <3>2, <3>3 DEF S
  <2>2. g = <<>> /\ Len(g) = 0 /\ n = last - k
    <3>1. g = <<>>
      BY <1>3, <1>13
    <3>2. Len(g) = 0
      BY <3>1, EmptySeq
    <3> QED
      BY <1>0, <1>5, <3>1, <3>2
  <2> DEFINE j == k + take
             w == Slice(x, k, j)
  <2>3. take \in Nat
    BY <1>3, <1>5, <2>1
  <2> HIDE DEF take, n
  <2>4. /\ j \in k..last /\ j \in 0..Len(x) /\ k \in 0..j /\ j \in 0..last /\ j - k = take /\ j - k <= left
        /\ (j = last \/ j > k) /\ k \in 0..last
    <3>1. take = left \/ take = n
      BY <2>1
    <3> QED
      BY <1>0, <1>3, <1>13, <2>1, <2>2, <2>3, <3>1
  <2>5. SubSeq(b, 1, take) = w /\ Behind(b, take) = Slice(x, j, last)
    <3>1. Len(g) <= take /\ take <= Len(g) + (last - k) /\ k + (take - Len(g)) = j
      BY <1>0, <2>1, <2>2, <2>3
    <3> HIDE DEF j
    <3>2. Cuts(g, x, k, last, take)
      BY <1>0, <1>3, <2>3, <3>1, HeldCuts
    <3>4. Held(<<>>, x, k, j) = w
      BY <1>0, <2>4, HeldRest
    <3> QED
      BY <2>2, <3>1, <3>2, <3>4 DEF Cuts
  <2> HIDE DEF j
  <2>6. w \in Seq(B)
    BY <1>0, <2>4, SliceIs DEF Slices
  <2>7. Asked(s)[j] = Acc(<<>>, left - take, v \o w)
    <3>1. Asked(s)[k].held = <<>> /\ j - k <= Asked(s)[k].left
      BY <2>2, <2>4 DEF g, left
    <3>2. Asked(s)[j] = Acc(<<>>, Asked(s)[k].left - (j - k), Held(Asked(s)[k].out, s.app, k, j))
      BY <2>4, <3>1, ReadsBody
    <3> QED
      BY <2>4, <3>2 DEF Held, v, left
  <2> HIDE DEF w
  <2>8. Asked(s)[j].held = <<>> /\ Asked(s)[j].left = left - take /\ Asked(s)[j].out = v \o w
    BY <2>7 DEF Acc
  <2>9. next.out \in Seq(B) /\ u \o next.out = v \o w
    <3>1. WritesOn(B, u, out, w)
      BY <1>1, <2>6, WroteOn DEF B
    <3>2. next.out = out \o w
      BY <1>13, <2>5 DEF Out
    <3> QED
      BY <1>1, <3>1, <3>2 DEF WritesOn
  <2>10. /\ next.rw = RwSt(TRUE, FALSE, left - take, Behind(b, take), next.rw)
         /\ Hears(Heard(s), next.rw.resp, next.rw.resp_buf)
    <3> DEFINE rest == Behind(b, take)
               m == left - take
    <3>0. next.rw = bodied
      BY <1>13 DEF Out
    <3>1. bodied = [rw EXCEPT !.req = m, !.req_buf = rest]
      OBVIOUS
    <3> HIDE DEF rest, m, bodied
    <3>4. bodied = [active |-> TRUE, disabled |-> FALSE, req |-> m, req_buf |-> rest,
                    resp |-> resp, resp_buf |-> resp_buf, pending_head |-> pending]
      BY <1>9, <3>1
    <3>2. next.rw = [active |-> TRUE, disabled |-> FALSE, req |-> m, req_buf |-> rest,
                     resp |-> resp, resp_buf |-> resp_buf, pending_head |-> pending]
      BY <3>0, <3>4
    <3>3. next.rw.resp = resp /\ next.rw.resp_buf = resp_buf /\ next.rw.pending_head = pending
      BY <3>2
    <3> QED
      BY <1>17, <3>2, <3>3 DEF RwSt, rest, m
  <2>11. Held(Asked(s)[j].held, x, j, last) = Behind(b, take)
    BY <2>4, <2>5, <2>8, HeldRest
  <2>12. Stands("request", s, u, next, j, last)
    BY <2>8, <2>9, <2>10, <2>11 DEF Stands, Written, B
  <2> QED
    BY <2>4, <2>12 DEF Turned
<1> HIDE DEF b, edit, framing, head, r, bodied, take, n, end, out
<1>14. CASE left > 0
  <2>1. ~ (left = 0)
    BY <1>3, <1>14
  <2>2. next = Out(bodied, out \o SubSeq(b, 1, take))
    BY <1>8, <1>14, <2>1
  <2> QED
    BY <1>13, <1>14, <2>2 DEF next, rw, out
<1>15. CASE ~ (left > 0) /\ end = 0
  <2>1. left = 0
    BY <1>3, <1>15
  <2>2. CASE n > MAX_HEADER_BYTES
    <3>1. step = "Error"
      BY <1>15, <2>2
    <3>2. next = disable_flush_req(rw, out)
      BY <1>8, <1>15, <2>1, <3>1
    <3>3. Lost("request", next)
      BY <1>10, <2>1, <3>2
    <3> QED
      BY <3>3 DEF Turned, next, rw, out
  <2>3. CASE ~ (n > MAX_HEADER_BYTES)
    <3>1. step = "NeedMore"
      BY <1>15, <2>3
    <3>2. next = Out(rw, out)
      BY <1>8, <1>15, <2>1, <3>1
    <3> QED
      BY <1>11, <1>15, <2>1, <3>2 DEF next, rw, out
  <2> QED
    BY <2>2, <2>3
<1>16. CASE ~ (left > 0) /\ end # 0
  <2>1. left = 0 /\ end > 0
    <3>1. end \in 1..n
      BY <1>7, <1>16
    <3> QED
      BY <1>3, <1>5, <1>16, <3>1
  <2>2. step = "Head"
    BY <2>1
  <2>3. next = IF head = <<>> \/ head[1] \notin RequestLines THEN disable_flush_req(rw, out)
               ELSE IF framing.kind = "Chunked" THEN disable_flush_req(r, out \o edit)
               ELSE Out([r EXCEPT !.req = framing.n], out \o edit)
    BY <1>8, <1>16, <2>1, <2>2
  <2>4. CASE next = disable_flush_req(rw, out) \/ next = disable_flush_req(r, out \o edit)
    <3>1. Lost("request", next)
      BY <1>10, <2>1, <2>4
    <3> QED
      BY <3>1 DEF Turned, next, rw, out
  <2>5. CASE next = Out([r EXCEPT !.req = framing.n], out \o edit)
    BY <1>12, <1>16, <2>1, <2>5 DEF next, rw, out
  <2> QED
    BY <2>3, <2>4, <2>5
<1> QED
  BY <1>14, <1>15, <1>16

-----------------------------------------------------------------------------
(* The loops *)

\* Who reads what.
Reads(what, s) ==
    \/ what = "dot" /\ s.kind = "dot"
    \/ what = "doh" /\ s.kind = "doh"
    \/ what = "request" /\ s.kind = "http" /\ s.payload

LEMMA LostTurn ==
    ASSUME NEW what \in {"dot", "doh", "request"}, NEW c, NEW i, Lost(what, c)
    PROVE  Lost(what, Round(what, <<>>, i, c))
<1> DEFINE b == <<>>
<1>1. b \in Seq({}) /\ Len(b) = 0
  OBVIOUS
<1>2. CASE what = "dot"
  <2>1. c.st.app_buf = b
    BY <1>2 DEF Lost, DotSt
  <2> DEFINE next == dot_message(c.st, c.to_upstream, c.to_app)
  <2> HIDE DEF b
  <2>2. next = Cross(c.st, c.to_upstream, c.to_app)
    <3>1. Len(c.st.app_buf) < 2
      BY <1>1, <2>1
    <3> QED
      BY <3>1 DEF dot_message
  <2>3. Round(what, <<>>, i, c) = next
    BY <1>2 DEF Round
  <2> HIDE DEF next
  <2>4. next.st = c.st
    BY <2>2 DEF Cross
  <2> QED
    BY <1>2, <2>3, <2>4 DEF Lost
<1> HIDE DEF b
<1>3. find_header_end(b) = 0
  <2>1. find_header_end(b) = 0 \/ find_header_end(b) \in 1..Len(b)
    BY <1>1, HeaderEnd
  <2> QED
    BY <1>1, <2>1
<1>4. CASE what = "doh"
  <2>1. c.st.app_buf = b
    BY <1>4 DEF Lost, DohSt, b
  <2> DEFINE next == h1_request(c.st, c.to_upstream, c.to_app)
  <2>2. next = Cross(c.st, c.to_upstream, c.to_app)
    BY <1>3, <2>1 DEF h1_request
  <2>3. Round(what, <<>>, i, c) = next
    BY <1>4 DEF Round
  <2> HIDE DEF next
  <2>4. next.st = c.st
    BY <2>2 DEF Cross
  <2> QED
    BY <1>4, <2>3, <2>4 DEF Lost
<1>5. CASE what = "request"
  <2>1. c.rw.req_buf = b /\ c.rw.req = 0
    BY <1>5 DEF Lost, RwSt, b
  <2> DEFINE next == drive_request_turn(c.rw, c.out)
  <2>2. next = Out(c.rw, c.out)
    <3>1. ~ (Len(b) > MAX_HEADER_BYTES)
      BY <1>1, TapAssumption
    <3>2. take_head(c.rw.req_buf).step = "NeedMore"
      BY <1>3, <2>1, <3>1 DEF take_head
    <3> QED
      BY <2>1, <3>2 DEF drive_request_turn
  <2>3. Round(what, <<>>, i, c) = next
    BY <1>5 DEF Round
  <2> HIDE DEF next
  <2>4. next.rw = c.rw
    BY <2>2 DEF Out
  <2> QED
    BY <1>5, <2>3, <2>4 DEF Lost
<1> QED
  BY <1>2, <1>4, <1>5

LEMMA TurnReads ==
    ASSUME NEW s, Sound(s), NEW what, Reads(what, s), NEW last \in 0..Len(s.app), NEW k \in 0..last,
           NEW u \in Seq(Bytes(s)), NEW c, Stands(what, s, u, c, k, last), NEW i
    PROVE  Turned(what, s, u, Round(what, <<>>, i, c), k, last)
<1>1. CASE what = "dot"
  BY <1>1, DotTurn DEF Reads, Round
<1>2. CASE what = "doh"
  BY <1>2, DohTurn DEF Reads, Round
<1>3. CASE what = "request"
  BY <1>3, RequestTurn DEF Reads, Round
<1> QED
  BY <1>1, <1>2, <1>3 DEF Reads

\* A loop of so many turns as there are bytes reads them all, or gives up.
LEMMA LoopReads ==
    ASSUME NEW s, Sound(s), NEW what, Reads(what, s), NEW last \in 0..Len(s.app), NEW k \in 0..last,
           NEW u \in Seq(Bytes(s)), NEW f, NEW a, NEW n \in Nat, Rounds(what, <<>>, f, a, n),
           Stands(what, s, u, a, k, last), last - k <= n
    PROVE  Lost(what, f[n]) \/ Stands(what, s, u, f[n], last, last)
<1> DEFINE Good(i) == \/ Lost(what, f[i])
                      \/ \E j \in k..last : Stands(what, s, u, f[i], j, last) /\ (j = last \/ j >= k + i)
           Bad == {i \in 0..n : ~ Good(i)}
<1>0. Len(s.app) \in Nat /\ last \in Nat /\ k \in Nat /\ last <= Len(s.app) /\ k <= last
  BY AppIs DEF Sound
<1>1. what \in {"dot", "doh", "request"}
  BY DEF Reads
<1>2. f[0] = a /\ \A i \in 1..n : f[i] = Round(what, <<>>, i, f[i - 1])
  BY DEF Rounds
<1>3. Good(0)
  BY <1>0, <1>2
<1>4. ASSUME NEW i \in 1..n, Good(i - 1)
      PROVE  Good(i)
  <2>1. f[i] = Round(what, <<>>, i, f[i - 1])
    BY <1>2
  <2>2. CASE Lost(what, f[i - 1])
    BY <1>1, <2>1, <2>2, LostTurn
  <2>3. CASE \E j \in k..last : Stands(what, s, u, f[i - 1], j, last) /\ (j = last \/ j >= k + (i - 1))
    <3>1. PICK j \in k..last : Stands(what, s, u, f[i - 1], j, last) /\ (j = last \/ j >= k + (i - 1))
      BY <2>3
    <3>2. j \in 0..last
      BY <1>0
    <3>3. Turned(what, s, u, f[i], j, last)
      BY <2>1, <3>1, <3>2, TurnReads
    <3>4. CASE Lost(what, f[i])
      BY <3>4
    <3>5. CASE \E m \in j..last : Stands(what, s, u, f[i], m, last) /\ (m = last \/ m > j)
      <4>1. PICK m \in j..last : Stands(what, s, u, f[i], m, last) /\ (m = last \/ m > j)
        BY <3>5
      <4>2. m \in k..last /\ (m = last \/ m >= k + i)
        BY <1>0, <3>1, <4>1
      <4> QED
        BY <4>1, <4>2
    <3> QED
      BY <3>3, <3>4, <3>5 DEF Turned
  <2>4. \/ Lost(what, f[i - 1])
        \/ \E j \in k..last : Stands(what, s, u, f[i - 1], j, last) /\ (j = last \/ j >= k + (i - 1))
    BY <1>4
  <2> HIDE DEF Good
  <2> QED
    BY <2>2, <2>3, <2>4
<1> HIDE DEF Good
<1>5. Bad = {}
  <2> SUFFICES ASSUME Bad # {}
               PROVE  FALSE
    OBVIOUS
  <2>1. PICK i \in Bad : \A m \in Bad : i <= m
    <3>1. Bad \subseteq Nat
      OBVIOUS
    <3> HIDE DEF Bad
    <3> QED
      BY <3>1, Least
  <2>2. i \in 0..n /\ ~ Good(i)
    BY <2>1
  <2>3. i # 0
    BY <1>3, <2>2
  <2>4. i \in 1..n /\ i - 1 \in 0..n /\ ~ (i <= i - 1)
    BY <2>2, <2>3
  <2>5. Good(i - 1)
    BY <2>1, <2>4
  <2> QED
    BY <1>4, <2>2, <2>4, <2>5
<1>6. Good(n)
  BY <1>5
<1>7. CASE \E j \in k..last : Stands(what, s, u, f[n], j, last) /\ (j = last \/ j >= k + n)
  <2>1. PICK j \in k..last : Stands(what, s, u, f[n], j, last) /\ (j = last \/ j >= k + n)
    BY <1>7
  <2>2. j = last
    BY <1>0, <2>1
  <2> QED
    BY <2>1, <2>2
<1> QED
  BY <1>6, <1>7 DEF Good

-----------------------------------------------------------------------------
(* What a segment of the app's plaintext comes to *)

\* It is read to the last byte, or given up.
Fed(what, s, u, c, last) == Lost(what, c) \/ Stands(what, s, u, c, last, last)

LEMMA ReadSoFar ==
    ASSUME NEW s, Sound(s), NEW last \in 0..Len(s.app), NEW k \in 0..last
    PROVE  /\ Asked(s)[k].out \in Seq(Bytes(s)) /\ Asked(s)[k].held \in Seq(Bytes(s))
           /\ Held(Asked(s)[k].held, s.app, k, last) \in Seq(Bytes(s))
           /\ Len(Held(Asked(s)[k].held, s.app, k, last)) \in Nat
           /\ last - k <= Len(Held(Asked(s)[k].held, s.app, k, last))
<1> DEFINE B == Bytes(s)
           u == Asked(s)[k].held
           x == s.app
<1>0. Len(x) \in Nat /\ last \in Nat /\ k \in Nat /\ last <= Len(x) /\ k <= last /\ k \in 0..Len(x) /\ x \in Seq(B)
  BY AppIs DEF Sound
<1>1. AccOf(B, s, Asked(s)[k])
  BY <1>0, AskedSound
<1>2. u \in Seq(B) /\ Asked(s)[k].out \in Seq(B) /\ Len(u) \in Nat
  BY <1>1, LenProperties DEF AccOf
<1> HIDE DEF B, u
<1>3. Helds(B, u, x, k, last)
  BY <1>0, <1>2, HeldHas
<1>4. Held(u, x, k, last) \in Seq(B) /\ Len(Held(u, x, k, last)) = Len(u) + (last - k)
  BY <1>3 DEF Helds
<1>5. Len(u) + (last - k) \in Nat /\ last - k <= Len(u) + (last - k)
  BY <1>0, <1>2
<1> QED
  BY <1>2, <1>4, <1>5 DEF B, u

\* Where a loop starts: with nothing written.
LEMMA StartsWith ==
    ASSUME NEW B, NEW u \in Seq(B)
    PROVE  <<>> \in Seq(B) /\ u \o <<>> = u
BY Concat, EmptySeq

LEMMA DotFed ==
    ASSUME NEW s, Sound(s), s.kind = "dot", NEW last \in 0..Len(s.app), NEW k \in 0..last,
           NEW st, st = DotSt(Asked(s)[k].held, FALSE, st)
    PROVE  Fed("dot", s, Asked(s)[k].out, dot_app_data(st, Slice(s.app, k, last)), last)
<1> DEFINE u == Asked(s)[k].out
           held == Asked(s)[k].held
           data == Slice(s.app, k, last)
           b == Held(held, s.app, k, last)
           t == [st EXCEPT !.app_buf = @ \o data]
           bl == st.blocked
           a == Cross(t, <<>>, <<>>)
           c == dot_app_data(st, data)
<1>1. u \in Seq(Bytes(s)) /\ b \in Seq(Bytes(s)) /\ Len(b) \in Nat /\ last - k <= Len(b)
  BY ReadSoFar
<1>2. b = held \o data
  BY DEF Held
<1> HIDE DEF b, data
<1>3. st = [kind |-> "Dot", app_buf |-> held, passthrough |-> FALSE, blocked |-> bl]
  BY DEF DotSt
<1> HIDE DEF held, bl
<1>4. c = dot_messages(t)
  BY <1>3 DEF dot_app_data
<1>5. t = [kind |-> "Dot", app_buf |-> b, passthrough |-> FALSE, blocked |-> bl]
  <2>1. st.app_buf = held
    BY <1>3
  <2>2. t = [st EXCEPT !.app_buf = b]
    BY <1>2, <2>1
  <2> HIDE DEF t
  <2> QED
    BY <1>3, <2>2
<1> HIDE DEF t, c
<1>6. t.app_buf = b /\ t.blocked = bl
  BY <1>5
<1>7. t = DotSt(b, FALSE, t)
  BY <1>5, <1>6 DEF DotSt
<1>8. PICK f : Rounds("dot", <<>>, f, a, Len(b)) /\ c = f[Len(b)]
  <2>1. Len(t.app_buf) \in Nat
    BY <1>1, <1>6
  <2>2. \E f : Rounds("dot", <<>>, f, a, Len(t.app_buf)) /\ dot_messages(t) = f[Len(t.app_buf)]
    BY <2>1, DotRounds
  <2> QED
    BY <1>4, <1>6, <2>2
<1>9. a.st = t /\ a.to_upstream = <<>>
  BY DEF Cross
<1> HIDE DEF a
<1>10. Stands("dot", s, u, a, k, last)
  <2>1. <<>> \in Seq(Bytes(s)) /\ u \o <<>> = u
    BY <1>1, StartsWith
  <2> QED
    BY <1>7, <1>9, <2>1 DEF Stands, Written, b, u, held
<1>11. Reads("dot", s)
  BY DEF Reads
<1>12. Lost("dot", f[Len(b)]) \/ Stands("dot", s, u, f[Len(b)], last, last)
  <2> DEFINE n == Len(b)
  <2>1. n \in Nat /\ last - k <= n /\ Rounds("dot", <<>>, f, a, n)
    BY <1>1, <1>8
  <2> HIDE DEF n, u
  <2>2. Lost("dot", f[n]) \/ Stands("dot", s, u, f[n], last, last)
    BY <1>1, <1>10, <1>11, <2>1, LoopReads
  <2> QED
    BY <2>2 DEF n
<1> QED
  BY <1>8, <1>12 DEF Fed, c, data, u

LEMMA H1Fed ==
    ASSUME NEW s, Sound(s), s.kind = "doh", NEW last \in 0..Len(s.app), NEW k \in 0..last,
           NEW t, t = DohSt("H1", Held(Asked(s)[k].held, s.app, k, last), FALSE, t)
    PROVE  Fed("doh", s, Asked(s)[k].out, h1_requests(t), last)
<1> DEFINE u == Asked(s)[k].out
           b == Held(Asked(s)[k].held, s.app, k, last)
           a == Cross(t, <<>>, <<>>)
           c == h1_requests(t)
<1>1. u \in Seq(Bytes(s)) /\ b \in Seq(Bytes(s)) /\ Len(b) \in Nat /\ last - k <= Len(b)
  BY ReadSoFar
<1>6. t.app_buf = b
  BY DEF DohSt
<1> HIDE DEF c
<1>8. PICK f : Rounds("doh", <<>>, f, a, Len(b)) /\ c = f[Len(b)]
  <2>1. Len(t.app_buf) \in Nat
    BY <1>1, <1>6
  <2>2. \E f : Rounds("doh", <<>>, f, a, Len(t.app_buf)) /\ h1_requests(t) = f[Len(t.app_buf)]
    BY <2>1, DohRounds
  <2> QED
    BY <1>6, <2>2 DEF c
<1>9. a.st = t /\ a.to_upstream = <<>>
  BY DEF Cross
<1> HIDE DEF a, b
<1>10. Stands("doh", s, u, a, k, last)
  <2>1. <<>> \in Seq(Bytes(s)) /\ u \o <<>> = u
    BY <1>1, StartsWith
  <2> QED
    BY <1>9, <2>1 DEF Stands, Written, b, u
<1>11. Reads("doh", s)
  BY DEF Reads
<1>12. Lost("doh", f[Len(b)]) \/ Stands("doh", s, u, f[Len(b)], last, last)
  <2> DEFINE n == Len(b)
  <2>1. n \in Nat /\ last - k <= n /\ Rounds("doh", <<>>, f, a, n)
    BY <1>1, <1>8
  <2> HIDE DEF n, u
  <2>2. Lost("doh", f[n]) \/ Stands("doh", s, u, f[n], last, last)
    BY <1>1, <1>10, <1>11, <2>1, LoopReads
  <2> QED
    BY <2>2 DEF n
<1> QED
  BY <1>8, <1>12 DEF Fed, c, u

LEMMA RequestFed ==
    ASSUME NEW s, Sound(s), s.kind = "http", s.payload, NEW last \in 0..Len(s.app), NEW k \in 0..last,
           NEW rw, rw = RwSt(TRUE, FALSE, Asked(s)[k].left, Asked(s)[k].held, rw),
           Hears(Heard(s), rw.resp, rw.resp_buf)
    PROVE  Fed("request", s, Asked(s)[k].out, feed_request(rw, Slice(s.app, k, last)), last)
<1> DEFINE u == Asked(s)[k].out
           held == Asked(s)[k].held
           left == Asked(s)[k].left
           data == Slice(s.app, k, last)
           b == Held(held, s.app, k, last)
           t == [rw EXCEPT !.req_buf = @ \o data]
           resp == rw.resp
           resp_buf == rw.resp_buf
           pending == rw.pending_head
           a == Out(t, <<>>)
           c == feed_request(rw, data)
<1>1. u \in Seq(Bytes(s)) /\ b \in Seq(Bytes(s)) /\ Len(b) \in Nat /\ last - k <= Len(b)
  BY ReadSoFar
<1>2. b = held \o data
  BY DEF Held
<1>13. Hears(Heard(s), resp, resp_buf)
  OBVIOUS
<1> HIDE DEF b, data
<1>3. rw = [active |-> TRUE, disabled |-> FALSE, req |-> left, req_buf |-> held,
            resp |-> resp, resp_buf |-> resp_buf, pending_head |-> pending]
  BY DEF RwSt
<1> HIDE DEF held, left, resp, resp_buf, pending
<1>4. c = drive_request(t)
  BY <1>3 DEF feed_request
<1>5. t = [active |-> TRUE, disabled |-> FALSE, req |-> left, req_buf |-> b,
           resp |-> resp, resp_buf |-> resp_buf, pending_head |-> pending]
  <2>1. rw.req_buf = held
    BY <1>3
  <2>2. t = [rw EXCEPT !.req_buf = b]
    BY <1>2, <2>1
  <2> HIDE DEF t
  <2> QED
    BY <1>3, <2>2
<1> HIDE DEF t, c
<1>6. t.req_buf = b /\ t.resp = resp /\ t.resp_buf = resp_buf /\ t.pending_head = pending
  BY <1>5
<1>7. t = RwSt(TRUE, FALSE, left, b, t) /\ Hears(Heard(s), t.resp, t.resp_buf)
  BY <1>5, <1>6, <1>13 DEF RwSt
<1>8. PICK f : Rounds("request", <<>>, f, a, Len(b) + 1) /\ c = f[Len(b) + 1]
  <2>1. Len(t.req_buf) \in Nat
    BY <1>1, <1>6
  <2>2. \E f : Rounds("request", <<>>, f, a, Len(t.req_buf) + 1) /\ drive_request(t) = f[Len(t.req_buf) + 1]
    BY <2>1, RequestRounds
  <2> QED
    BY <1>4, <1>6, <2>2
<1>9. a.rw = t /\ a.out = <<>>
  BY DEF Out
<1> HIDE DEF a
<1>10. Stands("request", s, u, a, k, last)
  <2>1. <<>> \in Seq(Bytes(s)) /\ u \o <<>> = u
    BY <1>1, StartsWith
  <2> QED
    BY <1>7, <1>9, <2>1 DEF Stands, Written, b, u, held, left
<1>11. Reads("request", s)
  BY DEF Reads
<1>12. Lost("request", f[Len(b) + 1]) \/ Stands("request", s, u, f[Len(b) + 1], last, last)
  <2> DEFINE n == Len(b) + 1
  <2>1. n \in Nat /\ last - k <= n
    <3>1. last \in Nat /\ k \in Nat
      BY AppIs DEF Sound
    <3> QED
      BY <1>1, <3>1
  <2>2. Rounds("request", <<>>, f, a, n)
    BY <1>8
  <2> HIDE DEF n, u
  <2>3. Lost("request", f[n]) \/ Stands("request", s, u, f[n], last, last)
    BY <1>1, <1>10, <1>11, <2>1, <2>2, LoopReads
  <2> QED
    BY <2>3 DEF n
<1> QED
  BY <1>8, <1>12 DEF Fed, c, data, u

\* Over DoH, as long as the protocol is open all is held.
LooksDoh(s, st, k) ==
    /\ st = DohSt(st.proto, Asked(s)[k].held, FALSE, st)
    /\ st.proto = "H1" \/ (st.proto = "Undecided" /\ Asked(s)[k].held = Slice(s.app, 0, k))

FedDoh(s, u, c, last) ==
    \/ Lost("doh", c)
    \/ /\ c.to_upstream \in Seq(Bytes(s)) /\ u \o c.to_upstream = Asked(s)[last].out
       /\ LooksDoh(s, c.st, last)

\* It does not become HTTP/2.
LEMMA NoPreface ==
    ASSUME NEW s, Sound(s), NEW last \in 0..Len(s.app), ~ IsPrefix(PREFACE, s.app)
    PROVE  ~ IsPrefix(PREFACE, Slice(s.app, 0, last))
<1> DEFINE B == Bytes(s)
           x == s.app
           b == SubSeq(x, 1, last)
           p == PREFACE
           n == Len(p)
<1>0. Len(x) \in Nat /\ x \in Seq(B) /\ last \in Nat /\ last <= Len(x)
  BY AppIs DEF Sound
<1>1. n = 2
  BY DEF PREFACE
<1>2. Slice(x, 0, last) = b
  BY DEF Slice
<1> HIDE DEF B, p
<1>3. SUFFICES ASSUME Len(p) <= Len(b), SubSeq(p, 1, Len(p)) = SubSeq(b, 1, Len(p))
               PROVE  FALSE
  BY <1>2 DEF IsPrefix, p
<1>4. Len(b) = last
  <2>1. Len(b) = last - 1 + 1
    BY <1>0, Part
  <2> QED
    BY <1>0, <2>1
<1>5. n <= last /\ n \in 0..last /\ n <= Len(x)
  BY <1>0, <1>1, <1>3, <1>4
<1>6. SubSeq(b, 1, n) = SubSeq(x, 1, n)
  <2>1. 1 \in Nat /\ 1 <= n + 1
    BY <1>1
  <2> HIDE DEF n
  <2> QED
    BY <1>0, <1>5, <2>1, SubSub
<1>7. IsPrefix(p, x)
  BY <1>3, <1>5, <1>6 DEF IsPrefix
<1> QED
  BY <1>7 DEF p

\* Nor is there a request while it may.
LEMMA OpenHoldsAll ==
    ASSUME NEW s, Sound(s), s.kind = "doh", NEW last \in 0..Len(s.app),
           IsStrictPrefix(Slice(s.app, 0, last), PREFACE)
    PROVE  Asked(s)[last] = Acc(Slice(s.app, 0, last), 0, <<>>)
<1> DEFINE B == Bytes(s)
           x == s.app
           b == Slice(x, 0, last)
           p == PREFACE
           end == find_header_end(b)
<1>0. Len(x) \in Nat /\ x \in Seq(B) /\ last \in Nat /\ last <= Len(x) /\ 0 \in 0..last
  BY AppIs DEF Sound
<1>1. Asked(s)[0] = Acc(<<>>, 0, <<>>)
  BY AskedSound DEF NothingAsked, Acc
<1>2. Asked(s)[0].held = <<>> /\ Asked(s)[0].out = <<>>
  BY <1>1 DEF Acc
<1>3. Held(Asked(s)[0].held, x, 0, last) = b
  BY <1>0, <1>2, HeldRest
<1>4. MessageIs(s, 0, last, b, Total(s.kind, b))
  <2>1. MessageIs(s, 0, last, Held(Asked(s)[0].held, x, 0, last), Total(s.kind, Held(Asked(s)[0].held, x, 0, last)))
    BY <1>0, MessageRead
  <2> QED
    BY <1>3, <2>1
<1>5. b \in Seq(B) /\ Len(b) \in Nat
  BY <1>4, LenProperties DEF MessageIs
<1>6. p \in Seq({"PRI", "SM"}) /\ Len(p) = 2 /\ p[1] # "END" /\ p[2] # "END"
  BY DEF PREFACE
<1>7. Len(b) <= Len(p) /\ SubSeq(b, 1, Len(b)) = SubSeq(p, 1, Len(b))
  BY DEF IsStrictPrefix, IsPrefix
<1> HIDE DEF b, p, B
<1>8. \A i \in 1..Len(b) : b[i] = p[i]
  <2> DEFINE n == Len(b)
  <2>0. n \in Nat /\ n <= Len(b) /\ n <= Len(p)
    BY <1>5, <1>7
  <2>1. /\ SubSeq(b, 1, n) \in Seq(B)
        /\ \A i \in 1..(n - 1 + 1) : SubSeq(b, 1, n)[i] = b[1 + i - 1]
    <3> HIDE DEF n
    <3> QED
      BY <1>5, <2>0, Part
  <2>2. \A i \in 1..(n - 1 + 1) : SubSeq(p, 1, n)[i] = p[1 + i - 1]
    <3> HIDE DEF n
    <3> QED
      BY <1>6, <2>0, Part
  <2>3. n - 1 + 1 = n /\ \A i \in 1..n : 1 + i - 1 = i
    BY <2>0
  <2> QED
    BY <1>7, <2>1, <2>2, <2>3
<1>9. \A i \in 1..Len(b) : b[i] # "END"
  <2> SUFFICES ASSUME NEW i \in 1..Len(b)
               PROVE  b[i] # "END"
    OBVIOUS
  <2>1. i = 1 \/ i = 2
    BY <1>5, <1>6, <1>7
  <2> QED
    BY <1>6, <1>8, <2>1
<1>10. end = 0
  <2>1. end = 0 \/ (end \in 1..Len(b) /\ b[end] = "END")
    BY <1>5, HeaderEnd
  <2> QED
    BY <1>9, <2>1
<1>11. Total(s.kind, b) = 0
  BY <1>10 DEF Total
<1> QED
  BY <1>2, <1>4, <1>11 DEF MessageIs, b

LEMMA DohFed ==
    ASSUME NEW s, Sound(s), s.kind = "doh", ~ IsPrefix(PREFACE, s.app),
           NEW last \in 0..Len(s.app), NEW k \in 0..last, NEW st, LooksDoh(s, st, k)
    PROVE  FedDoh(s, Asked(s)[k].out, doh_app_data(st, Slice(s.app, k, last)), last)
<1> DEFINE x == s.app
           u == Asked(s)[k].out
           held == Asked(s)[k].held
           data == Slice(x, k, last)
           b == Held(held, x, k, last)
           c == doh_app_data(st, data)
           bl == st.blocked
           h2 == st.h2
           r == st.up
           pending == st.pending
           proto == st.proto
           St(p, buf) == [kind |-> "Doh", proto |-> p, app_buf |-> buf, h2 |-> h2, up |-> r,
                          pending |-> pending, h1_passthrough |-> FALSE, blocked |-> bl]
<1>0. Len(x) \in Nat /\ x \in Seq(Bytes(s)) /\ last \in Nat /\ last <= Len(x) /\ k \in 0..Len(x) /\ 0 \in 0..k
  BY AppIs DEF Sound
<1>1. u \in Seq(Bytes(s)) /\ b \in Seq(Bytes(s))
  BY ReadSoFar
<1>2. b = held \o data
  BY DEF Held
<1>3. st = St(proto, held)
  BY DEF LooksDoh, DohSt
<1>4. proto = "H1" \/ (proto = "Undecided" /\ held = Slice(x, 0, k))
  BY DEF LooksDoh
<1> HIDE DEF b, data, held, bl, h2, r, pending, proto
<1>5. st.app_buf = held /\ st.proto = proto /\ st.h1_passthrough = FALSE
  BY <1>3
<1>6. ASSUME NEW y, y = St("H1", b)
      PROVE  FedDoh(s, u, h1_requests(y), last)
  <2>1. y.h2 = h2 /\ y.up = r /\ y.pending = pending /\ y.blocked = bl
    BY <1>6
  <2>2. y = DohSt("H1", b, FALSE, y)
    BY <1>6, <2>1 DEF DohSt
  <2> DEFINE d == h1_requests(y)
  <2>3. Fed("doh", s, u, d, last)
    BY <2>2, H1Fed DEF b, held
  <2> HIDE DEF d
  <2>4. CASE Stands("doh", s, u, d, last, last)
    <3>1. /\ d.to_upstream \in Seq(Bytes(s)) /\ u \o d.to_upstream = Asked(s)[last].out
          /\ d.st = DohSt("H1", Held(Asked(s)[last].held, x, last, last), FALSE, d.st)
      BY <2>4 DEF Stands, Written
    <3>2. Held(Asked(s)[last].held, x, last, last) = Asked(s)[last].held
      <4>1. Asked(s)[last].held \in Seq(Bytes(s))
        <5>1. last \in 0..last
          BY <1>0
        <5> QED
          BY <5>1, ReadSoFar
      <4> QED
        BY <4>1, HeldAll
    <3>3. d.st.proto = "H1"
      BY <3>1 DEF DohSt
    <3> QED
      BY <3>1, <3>2, <3>3 DEF FedDoh, LooksDoh, d
  <2> QED
    BY <2>3, <2>4 DEF Fed, FedDoh, d
<1>7. CASE proto = "H1"
  <2> DEFINE t == [st EXCEPT !.app_buf = @ \o data]
  <2>1. t = [st EXCEPT !.app_buf = b]
    BY <1>2, <1>5
  <2>2. c = h1_requests(t)
    BY <1>5, <1>7 DEF doh_app_data, h1_feed
  <2> HIDE DEF t, c
  <2>3. t = St("H1", b)
    BY <1>3, <1>7, <2>1
  <2>4. FedDoh(s, u, h1_requests(t), last)
    BY <1>6, <2>3
  <2> QED
    BY <2>2, <2>4 DEF c, data, u
<1>8. CASE proto = "Undecided" /\ held = Slice(x, 0, k)
  <2>1. b = Slice(x, 0, last)
    <3>1. Slice(x, 0, k) \o Slice(x, k, last) = Slice(x, 0, last)
      BY <1>0, SlicesJoin
    <3> QED
      BY <1>2, <1>8, <3>1 DEF data
  <2>2. ~ IsPrefix(PREFACE, b)
    BY <2>1, NoPreface
  <2>3. decide_proto(b) = IF IsStrictPrefix(b, PREFACE) THEN "Undecided" ELSE "H1"
    BY <2>2 DEF decide_proto
  <2>4. CASE IsStrictPrefix(b, PREFACE)
    <3>1. Asked(s)[last] = Acc(b, 0, <<>>)
      BY <2>1, <2>4, OpenHoldsAll
    <3>2. Asked(s)[last].held = b /\ Asked(s)[last].out = <<>>
      BY <3>1 DEF Acc
    <3> DEFINE t == [st EXCEPT !.app_buf = b]
    <3>3. c = Cross(t, <<>>, <<>>)
      BY <1>2, <1>5, <1>8, <2>3, <2>4 DEF doh_app_data
    <3>0. t = [st EXCEPT !.app_buf = b]
      OBVIOUS
    <3> HIDE DEF t, c
    <3>4. t = St("Undecided", b)
      BY <1>3, <1>8, <3>0
    <3>5. c.st = t /\ c.to_upstream = <<>>
      BY <3>3 DEF Cross
    <3>6. t.h2 = h2 /\ t.up = r /\ t.pending = pending /\ t.blocked = bl /\ t.proto = "Undecided"
      BY <3>4
    <3>7. t = DohSt("Undecided", b, FALSE, t)
      BY <3>4, <3>6 DEF DohSt
    <3>8. LooksDoh(s, c.st, last)
      BY <2>1, <3>2, <3>5, <3>6, <3>7 DEF LooksDoh
    <3>9. u = <<>>
      <4>1. PICK w \in Seq(Bytes(s)) : Asked(s)[last].out = u \o w
        <5>1. Extends(Bytes(s), Asked(s)[k], Asked(s)[last])
          BY OutGrows
        <5> QED
          BY <5>1 DEF Extends
      <4>2. u \o w = <<>>
        BY <3>2, <4>1
      <4> HIDE DEF u
      <4>3. Len(u \o w) = Len(u) + Len(w) /\ Len(u) \in Nat /\ Len(w) \in Nat
        BY <1>1, <4>1, ConcatProperties, LenProperties
      <4>4. Len(u) = 0
        <5>1. Len(<<>>) = 0
          BY EmptySeq
        <5> QED
          BY <4>2, <4>3, <5>1
      <4> QED
        BY <1>1, <4>4, EmptySeq
    <3>10. <<>> \in Seq(Bytes(s)) /\ <<>> \o <<>> = <<>>
      BY Concat, EmptySeq
    <3> HIDE DEF u
    <3>11. FedDoh(s, u, c, last)
      BY <3>2, <3>5, <3>8, <3>9, <3>10 DEF FedDoh
    <3> QED
      BY <3>11 DEF c, data, u
  <2>5. CASE ~ IsStrictPrefix(b, PREFACE)
    <3> DEFINE t == [st EXCEPT !.proto = "H1", !.app_buf = b]
               y == [t EXCEPT !.app_buf = @ \o <<>>]
    <3>1. c = h1_feed(t, <<>>)
      BY <1>2, <1>5, <1>8, <2>3, <2>5 DEF doh_app_data
    <3> HIDE DEF c
    <3>0. t = [st EXCEPT !.proto = "H1", !.app_buf = b]
      OBVIOUS
    <3> HIDE DEF t
    <3>2. t = St("H1", b)
      BY <1>3, <3>0
    <3>3. t.h1_passthrough = FALSE /\ t.app_buf = b
      BY <3>2
    <3>4. c = h1_requests(y)
      BY <3>1, <3>3 DEF h1_feed
    <3>5. y = [t EXCEPT !.app_buf = b]
      <4>1. b \o <<>> = b
        BY <1>1, Concat
      <4> QED
        BY <3>3, <4>1
    <3> HIDE DEF y
    <3>6. y = St("H1", b)
      BY <3>2, <3>5
    <3>7. FedDoh(s, u, h1_requests(y), last)
      BY <1>6, <3>6
    <3> QED
      BY <3>4, <3>7 DEF c, data, u
  <2> QED
    BY <2>4, <2>5
<1> QED
  BY <1>4, <1>7, <1>8

-----------------------------------------------------------------------------
(* Bodies *)

ReadOk(R, c) == BodyOk(c.framing) /\ c.buf \in Seq(R)

LEMMA Parsed_hex ==
    ASSUME NEW text
    PROVE  parse_hex(text) = -1 \/ parse_hex(text) \in Numbers
<1> DEFINE n == {k \in Numbers : text = <<ToString(k)>>}
<1>1. parse_hex(text) = IF n = {} THEN -1 ELSE Max(n)
  BY DEF parse_hex
<1>2. n \subseteq Numbers
  OBVIOUS
<1> HIDE DEF n
<1> QED
  BY <1>1, <1>2, Greatest

LEMMA BehindTyped ==
    ASSUME NEW R, NEW b \in Seq(R), NEW n \in 0..Len(b)
    PROVE  Behind(b, n) \in Seq(R)
<1>1. n \in Nat /\ Len(b) \in Nat
  BY LenProperties
<1>2. SubSeq(b, n + 1, Len(b)) \in Seq(R)
  BY <1>1, Part
<1> QED
  BY <1>2 DEF Behind

Taken(n, len, take) == take \in 0..len /\ n - take \in Nat /\ (take = 0 /\ n > 0 => len = 0)

LEMMA TakeIs ==
    ASSUME NEW n \in Nat, NEW len \in Nat
    PROVE  Taken(n, len, Min({n, len}))
<1> DEFINE S == {n, len}
<1>1. S \subseteq Nat /\ S # {} /\ n \in S /\ len \in S
  OBVIOUS
<1>3. \A m \in S : m = n \/ m = len
  OBVIOUS
<1> HIDE DEF S
<1>2. Min(S) \in S /\ Min(S) <= n /\ Min(S) <= len
  BY <1>1, MinIsLeast
<1>4. Min(S) \in Nat /\ (Min(S) = n \/ Min(S) = len)
  BY <1>1, <1>2, <1>3
<1> QED
  BY <1>2, <1>4 DEF Taken, S

LEMMA LineEnds ==
    ASSUME NEW R, NEW x \in Seq(R)
    PROVE  line_end(x) \in 0..Len(x)
<1>1. line_end(x) = SelectInSeq(x, LAMBDA b : b = "CRLF")
  BY DEF line_end
<1>2. \/ line_end(x) = 0 /\ \A i \in 1..Len(x) : x[i] # "CRLF"
      \/ /\ line_end(x) \in 1..Len(x) /\ x[line_end(x)] = "CRLF"
         /\ \A i \in 1..(line_end(x) - 1) : x[i] # "CRLF"
  BY <1>1, FirstPlace
<1> QED
  BY <1>2, LenProperties

\* A body's framing with other values.
LEMMA BodyWith ==
    ASSUME NEW f, BodyOk(f), NEW st \in States, NEW n \in Nat, NEW line
    PROVE  /\ BodyOk([f EXCEPT !.state = st, !.n = n, !.line = line])
           /\ BodyOk([f EXCEPT !.n = n, !.state = st])
           /\ BodyOk([f EXCEPT !.state = st, !.line = line])
           /\ BodyOk([f EXCEPT !.line = line])
           /\ BodyOk([f EXCEPT !.n = n])
<1> DEFINE kind == f.kind
           st0 == f.state
           n0 == f.n
           line0 == f.line
<1>1. f = [kind |-> kind, state |-> st0, n |-> n0, line |-> line0] /\ kind \in Kinds /\ st0 \in States /\ n0 \in Nat
  BY DEF BodyOk
<1> HIDE DEF kind, st0, n0, line0
<1>2. ASSUME NEW x \in States, NEW y \in Nat, NEW z
      PROVE  BodyOk([kind |-> kind, state |-> x, n |-> y, line |-> z])
  BY <1>1 DEF BodyOk
<1>3. [f EXCEPT !.state = st, !.n = n, !.line = line] = [kind |-> kind, state |-> st, n |-> n, line |-> line]
  <2> DEFINE y == [f EXCEPT !.state = st, !.n = n, !.line = line]
  <2>1. y = [f EXCEPT !.state = st, !.n = n, !.line = line]
    OBVIOUS
  <2> HIDE DEF y
  <2>2. y = [kind |-> kind, state |-> st, n |-> n, line |-> line]
    BY <1>1, <2>1
  <2> QED
    BY <2>2 DEF y
<1>4. [f EXCEPT !.n = n, !.state = st] = [kind |-> kind, state |-> st, n |-> n, line |-> line0]
  <2> DEFINE y == [f EXCEPT !.n = n, !.state = st]
  <2>1. y = [f EXCEPT !.n = n, !.state = st]
    OBVIOUS
  <2> HIDE DEF y
  <2>2. y = [kind |-> kind, state |-> st, n |-> n, line |-> line0]
    BY <1>1, <2>1
  <2> QED
    BY <2>2 DEF y
<1>5. [f EXCEPT !.state = st, !.line = line] = [kind |-> kind, state |-> st, n |-> n0, line |-> line]
  <2> DEFINE y == [f EXCEPT !.state = st, !.line = line]
  <2>1. y = [f EXCEPT !.state = st, !.line = line]
    OBVIOUS
  <2> HIDE DEF y
  <2>2. y = [kind |-> kind, state |-> st, n |-> n0, line |-> line]
    BY <1>1, <2>1
  <2> QED
    BY <2>2 DEF y
<1>6. [f EXCEPT !.line = line] = [kind |-> kind, state |-> st0, n |-> n0, line |-> line]
  BY <1>1
<1>7. [f EXCEPT !.n = n] = [kind |-> kind, state |-> st0, n |-> n, line |-> line0]
  BY <1>1
<1> QED
  BY <1>1, <1>2, <1>3, <1>4, <1>5, <1>6, <1>7

LEMMA ChunkTurn ==
    ASSUME NEW R, NEW f, BodyOk(f), NEW b \in Seq(R), NEW data
    PROVE  ReadOk(R, chunk_turn(f, b, data))
<1> DEFINE pos == line_end(b)
           text == f.line \o SubSeq(b, 1, pos - 1)
           hex == parse_hex(text)
           n == f.n
           st == f.state
           len == Len(b)
           take == Min({n, len})
           next == chunk_turn(f, b, data)
           w == data \o SubSeq(b, 1, take)
           sized == [f EXCEPT !.state = IF hex = 0 THEN "Trailer" ELSE "Data", !.n = hex, !.line = <<>>]
           taken == [f EXCEPT !.n = n - take, !.state = IF n = 0 THEN "DataCrlf" ELSE st]
           again == [f EXCEPT !.state = "Size", !.line = <<>>]
           cut == [f EXCEPT !.line = f.line \o b]
           lined == [f EXCEPT !.line = <<>>]
<1>1. pos \in 0..len /\ len \in Nat
  BY LineEnds, LenProperties
<1>2. n \in Nat /\ st \in States
  BY DEF BodyOk
<1>3. Taken(n, len, take)
  BY <1>1, <1>2, TakeIs
<1>4. hex = -1 \/ hex \in Numbers
  BY Parsed_hex
<1>5. Behind(b, pos) \in Seq(R) /\ Behind(b, take) \in Seq(R)
  BY <1>1, <1>3, BehindTyped DEF Taken
<1>6. len # 0 => Behind(b, 1) \in Seq(R)
  BY <1>1, BehindTyped
<1>7. b = <<>> <=> len = 0
  BY EmptySeq
<1>8. <<>> \in Seq(R)
  BY EmptySeq
<1>9. BodyOk(taken) /\ BodyOk(again) /\ BodyOk(cut) /\ BodyOk(lined)
  <2>1. "DataCrlf" \in States /\ "Size" \in States
    BY DEF States
  <2>2. n - take \in Nat /\ (IF n = 0 THEN "DataCrlf" ELSE st) \in States
    BY <1>2, <1>3, <2>1 DEF Taken
  <2> QED
    BY <1>2, <2>1, <2>2, BodyWith
<1>10. hex >= 0 => BodyOk(sized)
  <2> SUFFICES ASSUME hex >= 0
               PROVE  BodyOk(sized)
    OBVIOUS
  <2>1. hex \in Nat
    BY <1>4 DEF Numbers
  <2>2. (IF hex = 0 THEN "Trailer" ELSE "Data") \in States
    BY DEF States
  <2> HIDE DEF hex
  <2> QED
    BY <2>1, <2>2, BodyWith
<1>11. next = CASE st \in {"Size", "Trailer"} /\ pos = 0 ->
                       IF len > MAX_HEADER_BYTES THEN Consumed("Error", f, b, data)
                       ELSE Consumed("NeedMore", cut, <<>>, data)
                [] st = "Size" /\ pos > 0 /\ hex < 0 -> Consumed("Error", f, Behind(b, pos), data)
                [] st = "Size" /\ pos > 0 /\ hex >= 0 -> Consumed("More", sized, Behind(b, pos), data)
                [] st = "Data" /\ take = 0 /\ n > 0 -> Consumed("NeedMore", f, b, data)
                [] st = "Data" /\ (take > 0 \/ n = 0) -> Consumed("More", taken, Behind(b, take), w)
                [] st = "DataCrlf" /\ b = <<>> -> Consumed("NeedMore", f, b, data)
                [] st = "DataCrlf" /\ b # <<>> -> Consumed("More", again, Behind(b, 1), data)
                [] st = "Trailer" /\ pos > 0 ->
                       IF text = <<>> THEN Consumed("Done", f, Behind(b, pos), data)
                       ELSE Consumed("More", lined, Behind(b, pos), data)
  BY DEF chunk_turn, cut_line
<1> HIDE DEF next, pos, text, hex, n, st, len, take, w, sized, taken, again, cut, lined
<1>12. ASSUME NEW step, NEW g, BodyOk(g), NEW x \in Seq(R), NEW d
       PROVE  ReadOk(R, Consumed(step, g, x, d))
  BY <1>12 DEF Consumed, ReadOk
<1>13. CASE st \in {"Size", "Trailer"} /\ pos = 0
  <2>1. next = IF len > MAX_HEADER_BYTES THEN Consumed("Error", f, b, data)
               ELSE Consumed("NeedMore", cut, <<>>, data)
    BY <1>11, <1>13
  <2> QED
    BY <1>8, <1>9, <1>12, <2>1 DEF next
<1>14. CASE st = "Size" /\ pos # 0
  <2>1. pos > 0 /\ (hex < 0 \/ hex >= 0) /\ ~ (hex < 0 /\ hex >= 0)
    BY <1>1, <1>4, <1>14 DEF Numbers
  <2>2. CASE hex < 0
    <3>1. next = Consumed("Error", f, Behind(b, pos), data)
      BY <1>11, <1>14, <2>1, <2>2
    <3> QED
      BY <1>5, <1>12, <3>1 DEF next
  <2>3. CASE hex >= 0
    <3>1. next = Consumed("More", sized, Behind(b, pos), data)
      BY <1>11, <1>14, <2>1, <2>3
    <3> QED
      BY <1>5, <1>10, <1>12, <2>3, <3>1 DEF next
  <2> QED
    BY <2>1, <2>2, <2>3
<1>15. CASE st = "Data"
  <2>1. take \in Nat
    BY <1>1, <1>3 DEF Taken
  <2>2. CASE take = 0 /\ n > 0
    <3>1. next = Consumed("NeedMore", f, b, data)
      BY <1>11, <1>15, <2>2
    <3> QED
      BY <1>12, <3>1 DEF next
  <2>3. CASE take > 0 \/ n = 0
    <3>1. next = Consumed("More", taken, Behind(b, take), w)
      BY <1>2, <1>11, <1>15, <2>1, <2>3
    <3> QED
      BY <1>5, <1>9, <1>12, <3>1 DEF next
  <2> QED
    BY <1>2, <2>1, <2>2, <2>3
<1>16. CASE st = "DataCrlf"
  <2>1. CASE b = <<>>
    <3>1. next = Consumed("NeedMore", f, b, data)
      BY <1>11, <1>16, <2>1
    <3> QED
      BY <1>12, <3>1 DEF next
  <2>2. CASE b # <<>>
    <3>1. next = Consumed("More", again, Behind(b, 1), data)
      BY <1>11, <1>16, <2>2
    <3>2. Behind(b, 1) \in Seq(R)
      BY <1>6, <1>7, <2>2
    <3> QED
      BY <1>9, <1>12, <3>1, <3>2 DEF next
  <2> QED
    BY <2>1, <2>2
<1>17. CASE st = "Trailer" /\ pos # 0
  <2>1. pos > 0
    BY <1>1, <1>17
  <2>2. next = IF text = <<>> THEN Consumed("Done", f, Behind(b, pos), data)
               ELSE Consumed("More", lined, Behind(b, pos), data)
    BY <1>11, <1>17, <2>1
  <2> QED
    BY <1>5, <1>9, <1>12, <2>2 DEF next
<1> QED
  BY <1>2, <1>13, <1>14, <1>15, <1>16, <1>17 DEF States

LEMMA ChunkRounds ==
    ASSUME NEW g, NEW b, Len(b) \in Nat
    PROVE  \E f : /\ Rounds("chunks", <<>>, f, Consumed("More", g, b, <<>>), 2 * Len(b) + 2)
                  /\ chunks(g, b) = f[2 * Len(b) + 2]
<1> DEFINE n == 2 * Len(b) + 2
           a == Consumed("More", g, b, <<>>)
           turns == CHOOSE f : f = [i \in 0..n |->
                        IF i = 0 THEN a
                        ELSE (IF f[i - 1].step = "More" THEN chunk_turn(f[i - 1].framing, f[i - 1].buf, f[i - 1].data)
                              ELSE f[i - 1])]
<1>1. chunks(g, b) = turns[n]
  BY DEF chunks
<1>0. n \in Nat
  OBVIOUS
<1> HIDE DEF n, a
<1>2. PICK f : Rounds("chunks", <<>>, f, a, n)
  BY <1>0, RoundsExist
<1>3. f = [i \in 0..n |->
              IF i = 0 THEN a
              ELSE (IF f[i - 1].step = "More" THEN chunk_turn(f[i - 1].framing, f[i - 1].buf, f[i - 1].data)
                    ELSE f[i - 1])]
  <2>1. ASSUME NEW i \in 0..n
        PROVE  f[i] = IF i = 0 THEN a
                      ELSE (IF f[i - 1].step = "More" THEN chunk_turn(f[i - 1].framing, f[i - 1].buf, f[i - 1].data)
                            ELSE f[i - 1])
    <3>1. CASE i = 0
      BY <1>2, <3>1 DEF Rounds
    <3>2. CASE i # 0
      <4>1. i \in 1..n
        BY <1>0, <3>2
      <4>2. f[i] = Round("chunks", <<>>, i, f[i - 1])
        BY <1>2, <4>1 DEF Rounds
      <4> QED
        BY <3>2, <4>2 DEF Round
    <3> QED
      BY <3>1, <3>2
  <2>2. f = [i \in 0..n |-> f[i]]
    BY <1>2 DEF Rounds
  <2>3. [i \in 0..n |-> f[i]] = [i \in 0..n |->
            IF i = 0 THEN a
            ELSE (IF f[i - 1].step = "More" THEN chunk_turn(f[i - 1].framing, f[i - 1].buf, f[i - 1].data)
                  ELSE f[i - 1])]
    BY <2>1
  <2> QED
    BY <2>2, <2>3
<1>4. turns = [i \in 0..n |->
                  IF i = 0 THEN a
                  ELSE (IF turns[i - 1].step = "More"
                        THEN chunk_turn(turns[i - 1].framing, turns[i - 1].buf, turns[i - 1].data)
                        ELSE turns[i - 1])]
  BY <1>3
<1> HIDE DEF turns
<1>6. turns[0] = a
  BY <1>0, <1>4
<1>7. ASSUME NEW i \in 1..n
      PROVE  turns[i] = Round("chunks", <<>>, i, turns[i - 1])
  <2>1. i \in 0..n /\ i # 0
    BY <1>0
  <2>2. turns[i] = (IF turns[i - 1].step = "More"
                    THEN chunk_turn(turns[i - 1].framing, turns[i - 1].buf, turns[i - 1].data)
                    ELSE turns[i - 1])
    BY <1>4, <2>1
  <2> QED
    BY <2>2 DEF Round
<1>8. turns = [i \in 0..n |-> turns[i]]
  BY <1>4
<1>9. Rounds("chunks", <<>>, turns, a, n)
  BY <1>6, <1>7, <1>8 DEF Rounds
<1> QED
  BY <1>1, <1>9 DEF n, a

LEMMA ChunksTyped ==
    ASSUME NEW R, NEW g, BodyOk(g), NEW b \in Seq(R)
    PROVE  ReadOk(R, chunks(g, b))
<1> DEFINE n == 2 * Len(b) + 2
           a == Consumed("More", g, b, <<>>)
<1>1. Len(b) \in Nat /\ n \in Nat
  BY LenProperties
<1>2. PICK f : Rounds("chunks", <<>>, f, a, n) /\ chunks(g, b) = f[n]
  BY <1>1, ChunkRounds
<1>3. ReadOk(R, a)
  BY DEF ReadOk, Consumed
<1> HIDE DEF n, a
<1> DEFINE Bad == {i \in 0..n : ~ ReadOk(R, f[i])}
<1>4. Bad = {}
  <2> SUFFICES ASSUME Bad # {}
               PROVE  FALSE
    OBVIOUS
  <2>1. PICK i \in Bad : \A m \in Bad : i <= m
    <3>1. Bad \subseteq Nat
      OBVIOUS
    <3> HIDE DEF Bad
    <3> QED
      BY <3>1, Least
  <2>2. i \in 0..n /\ ~ ReadOk(R, f[i])
    BY <2>1
  <2>3. i # 0
    BY <1>2, <1>3, <2>2 DEF Rounds
  <2>4. i \in 1..n /\ i - 1 \in 0..n /\ ~ (i <= i - 1)
    BY <1>1, <2>2, <2>3
  <2>5. ReadOk(R, f[i - 1])
    BY <2>1, <2>4
  <2>6. f[i] = Round("chunks", <<>>, i, f[i - 1])
    BY <1>2, <2>4 DEF Rounds
  <2> DEFINE c == f[i - 1]
  <2>7. ReadOk(R, chunk_turn(c.framing, c.buf, c.data))
    <3>1. BodyOk(c.framing) /\ c.buf \in Seq(R)
      BY <2>5 DEF ReadOk
    <3> HIDE DEF c
    <3> QED
      BY <3>1, ChunkTurn
  <2>8. f[i] = IF c.step = "More" THEN chunk_turn(c.framing, c.buf, c.data) ELSE c
    BY <2>6 DEF Round
  <2> QED
    BY <2>2, <2>5, <2>7, <2>8
<1> QED
  BY <1>1, <1>2, <1>4

LEMMA ConsumeTyped ==
    ASSUME NEW R, NEW f, BodyOk(f), NEW b \in Seq(R)
    PROVE  ReadOk(R, consume(f, b))
<1> DEFINE n == f.n
           len == Len(b)
           take == Min({n, len})
           left == [f EXCEPT !.n = n - take]
           next == consume(f, b)
<1>1. f.kind \in Kinds /\ n \in Nat /\ len \in Nat /\ f.state \in States
  BY LenProperties DEF BodyOk
<1>2. Taken(n, len, take)
  BY <1>1, TakeIs
<1>3. BodyOk(left)
  <2>1. n - take \in Nat
    BY <1>2 DEF Taken
  <2> HIDE DEF n, take
  <2> QED
    BY <1>1, <2>1, BodyWith
<1>4. Behind(b, take) \in Seq(R)
  BY <1>2, BehindTyped DEF Taken
<1>5. next = CASE f.kind = "Length" ->
                      Consumed(IF take = n THEN "Done" ELSE "NeedMore", left, Behind(b, take), SubSeq(b, 1, take))
               [] f.kind = "UntilClose" -> Consumed("NeedMore", f, <<>>, b)
               [] f.kind = "Chunked" -> chunks(f, b)
  BY DEF consume
<1> HIDE DEF n, len, take, left, next
<1>6. ASSUME NEW step, NEW g, BodyOk(g), NEW x \in Seq(R), NEW d
      PROVE  ReadOk(R, Consumed(step, g, x, d))
  BY <1>6 DEF Consumed, ReadOk
<1>7. CASE f.kind = "Length"
  <2>1. next = Consumed(IF take = n THEN "Done" ELSE "NeedMore", left, Behind(b, take), SubSeq(b, 1, take))
    BY <1>5, <1>7
  <2> QED
    BY <1>3, <1>4, <1>6, <2>1 DEF next
<1>8. CASE f.kind = "UntilClose"
  <2>1. next = Consumed("NeedMore", f, <<>>, b)
    BY <1>5, <1>8
  <2>2. <<>> \in Seq(R)
    BY EmptySeq
  <2> QED
    BY <1>6, <2>1, <2>2 DEF next
<1>9. CASE f.kind = "Chunked"
  <2>1. next = chunks(f, b)
    BY <1>5, <1>9
  <2> QED
    BY <2>1, ChunksTyped DEF next
<1> QED
  BY <1>1, <1>7, <1>8, <1>9 DEF Kinds

-----------------------------------------------------------------------------
(* Responses *)

IsRw(given_up, req, buf, rw, resp, resp_buf) ==
    rw = RwSt(TRUE, given_up, req, buf, rw) /\ rw.resp = resp /\ rw.resp_buf = resp_buf

\* What its steps assign.
LEMMA RwEdit ==
    ASSUME NEW req, NEW buf, NEW rw, rw = RwSt(TRUE, FALSE, req, buf, rw), NEW x, NEW z
    PROVE  /\ IsRw(FALSE, req, buf, [rw EXCEPT !.resp_buf = z], rw.resp, z)
           /\ IsRw(FALSE, req, buf, [rw EXCEPT !.resp = x], x, rw.resp_buf)
           /\ IsRw(FALSE, req, buf, [rw EXCEPT !.pending_head = x], rw.resp, rw.resp_buf)
           /\ IsRw(TRUE, req, buf, [rw EXCEPT !.disabled = TRUE, !.resp = x], x, rw.resp_buf)
           /\ IsRw(TRUE, req, buf, [rw EXCEPT !.resp = x, !.disabled = TRUE], x, rw.resp_buf)
           /\ IsRw(TRUE, req, buf, [rw EXCEPT !.disabled = TRUE, !.resp_buf = z, !.resp = x], x, z)
<1> DEFINE resp == rw.resp
           rb == rw.resp_buf
           p == rw.pending_head
           K(d, r, b, h) == [active |-> TRUE, disabled |-> d, req |-> req, req_buf |-> buf,
                             resp |-> r, resp_buf |-> b, pending_head |-> h]
<1>1. rw = K(FALSE, resp, rb, p)
  BY DEF RwSt
<1> HIDE DEF resp, rb, p
<1>2. rw.resp = resp /\ rw.resp_buf = rb
  BY DEF resp, rb
<1>3. ASSUME NEW d, NEW r, NEW b, NEW h, NEW y, y = K(d, r, b, h)
      PROVE  IsRw(d, req, buf, y, r, b)
  <2>1. y.resp = r /\ y.resp_buf = b /\ y.pending_head = h
    BY <1>3
  <2> QED
    BY <1>3, <2>1 DEF IsRw, RwSt
<1>4. IsRw(FALSE, req, buf, [rw EXCEPT !.resp_buf = z], rw.resp, z)
  <2> DEFINE y == [rw EXCEPT !.resp_buf = z]
  <2>1. y = [rw EXCEPT !.resp_buf = z]
    OBVIOUS
  <2> HIDE DEF y
  <2>2. y = K(FALSE, resp, z, p)
    BY <1>1, <2>1
  <2> HIDE DEF K
  <2> QED
    BY <1>2, <1>3, <2>2 DEF y
<1>5. IsRw(FALSE, req, buf, [rw EXCEPT !.resp = x], x, rw.resp_buf)
  <2> DEFINE y == [rw EXCEPT !.resp = x]
  <2>1. y = [rw EXCEPT !.resp = x]
    OBVIOUS
  <2> HIDE DEF y
  <2>2. y = K(FALSE, x, rb, p)
    BY <1>1, <2>1
  <2> HIDE DEF K
  <2> QED
    BY <1>2, <1>3, <2>2 DEF y
<1>6. IsRw(FALSE, req, buf, [rw EXCEPT !.pending_head = x], rw.resp, rw.resp_buf)
  <2> DEFINE y == [rw EXCEPT !.pending_head = x]
  <2>1. y = [rw EXCEPT !.pending_head = x]
    OBVIOUS
  <2> HIDE DEF y
  <2>2. y = K(FALSE, resp, rb, x)
    BY <1>1, <2>1
  <2> HIDE DEF K
  <2> QED
    BY <1>2, <1>3, <2>2 DEF y
<1>7. IsRw(TRUE, req, buf, [rw EXCEPT !.disabled = TRUE, !.resp = x], x, rw.resp_buf)
  <2> DEFINE y == [rw EXCEPT !.disabled = TRUE, !.resp = x]
  <2>1. y = [rw EXCEPT !.disabled = TRUE, !.resp = x]
    OBVIOUS
  <2> HIDE DEF y
  <2>2. y = K(TRUE, x, rb, p)
    BY <1>1, <2>1
  <2> HIDE DEF K
  <2> QED
    BY <1>2, <1>3, <2>2 DEF y
<1>8. IsRw(TRUE, req, buf, [rw EXCEPT !.resp = x, !.disabled = TRUE], x, rw.resp_buf)
  <2> DEFINE y == [rw EXCEPT !.resp = x, !.disabled = TRUE]
  <2>1. y = [rw EXCEPT !.resp = x, !.disabled = TRUE]
    OBVIOUS
  <2> HIDE DEF y
  <2>2. y = K(TRUE, x, rb, p)
    BY <1>1, <2>1
  <2> HIDE DEF K
  <2> QED
    BY <1>2, <1>3, <2>2 DEF y
<1>9. IsRw(TRUE, req, buf, [rw EXCEPT !.disabled = TRUE, !.resp_buf = z, !.resp = x], x, z)
  <2> DEFINE y == [rw EXCEPT !.disabled = TRUE, !.resp_buf = z, !.resp = x]
  <2>1. y = [rw EXCEPT !.disabled = TRUE, !.resp_buf = z, !.resp = x]
    OBVIOUS
  <2> HIDE DEF y
  <2>2. y = K(TRUE, x, z, p)
    BY <1>1, <2>1
  <2> HIDE DEF K
  <2> QED
    BY <1>2, <1>3, <2>2 DEF y
<1> QED
  BY <1>4, <1>5, <1>6, <1>7, <1>8, <1>9

\* A step keeps what is held of the requests, and goes on only as long as it looks at
\* the plaintext.
Kept(R, req, buf, c) ==
    \/ c.rw = RwSt(TRUE, FALSE, req, buf, c.rw) /\ Hears(R, c.rw.resp, c.rw.resp_buf)
    \/ c.more = FALSE /\ c.rw = RwSt(TRUE, TRUE, req, buf, c.rw)

LEMMA Keeping ==
    ASSUME NEW R, NEW req, NEW buf, NEW more, NEW rw, NEW out, NEW resp, NEW resp_buf
    PROVE  /\ IsRw(FALSE, req, buf, rw, resp, resp_buf) /\ Hears(R, resp, resp_buf) =>
                  Kept(R, req, buf, Step(more, rw, out))
           /\ IsRw(TRUE, req, buf, rw, resp, resp_buf) => Kept(R, req, buf, Step(FALSE, rw, out))
BY DEF IsRw, Kept, Step

\* The phases a step may set.
LEMMA Phases ==
    ASSUME NEW R, NEW b \in Seq(R), NEW f, BodyOk(f), NEW head
    PROVE  /\ Hears(R, NoResponse, b)
           /\ Hears(R, [NoResponse EXCEPT !.phase = "Buffer", !.head = head, !.body = f], b)
           /\ Hears(R, [NoResponse EXCEPT !.phase = "Pass", !.body = f], b)
           /\ Hears(R, [NoResponse EXCEPT !.phase = "Stream", !.body = f], b)
<1> DEFINE none == NoBody
           K(phase, hd, body) == [phase |-> phase, head |-> hd, scan |-> <<>>, body |-> body, body_done |-> FALSE]
<1>1. NoResponse = K("Head", <<>>, none)
  BY DEF NoResponse
<1> HIDE DEF none
<1>2. ASSUME NEW hd, NEW body, NEW y, NEW phase \in {"Head", "Buffer", "Stream", "Pass"},
             phase = "Head" \/ BodyOk(body), y = K(phase, hd, body)
      PROVE  Hears(R, y, b)
  <2>1. y.phase = phase /\ y.head = hd /\ y.scan = <<>> /\ y.body = body /\ y.body_done = FALSE
    BY <1>2
  <2> QED
    BY <1>2, <2>1 DEF Hears
<1>3. Hears(R, NoResponse, b)
  <2> HIDE DEF K
  <2> QED
    BY <1>1, <1>2
<1>4. Hears(R, [NoResponse EXCEPT !.phase = "Buffer", !.head = head, !.body = f], b)
  <2> DEFINE y == [NoResponse EXCEPT !.phase = "Buffer", !.head = head, !.body = f]
  <2>1. y = [NoResponse EXCEPT !.phase = "Buffer", !.head = head, !.body = f]
    OBVIOUS
  <2> HIDE DEF y
  <2>2. y = K("Buffer", head, f)
    BY <1>1, <2>1
  <2> HIDE DEF K
  <2> QED
    BY <1>2, <2>2 DEF y
<1>5. Hears(R, [NoResponse EXCEPT !.phase = "Pass", !.body = f], b)
  <2> DEFINE y == [NoResponse EXCEPT !.phase = "Pass", !.body = f]
  <2>1. y = [NoResponse EXCEPT !.phase = "Pass", !.body = f]
    OBVIOUS
  <2> HIDE DEF y
  <2>2. y = K("Pass", <<>>, f)
    BY <1>1, <2>1
  <2> HIDE DEF K
  <2> QED
    BY <1>2, <2>2 DEF y
<1>6. Hears(R, [NoResponse EXCEPT !.phase = "Stream", !.body = f], b)
  <2> DEFINE y == [NoResponse EXCEPT !.phase = "Stream", !.body = f]
  <2>1. y = [NoResponse EXCEPT !.phase = "Stream", !.body = f]
    OBVIOUS
  <2> HIDE DEF y
  <2>2. y = K("Stream", <<>>, f)
    BY <1>1, <2>1
  <2> HIDE DEF K
  <2> QED
    BY <1>2, <2>2 DEF y
<1> QED
  BY <1>3, <1>4, <1>5, <1>6

LEMMA LengthIs ==
    ASSUME NEW headers
    PROVE  content_length(headers) = -1 \/ content_length(headers) \in Numbers
<1> DEFINE n == {k \in Numbers : header(headers, Lengths) # <<>> /\ length(k) = header(headers, Lengths)[1]}
<1>1. content_length(headers) = IF n = {} THEN -1 ELSE Max(n)
  BY DEF content_length
<1>2. n \subseteq Numbers
  OBVIOUS
<1> HIDE DEF n
<1> QED
  BY <1>1, <1>2, Greatest

LEMMA ResponseFramed ==
    ASSUME NEW status, NEW headed, NEW headers
    PROVE  \/ response_framing(status, headed, headers) = NoBody
           \/ BodyOk(response_framing(status, headed, headers))
<1> DEFINE cl == content_length(headers)
           f == response_framing(status, headed, headers)
<1>1. cl = -1 \/ cl \in Numbers
  BY LengthIs
<1>2. ASSUME NEW kind \in Kinds, NEW n \in Nat
      PROVE  BodyOk(Framing(kind, n))
  BY DEF BodyOk, Framing, States
<1>3. BodyOk(Chunked) /\ BodyOk(UntilClose)
  <2>1. "Chunked" \in Kinds /\ "UntilClose" \in Kinds
    BY DEF Kinds
  <2> QED
    BY <1>2, <2>1 DEF Chunked, UntilClose
<1>4. cl > 0 => BodyOk(Framing("Length", cl))
  <2>1. "Length" \in Kinds
    BY DEF Kinds
  <2>2. cl > 0 => cl \in Nat
    BY <1>1 DEF Numbers
  <2> QED
    BY <1>2, <2>1, <2>2
<1>5. \/ f = NoBody \/ f = Chunked
      \/ f = CASE cl = 0 -> NoBody [] cl > 0 -> Framing("Length", cl) [] cl < 0 -> UntilClose
  BY DEF response_framing
<1> HIDE DEF cl
<1>6. cl = 0 \/ cl > 0 \/ cl < 0
  BY <1>1 DEF Numbers
<1>7. ~ (cl = 0 /\ cl > 0) /\ ~ (cl = 0 /\ cl < 0) /\ ~ (cl > 0 /\ cl < 0)
  BY <1>1 DEF Numbers
<1>8. (f = CASE cl = 0 -> NoBody [] cl > 0 -> Framing("Length", cl) [] cl < 0 -> UntilClose) =>
          (f = NoBody \/ f = UntilClose \/ (cl > 0 /\ f = Framing("Length", cl)))
  <2> HIDE DEF f
  <2> QED
    BY <1>6, <1>7
<1> QED
  BY <1>3, <1>4, <1>5, <1>8 DEF f

LEMMA StepHead ==
    ASSUME NEW R, NEW req, NEW buf, NEW rw, rw = RwSt(TRUE, FALSE, req, buf, rw),
           Hears(R, rw.resp, rw.resp_buf), NEW out
    PROVE  Kept(R, req, buf, step_response_head(rw, out, take_head(rw.resp_buf)))
<1> DEFINE rb == rw.resp_buf
           end == find_header_end(rb)
           head == SubSeq(rb, 1, end - 1)
           rest == Behind(rb, end)
           step == IF end > 0 THEN "Head" ELSE IF Len(rb) > MAX_HEADER_BYTES THEN "Error" ELSE "NeedMore"
           h == take_head(rb)
           raw == Append(head, "END")
           status == status_of(head[1])
           headed == rw.pending_head # <<>> /\ rw.pending_head[1]
           f == response_framing(status, headed, head)
           r == [rw EXCEPT !.resp_buf = rest]
           popped == IF rw.pending_head = <<>> THEN rw.pending_head ELSE Tail(rw.pending_head)
           answered == [r EXCEPT !.pending_head = popped]
           buffer == [NoResponse EXCEPT !.phase = "Buffer", !.head = raw, !.body = f]
           pass == [NoResponse EXCEPT !.phase = "Pass", !.body = f]
           next == step_response_head(rw, out, h)
<1>1. rb \in Seq(R)
  BY DEF Hears
<1>2. rest \in Seq(R)
  <2>1. end = 0 \/ end \in 1..Len(rb)
    BY <1>1, HeaderEnd
  <2>2. end \in 0..Len(rb)
    BY <1>1, <2>1, LenProperties
  <2> QED
    BY <1>1, <2>2, BehindTyped
<1>3. h = [step |-> step, head |-> head, buf |-> rest]
  BY DEF take_head
<1>4. r.pending_head = rw.pending_head
  <2>1. r = [rw EXCEPT !.resp_buf = rest]
    OBVIOUS
  <2> HIDE DEF rest, r
  <2> QED
    BY <2>1 DEF RwSt
<1>5. IsRw(FALSE, req, buf, r, rw.resp, rest)
  <2> HIDE DEF rest
  <2> QED
    BY RwEdit
<1>6. IsRw(FALSE, req, buf, answered, rw.resp, rest)
  <2> HIDE DEF r, rest, popped
  <2>1. r = RwSt(TRUE, FALSE, req, buf, r) /\ r.resp = rw.resp /\ r.resp_buf = rest
    BY <1>5 DEF IsRw
  <2>2. IsRw(FALSE, req, buf, answered, r.resp, r.resp_buf)
    BY <2>1, RwEdit
  <2> QED
    BY <2>1, <2>2
<1>7. f = NoBody \/ BodyOk(f)
  BY ResponseFramed
<1>8. Hears(R, rw.resp, rest)
  BY <1>2 DEF Hears
<1> HIDE DEF h
<1>9. next = CASE step = "NeedMore" -> Step(FALSE, rw, out)
               [] step = "Error" -> disable_flush_resp(rw, out)
               [] step = "Head" ->
                      IF head = <<>> \/ head[1] \notin StatusLines THEN disable_flush_resp(rw, out)
                      ELSE IF status = 100 THEN Step(TRUE, r, out \o raw)
                      ELSE IF status = 101 THEN disable_flush_resp(answered, out \o raw)
                      ELSE IF f = NoBody THEN Step(TRUE, answered, out \o raw)
                      ELSE IF injectable(status, head)
                      THEN Step(TRUE, [answered EXCEPT !.resp = buffer], out)
                      ELSE Step(TRUE, [answered EXCEPT !.resp = pass], out \o raw)
  <2>1. h.step = step /\ h.head = head /\ h.buf = rest
    BY <1>3
  <2> HIDE DEF rest, head, step
  <2>2. [r EXCEPT !.pending_head = IF @ = <<>> THEN @ ELSE Tail(@)] = answered
    <3> HIDE DEF r
    <3> QED
      BY <1>4
  <2> QED
    BY <2>1, <2>2 DEF step_response_head
<1>10. step \in {"NeedMore", "Error", "Head"}
  OBVIOUS
<1> HIDE DEF next, step, rest, head, raw, status, headed, f, r, popped, answered, rb, end
<1>11. ASSUME NEW y, IsRw(FALSE, req, buf, y, y.resp, y.resp_buf), NEW o
       PROVE  Kept(R, req, buf, disable_flush_resp(y, o))
  <2> DEFINE none == NoResponse
             z == [y EXCEPT !.disabled = TRUE, !.resp_buf = <<>>, !.resp = none]
  <2>0. <<>> \in Seq(R)
    BY EmptySeq
  <2>1. y = RwSt(TRUE, FALSE, req, buf, y)
    BY <1>11 DEF IsRw
  <2>2. disable_flush_resp(y, o) = Step(FALSE, z, o \o y.resp_buf)
    BY DEF disable_flush_resp, Step
  <2> HIDE DEF none
  <2>3. IsRw(TRUE, req, buf, z, none, <<>>)
    BY <2>1, RwEdit
  <2> HIDE DEF z
  <2> QED
    BY <2>2, <2>3, Keeping
<1>12. IsRw(FALSE, req, buf, rw, rw.resp, rw.resp_buf)
  BY DEF IsRw
<1>13. IsRw(FALSE, req, buf, answered, answered.resp, answered.resp_buf)
  BY <1>6 DEF IsRw
<1>14. ASSUME NEW x, Hears(R, x, rest), NEW o
       PROVE  Kept(R, req, buf, Step(TRUE, [answered EXCEPT !.resp = x], o))
  <2>1. answered = RwSt(TRUE, FALSE, req, buf, answered) /\ answered.resp_buf = rest
    BY <1>6 DEF IsRw
  <2>2. IsRw(FALSE, req, buf, [answered EXCEPT !.resp = x], x, answered.resp_buf)
    BY <2>1, RwEdit
  <2> QED
    BY <1>14, <2>1, <2>2, Keeping
<1>15. CASE step = "NeedMore"
  <2>1. next = Step(FALSE, rw, out)
    BY <1>9, <1>15
  <2> QED
    BY <1>12, <2>1, Keeping DEF next, h, rb
<1>16. CASE step = "Error"
  <2>1. next = disable_flush_resp(rw, out)
    BY <1>9, <1>16
  <2> QED
    BY <1>11, <1>12, <2>1 DEF next, h, rb
<1>17. CASE step = "Head"
  <2>0. next = IF head = <<>> \/ head[1] \notin StatusLines THEN disable_flush_resp(rw, out)
               ELSE IF status = 100 THEN Step(TRUE, r, out \o raw)
               ELSE IF status = 101 THEN disable_flush_resp(answered, out \o raw)
               ELSE IF f = NoBody THEN Step(TRUE, answered, out \o raw)
               ELSE IF injectable(status, head)
               THEN Step(TRUE, [answered EXCEPT !.resp = buffer], out)
               ELSE Step(TRUE, [answered EXCEPT !.resp = pass], out \o raw)
    BY <1>9, <1>17
  <2>1. Kept(R, req, buf, disable_flush_resp(rw, out))
    BY <1>11, <1>12
  <2>2. Kept(R, req, buf, disable_flush_resp(answered, out \o raw))
    BY <1>11, <1>13
  <2>3. Kept(R, req, buf, Step(TRUE, r, out \o raw))
    BY <1>5, <1>8, Keeping
  <2>4. Kept(R, req, buf, Step(TRUE, answered, out \o raw))
    BY <1>6, <1>8, Keeping
  <2>5. f # NoBody => /\ Kept(R, req, buf, Step(TRUE, [answered EXCEPT !.resp = buffer], out))
                      /\ Kept(R, req, buf, Step(TRUE, [answered EXCEPT !.resp = pass], out \o raw))
    <3> SUFFICES ASSUME f # NoBody
                 PROVE  /\ Kept(R, req, buf, Step(TRUE, [answered EXCEPT !.resp = buffer], out))
                        /\ Kept(R, req, buf, Step(TRUE, [answered EXCEPT !.resp = pass], out \o raw))
      OBVIOUS
    <3>1. Hears(R, buffer, rest) /\ Hears(R, pass, rest)
      BY <1>2, <1>7, Phases
    <3> HIDE DEF buffer, pass
    <3> QED
      BY <1>14, <3>1
  <2> HIDE DEF buffer, pass
  <2> DEFINE a == disable_flush_resp(rw, out)
             b == Step(TRUE, r, out \o raw)
             c == disable_flush_resp(answered, out \o raw)
             d == Step(TRUE, answered, out \o raw)
             e == Step(TRUE, [answered EXCEPT !.resp = buffer], out)
             g == Step(TRUE, [answered EXCEPT !.resp = pass], out \o raw)
  <2>6. \/ next = a \/ next = b \/ next = c \/ next = d \/ (f # NoBody /\ (next = e \/ next = g))
    <3> HIDE DEF a, b, c, d, e, g
    <3> QED
      BY <2>0 DEF a, b, c, d, e, g
  <2> HIDE DEF a, b, c, d, e, g
  <2>7. Kept(R, req, buf, next)
    BY <2>1, <2>2, <2>3, <2>4, <2>5, <2>6 DEF a, b, c, d, e, g
  <2> QED
    BY <2>7 DEF next, h, rb
<1> QED
  BY <1>10, <1>15, <1>16, <1>17

LEMMA StepBuffer ==
    ASSUME NEW R, NEW req, NEW buf, NEW rw, rw = RwSt(TRUE, FALSE, req, buf, rw),
           Hears(R, rw.resp, rw.resp_buf), rw.resp.phase = "Buffer", NEW out, NEW c, ReadOk(R, c)
    PROVE  Kept(R, req, buf, step_response_buffer(rw, out, c))
<1> DEFINE resp == rw.resp
           rest == c.buf
           f == c.framing
           done == c.step = "Done"
           bs == [resp EXCEPT !.scan = @ \o c.data, !.body = f, !.body_done = done]
           r == [rw EXCEPT !.resp_buf = rest]
           none == NoResponse
           stream == [NoResponse EXCEPT !.phase = "Stream", !.body = f]
           next == step_response_buffer(rw, out, c)
<1>1. rest \in Seq(R) /\ BodyOk(f)
  BY DEF ReadOk
<1>2. IsRw(FALSE, req, buf, r, resp, rest)
  <2> HIDE DEF rest
  <2> QED
    BY RwEdit
<1>3. Hears(R, none, rest) /\ Hears(R, stream, rest)
  <2> HIDE DEF rest, f
  <2> QED
    BY <1>1, Phases
<1>4. Hears(R, bs, rest) /\ bs.body = f /\ bs.body_done = done
  <2> DEFINE phase == resp.phase
             head == resp.head
             scan == resp.scan
             body == resp.body
             over == resp.body_done
             text == scan \o c.data
  <2>1. resp = [phase |-> phase, head |-> head, scan |-> scan, body |-> body, body_done |-> over]
    BY DEF Hears
  <2>2. phase = "Buffer"
    OBVIOUS
  <2>3. bs = [resp EXCEPT !.scan = text, !.body = f, !.body_done = done]
    OBVIOUS
  <2> HIDE DEF bs, phase, head, scan, body, over, text, resp, f, done
  <2>4. bs = [phase |-> phase, head |-> head, scan |-> text, body |-> f, body_done |-> done]
    BY <2>1, <2>3
  <2>5. bs.phase = phase /\ bs.head = head /\ bs.scan = text /\ bs.body = f /\ bs.body_done = done
    BY <2>4
  <2> QED
    BY <1>1, <2>2, <2>4, <2>5 DEF Hears
<1> DEFINE o1 == out \o bs.head \o rechunk(bs.scan) \o LastChunk
           abandon == (bs.scan # <<>> /\ bs.scan[1] = "bom16") \/ "mark" \in ToSet(bs.scan)
           now == anchor_streaming(bs.scan)
           giving_up == bs.body_done \/ Len(bs.scan) >= MAX_ANCHOR_SCAN
           anchor == IF abandon THEN 0 ELSE IF now > 0 THEN now ELSE anchor_final(bs.scan)
           end == IF bs.body_done /\ bs.body.kind = "Chunked" THEN LastChunk ELSE <<>>
           o2 == out \o resolved(bs, anchor) \o end
           after == IF bs.body_done THEN none ELSE [NoResponse EXCEPT !.phase = "Stream", !.body = bs.body]
           a == Step(FALSE, [r EXCEPT !.disabled = TRUE, !.resp = none], o1)
           b == Step(FALSE, [r EXCEPT !.resp = bs], out)
           d == Step(TRUE, [r EXCEPT !.resp = after], o2)
<1>5. next = a \/ next = b \/ next = d
  BY DEF step_response_buffer
<1>6. Hears(R, after, rest)
  <2> HIDE DEF bs, none
  <2>1. after = IF done THEN none ELSE stream
    BY <1>4
  <2> HIDE DEF after, stream
  <2> QED
    BY <1>3, <2>1
<1>7. r = RwSt(TRUE, FALSE, req, buf, r) /\ r.resp_buf = rest
  BY <1>2 DEF IsRw
<1> HIDE DEF resp, rest, f, done, bs, r, none, stream, next, o1, o2, after, a, b, d
<1>8. Kept(R, req, buf, a)
  <2>1. IsRw(TRUE, req, buf, [r EXCEPT !.disabled = TRUE, !.resp = none], none, r.resp_buf)
    BY <1>7, RwEdit
  <2> QED
    BY <2>1, Keeping DEF a
<1>9. ASSUME NEW more, NEW x, Hears(R, x, rest), NEW o
      PROVE  Kept(R, req, buf, Step(more, [r EXCEPT !.resp = x], o))
  <2>1. IsRw(FALSE, req, buf, [r EXCEPT !.resp = x], x, r.resp_buf)
    BY <1>7, RwEdit
  <2>2. Hears(R, x, r.resp_buf)
    BY <1>7, <1>9
  <2> QED
    BY <2>1, <2>2, Keeping
<1>10. Kept(R, req, buf, b) /\ Kept(R, req, buf, d)
  BY <1>4, <1>6, <1>9 DEF b, d
<1> QED
  BY <1>5, <1>8, <1>10 DEF next

LEMMA StepRest ==
    ASSUME NEW R, NEW req, NEW buf, NEW rw, rw = RwSt(TRUE, FALSE, req, buf, rw),
           Hears(R, rw.resp, rw.resp_buf), rw.resp.phase \in {"Stream", "Pass"}, NEW out, NEW c, ReadOk(R, c)
    PROVE  Kept(R, req, buf, step_response_rest(rw, out, c))
<1> DEFINE resp == rw.resp
           rest == c.buf
           f == c.framing
           bs == [resp EXCEPT !.body = f]
           r == [rw EXCEPT !.resp_buf = rest]
           none == NoResponse
           chunked == resp.body.kind = "Chunked"
           stream == resp.phase = "Stream"
           seen == SubSeq(rw.resp_buf, 1, Len(rw.resp_buf) - Len(c.buf))
           data == IF chunked /\ stream THEN rechunk(c.data) ELSE seen
           end == IF chunked /\ stream /\ c.step \in {"Done", "Error"} THEN LastChunk ELSE <<>>
           o1 == out \o data
           o2 == out \o data \o end
           next == step_response_rest(rw, out, c)
<1>1. rest \in Seq(R) /\ BodyOk(f)
  BY DEF ReadOk
<1>2. IsRw(FALSE, req, buf, r, resp, rest)
  <2> HIDE DEF rest
  <2> QED
    BY RwEdit
<1>3. Hears(R, none, rest) /\ Hears(R, none, <<>>)
  <2>1. <<>> \in Seq(R)
    BY EmptySeq
  <2> HIDE DEF rest
  <2> QED
    BY <1>1, <2>1, Phases
<1>4. Hears(R, bs, rest)
  <2> DEFINE phase == resp.phase
             head == resp.head
             scan == resp.scan
             body == resp.body
             over == resp.body_done
  <2>1. resp = [phase |-> phase, head |-> head, scan |-> scan, body |-> body, body_done |-> over]
    BY DEF Hears
  <2>2. phase \in {"Stream", "Pass"}
    OBVIOUS
  <2>3. bs = [resp EXCEPT !.body = f]
    OBVIOUS
  <2> HIDE DEF bs, phase, head, scan, body, over, resp, f
  <2>4. bs = [phase |-> phase, head |-> head, scan |-> scan, body |-> f, body_done |-> over]
    BY <2>1, <2>3
  <2>5. bs.phase = phase /\ bs.head = head /\ bs.scan = scan /\ bs.body = f /\ bs.body_done = over
    BY <2>4
  <2> QED
    BY <1>1, <2>2, <2>4, <2>5 DEF Hears
<1>7. r = RwSt(TRUE, FALSE, req, buf, r) /\ r.resp_buf = rest /\ r.resp = resp
  BY <1>2 DEF IsRw
<1> DEFINE a == Step(FALSE, [r EXCEPT !.resp = bs], o1)
           b == Step(TRUE, [r EXCEPT !.resp = none], o2)
           d == Step(FALSE, [r EXCEPT !.resp = none, !.disabled = TRUE], o2)
           z == [r EXCEPT !.disabled = TRUE, !.resp_buf = <<>>, !.resp = none]
           e == Step(FALSE, z, o1 \o r.resp_buf)
<1>5. next = a \/ next = b \/ next = d \/ next = e
  <2>1. e = disable_flush_resp(r, o1)
    BY DEF disable_flush_resp, Step
  <2>2. [r EXCEPT !.resp.body = f] = [r EXCEPT !.resp = bs]
    <3>1. [r EXCEPT !.resp.body = f] = [r EXCEPT !.resp = [r.resp EXCEPT !.body = f]]
      OBVIOUS
    <3>2. [r.resp EXCEPT !.body = f] = bs
      BY <1>7
    <3> QED
      BY <3>1, <3>2
  <2>3. \/ next = Step(FALSE, [r EXCEPT !.resp.body = f], o1)
        \/ next = b \/ next = d \/ next = disable_flush_resp(r, o1)
    BY DEF step_response_rest
  <2> QED
    BY <2>1, <2>2, <2>3
<1> HIDE DEF resp, rest, f, bs, r, none, chunked, stream, seen, data, end, next, o1, o2, a, b, d, e
<1>8. Kept(R, req, buf, d)
  <2>1. IsRw(TRUE, req, buf, [r EXCEPT !.resp = none, !.disabled = TRUE], none, r.resp_buf)
    BY <1>7, RwEdit
  <2> QED
    BY <2>1, Keeping DEF d
<1>11. Kept(R, req, buf, e)
  <2>1. IsRw(TRUE, req, buf, z, none, <<>>)
    BY <1>7, RwEdit
  <2> HIDE DEF z
  <2> QED
    BY <2>1, Keeping DEF e
<1>9. ASSUME NEW more, NEW x, Hears(R, x, rest), NEW o
      PROVE  Kept(R, req, buf, Step(more, [r EXCEPT !.resp = x], o))
  <2>1. IsRw(FALSE, req, buf, [r EXCEPT !.resp = x], x, r.resp_buf)
    BY <1>7, RwEdit
  <2>2. Hears(R, x, r.resp_buf)
    BY <1>7, <1>9
  <2> QED
    BY <2>1, <2>2, Keeping
<1>10. Kept(R, req, buf, a) /\ Kept(R, req, buf, b)
  BY <1>3, <1>4, <1>9 DEF a, b
<1> QED
  BY <1>5, <1>8, <1>10, <1>11 DEF next

LEMMA StepKeeps ==
    ASSUME NEW R, NEW req, NEW buf, NEW rw, rw = RwSt(TRUE, FALSE, req, buf, rw),
           Hears(R, rw.resp, rw.resp_buf), NEW out
    PROVE  Kept(R, req, buf, step_response(rw, out))
<1> DEFINE phase == rw.resp.phase
           h == take_head(rw.resp_buf)
           c == consume(rw.resp.body, rw.resp_buf)
           next == step_response(rw, out)
<1>1. next = CASE phase = "Head" -> step_response_head(rw, out, h)
               [] phase = "Buffer" -> step_response_buffer(rw, out, c)
               [] phase \in {"Stream", "Pass"} -> step_response_rest(rw, out, c)
  BY DEF step_response
<1>2. phase # "Head" => ReadOk(R, c)
  <2>1. phase # "Head" => BodyOk(rw.resp.body)
    BY DEF Hears
  <2>2. rw.resp_buf \in Seq(R)
    BY DEF Hears
  <2> QED
    BY <2>1, <2>2, ConsumeTyped
<1>3. phase = "Head" \/ phase = "Buffer" \/ phase \in {"Stream", "Pass"}
  BY DEF Hears
<1> HIDE DEF next, h, c
<1>4. CASE phase = "Head"
  <2>1. next = step_response_head(rw, out, h)
    BY <1>1, <1>4
  <2> QED
    BY <2>1, StepHead DEF next, h
<1>5. CASE phase = "Buffer"
  <2>1. next = step_response_buffer(rw, out, c)
    BY <1>1, <1>5
  <2>2. ReadOk(R, c)
    BY <1>2, <1>5
  <2> QED
    BY <1>5, <2>1, <2>2, StepBuffer DEF next
<1>6. CASE phase \in {"Stream", "Pass"}
  <2>1. next = step_response_rest(rw, out, c)
    BY <1>1, <1>6
  <2>2. ReadOk(R, c)
    BY <1>2, <1>6
  <2> QED
    BY <1>6, <2>1, <2>2, StepRest DEF next
<1> QED
  BY <1>3, <1>4, <1>5, <1>6

LEMMA ResponseLoop ==
    ASSUME NEW R, NEW req, NEW buf, NEW f, NEW a, NEW n \in Nat, Rounds("response", <<>>, f, a, n),
           Kept(R, req, buf, a)
    PROVE  Kept(R, req, buf, f[n])
<1> DEFINE Bad == {i \in 0..n : ~ Kept(R, req, buf, f[i])}
<1>1. f[0] = a /\ \A i \in 1..n : f[i] = Round("response", <<>>, i, f[i - 1])
  BY DEF Rounds
<1>2. ASSUME NEW c, Kept(R, req, buf, c), NEW i
      PROVE  Kept(R, req, buf, Round("response", <<>>, i, c))
  <2>1. Round("response", <<>>, i, c) = IF c.more THEN step_response(c.rw, c.out) ELSE c
    BY DEF Round
  <2>2. CASE c.more = FALSE
    BY <1>2, <2>1, <2>2
  <2>3. CASE c.more # FALSE
    <3> DEFINE rw == c.rw
    <3>1. rw = RwSt(TRUE, FALSE, req, buf, rw) /\ Hears(R, rw.resp, rw.resp_buf)
      BY <1>2, <2>3 DEF Kept
    <3> HIDE DEF rw
    <3>2. Kept(R, req, buf, step_response(rw, c.out))
      BY <3>1, StepKeeps
    <3> QED
      BY <1>2, <2>1, <3>2 DEF rw
  <2> QED
    BY <2>2, <2>3
<1>3. Bad = {}
  <2> SUFFICES ASSUME Bad # {}
               PROVE  FALSE
    OBVIOUS
  <2>1. PICK i \in Bad : \A m \in Bad : i <= m
    <3>1. Bad \subseteq Nat
      OBVIOUS
    <3> HIDE DEF Bad
    <3> QED
      BY <3>1, Least
  <2>2. i \in 0..n /\ ~ Kept(R, req, buf, f[i])
    BY <2>1
  <2>3. i # 0
    BY <1>1, <2>2
  <2>4. i \in 1..n /\ i - 1 \in 0..n /\ ~ (i <= i - 1)
    BY <2>2, <2>3
  <2>5. Kept(R, req, buf, f[i - 1])
    BY <2>1, <2>4
  <2> QED
    BY <1>1, <1>2, <2>2, <2>4, <2>5
<1> QED
  BY <1>3

\* What the server answers leaves the requests alone, or has the rewriter give up.
Answered(R, req, buf, rw) ==
    \/ rw = RwSt(TRUE, FALSE, req, buf, rw) /\ Hears(R, rw.resp, rw.resp_buf)
    \/ rw = RwSt(TRUE, TRUE, req, buf, rw)

LEMMA ResponseFed ==
    ASSUME NEW R, NEW req, NEW buf, NEW rw, rw = RwSt(TRUE, FALSE, req, buf, rw),
           Hears(R, rw.resp, rw.resp_buf), NEW data \in Seq(R)
    PROVE  Answered(R, req, buf, feed_response(rw, data).rw)
<1> DEFINE b == rw.resp_buf \o data
           t == [rw EXCEPT !.resp_buf = b]
           a == Step(TRUE, t, <<>>)
           c == feed_response(rw, data)
<1>1. b \in Seq(R)
  BY Concat DEF Hears
<1>2. c = drive_response(t)
  <2>1. rw.active = TRUE /\ rw.disabled = FALSE
    BY DEF RwSt
  <2> QED
    BY <2>1 DEF feed_response
<1> HIDE DEF b, c
<1>3. IsRw(FALSE, req, buf, t, rw.resp, b)
  BY RwEdit
<1> HIDE DEF t
<1>4. t = RwSt(TRUE, FALSE, req, buf, t) /\ Hears(R, t.resp, t.resp_buf) /\ t.resp_buf = b
  BY <1>1, <1>3 DEF IsRw, Hears
<1>5. Len(t.resp_buf) \in Nat
  BY <1>1, <1>4, LenProperties
<1>6. PICK f : /\ Rounds("response", <<>>, f, a, Len(t.resp_buf) + 1)
               /\ drive_response(t) = Out(f[Len(t.resp_buf) + 1].rw, f[Len(t.resp_buf) + 1].out)
  BY <1>5, ResponseRounds
<1>7. Kept(R, req, buf, a)
  <2>1. a.rw = t
    BY DEF Step
  <2> HIDE DEF a
  <2> QED
    BY <1>4, <2>1 DEF Kept
<1> DEFINE n == Len(t.resp_buf) + 1
<1>8. Kept(R, req, buf, f[n])
  <2>0. n \in Nat
    BY <1>5
  <2>1. Rounds("response", <<>>, f, a, n)
    BY <1>6
  <2> HIDE DEF n, a
  <2> QED
    BY <1>7, <2>0, <2>1, ResponseLoop
<1>9. c.rw = f[n].rw
  BY <1>2, <1>6 DEF Out
<1> HIDE DEF n, a
<1> QED
  BY <1>8, <1>9 DEF Kept, Answered, c

-----------------------------------------------------------------------------
(* The invariant *)

\* How much of the plaintext there is in the first m records.
Read(s, m) == IF ~s.trusts \/ m < 2 THEN 0 ELSE IF m > Len(s.app) + 2 THEN Len(s.app) ELSE m - 2

\* The rewriter reads requests as what the first k bytes come to; on: a blob may be injected.
RwLooks(s, on, k, rw) ==
    /\ rw = RwSt(on, FALSE, Asked(s)[k].left, Asked(s)[k].held, rw)
    /\ s.payload => Hears(Heard(s), rw.resp, rw.resp_buf)
RwLooksNot(rw) == rw = RwSt(rw.active, TRUE, rw.req, rw.req_buf, rw)

HttpSt(p) == p = [kind |-> "Http", tap |-> p.tap, rewriter |-> p.rewriter]

\* So does what handles the plaintext, or it looks no longer, nor will it.
Looks(s, on, k, p) ==
    /\ s.kind = "dot" => p = DotSt(Asked(s)[k].held, FALSE, p)
    /\ s.kind = "doh" => LooksDoh(s, p, k)
    /\ s.kind = "http" => HttpSt(p) /\ RwLooks(s, on, k, p.rewriter)
LooksNot(s, p) ==
    /\ s.kind = "dot" => p = DotSt(<<>>, TRUE, p)
    /\ s.kind = "doh" => p = DohSt("H1", <<>>, TRUE, p)
    /\ s.kind = "http" => HttpSt(p) /\ RwLooksNot(p.rewriter)

\* What the sessions have come to with the first m records.
Sessions(m) ==
    /\ app_tls = Slice(AppRecords(script), m, Len(AppRecords(script)))
    /\ (app_hs = "hello") <=> m = 0
    /\ m = 0 => up_hs = "none"
    /\ m > 0 => script.sni
    /\ ~script.trusts => m <= 1

ReadUpTo(m) ==
    AsksFor(script) =>
        \/ LooksNot(script, plaintext)
        \/ /\ Looks(script, script.payload /\ m > 0, Read(script, m), plaintext)
           /\ to_upstream = Asked(script)[Read(script, m)].out

SpliceInv ==
    /\ script \in Scripts /\ sent \in Nat
    /\ cert_rejected => closed
    /\ PinMeansRefusal
    /\ \E m \in 0..Len(AppRecords(script)) :
          /\ ~closed => Sessions(m)
          /\ app_closed => script.trusts /\ m = Len(AppRecords(script))
          /\ ReadUpTo(m)

-----------------------------------------------------------------------------
(* The records the app sends *)

LEMMA SliceCuts ==
    ASSUME NEW B, NEW x \in Seq(B), NEW i \in 0..Len(x), NEW j \in i..Len(x)
    PROVE  /\ SubSeq(Slice(x, i, Len(x)), 1, j - i) = Slice(x, i, j)
           /\ Behind(Slice(x, i, Len(x)), j - i) = Slice(x, j, Len(x))
<1> DEFINE all == Slice(x, i, Len(x))
           n == j - i
           l == SubSeq(all, 1, n)
           r == Behind(all, n)
<1>0. Len(x) \in Nat /\ i \in Nat /\ j \in Nat /\ i <= j /\ j <= Len(x) /\ n \in Nat /\ j = i + n
      /\ Len(x) \in 0..Len(x) /\ i \in 0..Len(x) /\ j \in 0..Len(x) /\ i \in 0..j
  BY LenProperties
<1>1. all \in Seq(B) /\ Len(all) = Len(x) - i /\ \A p \in 1..(Len(x) - i) : all[p] = x[i + p]
  <2>1. Slices(B, x, i, Len(x))
    BY <1>0, SliceIs
  <2> QED
    BY <2>1 DEF Slices
<1>2. Slices(B, x, i, j) /\ Slices(B, x, j, Len(x))
  BY <1>0, SliceIs
<1> HIDE DEF all, n
<1>3. l \in Seq(B) /\ Len(l) = n /\ \A p \in 1..n : l[p] = all[p]
  <2>1. /\ SubSeq(all, 1, n) \in Seq(B) /\ Len(SubSeq(all, 1, n)) = n - 1 + 1
        /\ \A p \in 1..(n - 1 + 1) : SubSeq(all, 1, n)[p] = all[1 + p - 1]
    BY <1>0, <1>1, Part
  <2>2. n - 1 + 1 = n /\ \A p \in 1..n : 1 + p - 1 = p
    BY <1>0
  <2> QED
    BY <2>1, <2>2
<1>4. r \in Seq(B) /\ Len(r) = Len(x) - j /\ \A p \in 1..(Len(x) - j) : r[p] = all[n + p]
  <2>0. n + 1 \in Nat /\ 1 <= n + 1 /\ Len(all) \in Nat /\ n + 1 <= Len(all) + 1 /\ Len(all) <= Len(all)
        /\ Len(all) - (n + 1) + 1 = Len(x) - j
    BY <1>0, <1>1
  <2>1. /\ SubSeq(all, n + 1, Len(all)) \in Seq(B)
        /\ Len(SubSeq(all, n + 1, Len(all))) = Len(all) - (n + 1) + 1
        /\ \A p \in 1..(Len(all) - (n + 1) + 1) : SubSeq(all, n + 1, Len(all))[p] = all[(n + 1) + p - 1]
    BY <1>1, <2>0, Part, SMTT(20)
  <2>2. \A p \in 1..(Len(x) - j) : (n + 1) + p - 1 = n + p
    BY <1>0
  <2> QED
    BY <2>0, <2>1, <2>2 DEF Behind
<1> HIDE DEF l, r
<1>5. l = Slice(x, i, j)
  <2> DEFINE w == Slice(x, i, j)
  <2>1. w \in Seq(B) /\ Len(w) = j - i /\ \A p \in 1..(j - i) : w[p] = x[i + p]
    BY <1>2 DEF Slices
  <2> HIDE DEF w
  <2>2. j - i = n
    BY <1>0
  <2>3. \A p \in 1..n : p \in 1..(Len(x) - i)
    BY <1>0
  <2>4. \A p \in 1..Len(l) : l[p] = w[p]
    BY <1>1, <1>3, <2>1, <2>2, <2>3
  <2> QED
    BY <1>3, <2>1, <2>2, <2>4, SeqEqual DEF w
<1>6. r = Slice(x, j, Len(x))
  <2> DEFINE w == Slice(x, j, Len(x))
  <2>1. w \in Seq(B) /\ Len(w) = Len(x) - j /\ \A p \in 1..(Len(x) - j) : w[p] = x[j + p]
    BY <1>2 DEF Slices
  <2> HIDE DEF w
  <2>3. \A p \in 1..(Len(x) - j) : n + p \in 1..(Len(x) - i) /\ i + (n + p) = j + p
    BY <1>0
  <2>4. \A p \in 1..Len(r) : r[p] = w[p]
    BY <1>1, <1>4, <2>1, <2>3, ZenonT(30)
  <2> QED
    BY <1>4, <2>1, <2>4, SeqEqual DEF w
<1> QED
  BY <1>5, <1>6 DEF l, r, all, n

Told(s) ==
    {Record("hello", <<>>), Record("finished", <<>>), Record("alert", <<>>), Record("close", <<>>)}
        \cup {Record("data", s.app[i]) : i \in 1..Len(s.app)}

\* What the m-th record is, and what has been read with it.
RecordIs(s, m, rec) ==
    /\ rec.tls = "hello" <=> m = 1
    /\ rec.tls = "finished" <=> s.trusts /\ m = 2
    /\ rec.tls = "alert" <=> ~s.trusts /\ m = 2
    /\ rec.tls = "close" <=> s.trusts /\ m = Len(AppRecords(s))
    /\ rec.tls # "bad"
    /\ IF rec.tls = "data"
       THEN rec.byte = s.app[Read(s, m)] /\ Read(s, m) = Read(s, m - 1) + 1 /\ Read(s, m) \in 1..Len(s.app)
       ELSE Read(s, m) = Read(s, m - 1)

LEMMA RecordsAre ==
    ASSUME NEW s \in Scripts
    PROVE  /\ AppRecords(s) \in Seq(Told(s))
           /\ Len(AppRecords(s)) = IF s.trusts THEN Len(s.app) + 3 ELSE 2
           /\ \A m \in 1..Len(AppRecords(s)) : RecordIs(s, m, AppRecords(s)[m])
<1> DEFINE r == AppRecords(s)
           N == Len(s.app)
           T == Told(s)
<1>0. N \in Nat /\ DOMAIN s.app = 1..N /\ s.trusts \in BOOLEAN
  BY AppIs
<1>1. CASE ~s.trusts
  <2>1. r = <<Record("hello", <<>>), Record("alert", <<>>)>>
    BY <1>1 DEF AppRecords
  <2>2. Record("hello", <<>>) \in T /\ Record("alert", <<>>) \in T
    BY DEF Told
  <2>3. r \in Seq(T) /\ Len(r) = 2 /\ r[1] = Record("hello", <<>>) /\ r[2] = Record("alert", <<>>)
    <3> HIDE DEF T
    <3> QED
      BY <2>1, <2>2
  <2>4. \A m \in 0..2 : Read(s, m) = 0
    BY <1>1 DEF Read
  <2>5. ASSUME NEW m \in 1..2
        PROVE  RecordIs(s, m, r[m])
    <3>1. m = 1 \/ m = 2
      OBVIOUS
    <3>2. Read(s, m) = 0 /\ Read(s, m - 1) = 0
      BY <2>4
    <3>3. r[m].tls = IF m = 1 THEN "hello" ELSE "alert"
      BY <2>3, <3>1 DEF Record
    <3> QED
      BY <1>1, <2>3, <3>1, <3>2, <3>3 DEF RecordIs
  <2> QED
    BY <1>1, <2>3, <2>5
<1>2. CASE s.trusts
  <2> DEFINE a == <<Record("hello", <<>>), Record("finished", <<>>)>>
             d == [i \in DOMAIN s.app |-> Record("data", s.app[i])]
             z == <<Record("close", <<>>)>>
             ad == a \o d
  <2>1. r = ad \o z
    BY <1>2 DEF AppRecords
  <2>2. Record("hello", <<>>) \in T /\ Record("finished", <<>>) \in T /\ Record("close", <<>>) \in T
        /\ \A i \in 1..N : Record("data", s.app[i]) \in T
    BY DEF Told
  <2> HIDE DEF T
  <2>3. a \in Seq(T) /\ Len(a) = 2 /\ a[1] = Record("hello", <<>>) /\ a[2] = Record("finished", <<>>)
    BY <2>2
  <2>4. d \in Seq(T) /\ Len(d) = N /\ \A i \in 1..N : d[i] = Record("data", s.app[i])
    BY <1>0, <2>2
  <2>5. z \in Seq(T) /\ Len(z) = 1 /\ z[1] = Record("close", <<>>)
    BY <2>2
  <2> HIDE DEF a, d, z
  <2>6. Spliced(T, a, d, ad)
    BY <2>3, <2>4, Concatenated
  <2> HIDE DEF ad
  <2>7. ad \in Seq(T) /\ Len(ad) = 2 + N
    BY <2>3, <2>4, <2>6 DEF Spliced
  <2>8. Spliced(T, ad, z, ad \o z)
    BY <2>5, <2>7, Concatenated
  <2> HIDE DEF r
  <2>9. r \in Seq(T) /\ Len(r) = N + 3
    BY <1>0, <2>1, <2>5, <2>7, <2>8 DEF Spliced
  <2>10. r[1] = Record("hello", <<>>) /\ r[2] = Record("finished", <<>>)
    <3>1. 1 \in 1..Len(a) /\ 2 \in 1..Len(a) /\ 1 \in 1..Len(ad) /\ 2 \in 1..Len(ad)
      BY <1>0, <2>3, <2>7
    <3> QED
      BY <2>1, <2>3, <2>6, <2>8, <3>1 DEF Spliced
  <2>11. r[N + 3] = Record("close", <<>>)
    <3>1. 1 \in 1..Len(z) /\ Len(ad) + 1 = N + 3
      BY <1>0, <2>5, <2>7
    <3> QED
      BY <2>1, <2>5, <2>8, <3>1 DEF Spliced
  <2>12. ASSUME NEW m \in 3..(N + 2)
         PROVE  r[m] = Record("data", s.app[m - 2])
    <3>1. m \in 1..Len(ad) /\ m - 2 \in 1..Len(d) /\ Len(a) + (m - 2) = m /\ m - 2 \in 1..N
      BY <1>0, <2>3, <2>4, <2>7
    <3>2. r[m] = ad[m]
      BY <2>1, <2>8, <3>1 DEF Spliced
    <3>3. ad[m] = d[m - 2]
      BY <2>6, <3>1 DEF Spliced
    <3> QED
      BY <2>4, <3>1, <3>2, <3>3
  <2>13. ASSUME NEW m \in 1..(N + 3)
         PROVE  RecordIs(s, m, r[m])
    <3>0. Len(AppRecords(s)) = N + 3
      BY <2>9 DEF r
    <3>1. CASE m = 1
      <4>1. r[m].tls = "hello"
        BY <2>10, <3>1 DEF Record
      <4>2. Read(s, m) = 0 /\ Read(s, m - 1) = 0
        BY <3>1 DEF Read
      <4> HIDE DEF N
      <4>3. m # N + 3 /\ m # 2
        BY <1>0, <3>1
      <4> QED
        BY <1>2, <3>0, <3>1, <4>1, <4>2, <4>3 DEF RecordIs
    <3>2. CASE m = 2
      <4>1. r[m].tls = "finished"
        BY <2>10, <3>2 DEF Record
      <4>2. Read(s, m) = 0 /\ Read(s, m - 1) = 0
        BY <1>0, <1>2, <3>2 DEF Read
      <4> HIDE DEF N
      <4>3. m # N + 3 /\ m # 1
        BY <1>0, <3>2
      <4> QED
        BY <1>2, <3>0, <3>2, <4>1, <4>2, <4>3 DEF RecordIs
    <3>3. CASE m = N + 3
      <4>1. r[m].tls = "close"
        BY <2>11, <3>3 DEF Record
      <4>2. Read(s, m) = N /\ Read(s, m - 1) = N
        BY <1>0, <1>2, <3>3 DEF Read
      <4> HIDE DEF N
      <4>3. m # 2 /\ m # 1
        BY <1>0, <3>3
      <4> QED
        BY <1>2, <3>0, <3>3, <4>1, <4>2, <4>3 DEF RecordIs
    <3>4. CASE m \in 3..(N + 2)
      <4>1. r[m].tls = "data" /\ r[m].byte = s.app[m - 2]
        <5> DEFINE v == s.app[m - 2]
        <5>1. r[m] = Record("data", v)
          BY <2>12, <3>4
        <5> HIDE DEF v, r
        <5>2. r[m].tls = "data" /\ r[m].byte = v
          BY <5>1 DEF Record
        <5> QED
          BY <5>2 DEF v
      <4>2. Read(s, m) = m - 2 /\ Read(s, m - 1) = m - 3 /\ m - 2 \in 1..N /\ (m - 3) + 1 = m - 2
        BY <1>0, <1>2, <3>4 DEF Read
      <4> HIDE DEF N
      <4>3. m # 2 /\ m # 1 /\ m # N + 3
        BY <1>0, <3>4
      <4> QED
        BY <1>2, <3>0, <4>1, <4>2, <4>3 DEF RecordIs, N
    <3>5. m = 1 \/ m = 2 \/ m = N + 3 \/ m \in 3..(N + 2)
      BY <1>0
    <3> QED
      BY <3>1, <3>2, <3>3, <3>4, <3>5
  <2> QED
    BY <1>2, <2>9, <2>13 DEF r, T
<1> QED
  BY <1>0, <1>1, <1>2

LEMMA ReadGrows ==
    ASSUME NEW s \in Scripts, NEW j \in Nat, NEW i \in 0..j
    PROVE  Read(s, j) \in 0..Len(s.app) /\ Read(s, i) \in 0..Read(s, j)
<1>1. Len(s.app) \in Nat
  BY AppIs
<1> QED
  BY <1>1 DEF Read

\* The records carry the plaintext, whichever of them are taken.
LEMMA DataIs ==
    ASSUME NEW s \in Scripts, NEW j \in 0..Len(AppRecords(s)), NEW i \in 0..j
    PROVE  Data(Slice(AppRecords(s), i, j)) = Slice(s.app, Read(s, i), Read(s, j))
<1> DEFINE r == AppRecords(s)
           x == s.app
           B == Bytes(s)
           w == Slice(r, i, j)
           ss == [p \in DOMAIN w |-> IF w[p].tls = "data" THEN <<w[p].byte>> ELSE <<>>]
           P == [k \in 0..(j - i) |-> Slice(x, Read(s, i), Read(s, i + k))]
           n == j - i
<1>0. /\ r \in Seq(Told(s)) /\ Len(r) \in Nat /\ \A m \in 1..Len(r) : RecordIs(s, m, r[m])
      /\ x \in Seq(B) /\ Len(x) \in Nat
  BY RecordsAre, LenProperties, AppIs
<1> HIDE DEF r
<1>1. i \in Nat /\ j \in Nat /\ j <= Len(r) /\ i <= j /\ n \in Nat /\ j = i + n
  BY <1>0 DEF r
<1>2. w \in Seq(Told(s)) /\ Len(w) = n /\ \A p \in 1..n : w[p] = r[i + p]
  <2>1. Slices(Told(s), r, i, j)
    BY <1>0, <1>1, SliceIs
  <2> QED
    BY <2>1 DEF Slices
<1>3. DOMAIN w = 1..n
  BY <1>2, LenProperties
<1> HIDE DEF w, n, B
<1>4. ASSUME NEW k \in 0..n
      PROVE  P[k] = Slice(x, Read(s, i), Read(s, i + k)) /\ P[k] \in Seq(B)
             /\ Read(s, i) \in 0..Read(s, i + k) /\ Read(s, i + k) \in 0..Len(x)
  <2>1. i + k \in Nat /\ i \in 0..(i + k) /\ k \in 0..(j - i)
    BY <1>1 DEF n
  <2>2. Read(s, i) \in 0..Read(s, i + k) /\ Read(s, i + k) \in 0..Len(x)
    BY <2>1, ReadGrows
  <2>3. Slices(B, x, Read(s, i), Read(s, i + k))
    BY <1>0, <2>2, SliceIs
  <2> QED
    BY <2>1, <2>2, <2>3 DEF Slices
<1> HIDE DEF P
<1>5. ASSUME NEW k \in 1..n
      PROVE  ss[k] \in Seq(B) /\ P[k] = P[k - 1] \o ss[k]
  <2> DEFINE m == i + k
             v == Read(s, m)
             u == Read(s, m - 1)
             o == Read(s, i)
  <2>1. k \in 0..n /\ k - 1 \in 0..n /\ m \in 1..Len(r) /\ m \in Nat /\ i + (k - 1) = m - 1 /\ k \in DOMAIN w
        /\ m - 1 \in 0..m
    BY <1>1, <1>3
  <2>2. RecordIs(s, m, r[m]) /\ w[k] = r[m]
    BY <1>0, <1>2, <2>1
  <2>3. P[k] = Slice(x, o, v) /\ P[k - 1] = Slice(x, o, u) /\ P[k - 1] \in Seq(B)
        /\ o \in 0..u /\ u \in 0..Len(x) /\ v \in 0..Len(x) /\ u \in 0..v
    <3>1. P[k - 1] = Slice(x, Read(s, i), Read(s, i + (k - 1))) /\ P[k - 1] \in Seq(B)
          /\ Read(s, i) \in 0..Read(s, i + (k - 1)) /\ Read(s, i + (k - 1)) \in 0..Len(x)
      BY <1>4, <2>1
    <3>2. P[k] = Slice(x, Read(s, i), Read(s, i + k)) /\ Read(s, i + k) \in 0..Len(x)
      BY <1>4, <2>1
    <3>3. Read(s, m - 1) \in 0..Read(s, m)
      BY <2>1, ReadGrows
    <3> QED
      BY <2>1, <3>1, <3>2, <3>3
  <2>4. ss[k] = IF r[m].tls = "data" THEN <<r[m].byte>> ELSE <<>>
    BY <2>1, <2>2
  <2>5. IF r[m].tls = "data" THEN r[m].byte = x[v] /\ v = u + 1 /\ v \in 1..Len(x) ELSE v = u
    BY <2>2 DEF RecordIs
  <2> HIDE DEF ss, m, u, v, o
  <2>6. CASE r[m].tls = "data"
    <3>1. ss[k] = <<x[v]>> /\ v \in 1..Len(x) /\ u = v - 1
      BY <1>0, <2>3, <2>4, <2>5, <2>6
    <3>2. Slice(x, v - 1, v) = <<x[v]>>
      BY <1>0, <3>1, SliceOne
    <3>3. Slice(x, o, u) \o Slice(x, u, v) = Slice(x, o, v)
      BY <1>0, <2>3, SlicesJoin
    <3>4. <<x[v]>> \in Seq(B)
      <4>1. Slices(B, x, u, v)
        BY <1>0, <2>3, SliceIs
      <4> QED
        BY <3>1, <3>2, <4>1 DEF Slices
    <3> QED
      BY <2>3, <3>1, <3>2, <3>3, <3>4
  <2>7. CASE r[m].tls # "data"
    <3>1. ss[k] = <<>> /\ v = u
      BY <2>4, <2>5, <2>7
    <3>2. P[k - 1] \o <<>> = P[k - 1] /\ <<>> \in Seq(B)
      BY <2>3, Concat
    <3> QED
      BY <2>3, <3>1, <3>2
  <2> QED
    BY <2>6, <2>7
<1>6. ss = [p \in 1..n |-> ss[p]]
  BY <1>3
<1>7. Data(w) = FlattenSeq(ss)
  BY DEF Data
<1> HIDE DEF ss
<1>8. ss \in Seq(Seq(B)) /\ Len(ss) = n
  BY <1>1, <1>5, <1>6, SMTT(20)
<1>9. P[0] = <<>>
  <2>1. 0 \in 0..n /\ i + 0 = i
    BY <1>1
  <2>2. P[0] = Slice(x, Read(s, i), Read(s, i)) /\ Read(s, i) \in 0..Len(x)
    BY <1>4, <2>1
  <2> QED
    BY <1>0, <2>2, NoSlice
<1>10. FlattenSeq(ss) = P[Len(ss)]
  BY <1>4, <1>5, <1>8, <1>9, FlattenIs
<1>11. P[n] = Slice(x, Read(s, i), Read(s, j))
  BY <1>1, <1>4
<1> QED
  BY <1>7, <1>8, <1>10, <1>11 DEF w, r

-----------------------------------------------------------------------------
(* What can come *)

LEMMA DataTyped ==
    ASSUME NEW R, NEW n \in Nat, NEW recs, DOMAIN recs = 1..n,
           \A i \in 1..n : recs[i].tls = "data" => recs[i].byte \in R
    PROVE  Data(recs) \in Seq(R)
<1> DEFINE ss == [i \in DOMAIN recs |-> IF recs[i].tls = "data" THEN <<recs[i].byte>> ELSE <<>>]
<1>1. ASSUME NEW i \in 1..n
      PROVE  (IF recs[i].tls = "data" THEN <<recs[i].byte>> ELSE <<>>) \in Seq(R)
  <2>1. CASE recs[i].tls = "data"
    <3> DEFINE b == recs[i].byte
    <3>1. b \in R
      BY <2>1
    <3> HIDE DEF b
    <3>2. <<b>> \in Seq(R)
      BY <3>1
    <3> QED
      BY <2>1, <3>2 DEF b
  <2>2. CASE recs[i].tls # "data"
    BY <2>2, EmptySeq
  <2> QED
    BY <2>1, <2>2
<1>2. ss = [i \in 1..n |-> IF recs[i].tls = "data" THEN <<recs[i].byte>> ELSE <<>>]
  OBVIOUS
<1>3. ss \in Seq(Seq(R))
  BY <1>1, <1>2
<1>4. Data(recs) = FlattenSeq(ss)
  BY DEF Data
<1> HIDE DEF ss
<1> QED
  BY <1>3, <1>4, FlattenTyped

LEMMA NothingComes ==
    Data(<<>>) = <<>>
<1>1. DOMAIN <<>> = 1..0 /\ 0 \in Nat /\ \A i \in 1..0 : <<>>[i].tls = "data" => <<>>[i].byte \in {}
  OBVIOUS
<1>2. Data(<<>>) \in Seq({})
  BY <1>1, DataTyped
<1> DEFINE d == Data(<<>>)
<1> HIDE DEF d
<1>3. d \in Seq({})
  BY <1>2 DEF d
<1>4. Len(d) = 0
  <2>1. Len(d) \in Nat /\ \A i \in 1..Len(d) : d[i] \in {}
    BY <1>3, LenProperties
  <2> SUFFICES ASSUME Len(d) # 0
               PROVE  FALSE
    OBVIOUS
  <2>2. 1 \in 1..Len(d)
    BY <2>1
  <2> QED
    BY <2>1, <2>2
<1>5. d = <<>>
  BY <1>3, <1>4, EmptySeq
<1> QED
  BY <1>5 DEF d

LEMMA AnswersHeard ==
    ASSUME script \in Scripts
    PROVE  Answers(Len(script.replies)) \in Seq(Heard(script))
<1> DEFINE q == script.replies
           n == Len(q)
           R == Heard(script)
<1>1. n \in Nat /\ q = [i \in 1..n |-> q[i]] /\ DOMAIN q = 1..n
  BY ScriptAssumption DEF IsSequence
<1>2. ASSUME NEW i \in 1..n
      PROVE  q[i] \in Seq(R)
  <2> DEFINE x == q[i]
             l == Len(x)
  <2>1. l \in Nat /\ x = [j \in 1..l |-> x[j]]
    BY <1>1, ScriptAssumption DEF IsSequence
  <2>2. \A j \in 1..l : x[j] \in R
    BY DEF Heard
  <2> HIDE DEF x, l, R
  <2>3. [j \in 1..l |-> x[j]] \in Seq(R)
    BY <2>1, <2>2
  <2> QED
    BY <2>1, <2>3 DEF x
<1> HIDE DEF R, n
<1>3. q \in Seq(Seq(R))
  <2> HIDE DEF q
  <2>1. [i \in 1..n |-> q[i]] \in Seq(Seq(R))
    BY <1>1, <1>2
  <2> QED
    BY <1>1, <2>1
<1>4. Min({n, n}) = n
  <2>1. {n, n} \subseteq Nat /\ {n, n} # {}
    BY <1>1
  <2>2. Min({n, n}) \in {n, n}
    BY <2>1, MinIsLeast
  <2> QED
    BY <2>2
<1>5. SubSeq(q, 1, n) \in Seq(Seq(R))
  <2>1. 1 \in Nat /\ 1 <= n + 1 /\ n <= Len(q) /\ 1 <= 1
    BY <1>1 DEF n
  <2> HIDE DEF q
  <2> QED
    BY <1>1, <1>3, <2>1, Part
<1>6. FlattenSeq(SubSeq(q, 1, n)) \in Seq(R)
  BY <1>5, FlattenTyped
<1>7. Answers(n) = FlattenSeq(SubSeq(q, 1, n))
  BY <1>4 DEF Answers, n
<1> QED
  BY <1>6, <1>7 DEF n, R

\* From the app come records up to the j-th, or what breaks its session off; from the
\* server what it answers.
FromAppTo(m, j, c) ==
    /\ j \in (m + 1)..Len(AppRecords(script)) /\ (m = 0 => j = 1)
    /\ c.app = Slice(AppRecords(script), m, j) /\ c.up = <<>>
    /\ c.app_tls = Slice(AppRecords(script), j, Len(AppRecords(script)))
Broken(c) == c.app = <<Record("bad", <<>>)>> /\ c.up = <<>> /\ c.app_tls = <<>>
FromServerOnly(c) ==
    /\ c.app = <<>> /\ c.app_tls = app_tls /\ Data(c.up) \in Seq(Heard(script))
    /\ up_hs # "none"

Comes(m, c) ==
    /\ c.sent \in Nat
    /\ Broken(c) \/ FromServerOnly(c) \/ \E j \in (m + 1)..Len(AppRecords(script)) : FromAppTo(m, j, c)

LEMMA ServiceComes ==
    ASSUME script \in Scripts, sent \in Nat, NEW m \in 0..Len(AppRecords(script)), Sessions(m),
           NEW c \in service
    PROVE  Comes(m, c)
<1> DEFINE r == AppRecords(script)
           N == Len(r)
           T == Told(script)
<1>1. r \in Seq(T) /\ N \in Nat /\ N >= 2 /\ m \in Nat /\ m <= N
  <2>1. Len(script.app) \in Nat
    BY AppIs
  <2>2. r \in Seq(T) /\ N = (IF script.trusts THEN Len(script.app) + 3 ELSE 2)
    BY RecordsAre
  <2>3. m \in 0..N
    OBVIOUS
  <2> HIDE DEF N
  <2>4. N \in Nat /\ N >= 2
    BY <2>1, <2>2
  <2> QED
    BY <2>2, <2>3, <2>4
<1>2. app_tls = Slice(r, m, N) /\ (app_hs = "hello" <=> m = 0)
  BY DEF Sessions
<1>3. PICK n \in 1..(IF app_hs = "hello" THEN Min({1, Len(app_tls)}) ELSE Len(app_tls)) :
        c = FromApp(SubSeq(app_tls, 1, n), Behind(app_tls, n))
  BY DEF service
<1> HIDE DEF r, N, T
<1>4. Len(app_tls) = N - m
  <2>1. N \in 0..Len(r) /\ m \in 0..N
    BY <1>1 DEF N
  <2>2. Slices(T, r, m, N)
    BY <1>1, <2>1, SliceIs
  <2> QED
    BY <1>2, <2>2 DEF Slices
<1>5. n \in 1..(N - m) /\ (m = 0 => n = 1)
  <2>1. CASE m = 0
    <3>1. {1, Len(app_tls)} \subseteq Nat /\ {1, Len(app_tls)} # {} /\ 1 \in {1, Len(app_tls)}
      BY <1>1, <1>4
    <3>2. Min({1, Len(app_tls)}) \in {1, Len(app_tls)} /\ Min({1, Len(app_tls)}) <= 1
      BY <3>1, MinIsLeast
    <3> QED
      BY <1>1, <1>2, <1>3, <1>4, <2>1, <3>2
  <2>2. CASE m # 0
    BY <1>2, <1>3, <1>4, <2>2
  <2> QED
    BY <2>1, <2>2
<1> DEFINE j == m + n
<1>6. j \in (m + 1)..N /\ (m = 0 => j = 1) /\ j \in m..Len(r) /\ m \in 0..Len(r) /\ j - m = n
  BY <1>1, <1>5 DEF N
<1> HIDE DEF j
<1>7. SubSeq(Slice(r, m, N), 1, n) = Slice(r, m, j) /\ Behind(Slice(r, m, N), n) = Slice(r, j, N)
  <2>1. /\ SubSeq(Slice(r, m, Len(r)), 1, j - m) = Slice(r, m, j)
        /\ Behind(Slice(r, m, Len(r)), j - m) = Slice(r, j, Len(r))
    BY <1>1, <1>6, SliceCuts
  <2> QED
    BY <1>6, <2>1 DEF N
<1>8. FromAppTo(m, j, c) /\ c.sent = sent
  BY <1>2, <1>3, <1>6, <1>7 DEF FromAppTo, FromApp, r, N
<1> QED
  BY <1>6, <1>8 DEF Comes, N, r

LEMMA BreaksComes ==
    ASSUME sent \in Nat, NEW m, NEW c \in Breaks
    PROVE  Comes(m, c)
BY DEF Breaks, FromApp, Comes, Broken

LEMMA AcceptsComes ==
    ASSUME sent \in Nat, NEW m, NEW c \in Accepts
    PROVE  Comes(m, c)
<1>1. PICK tls \in (IF up_hs = "shaking" /\ ~app_closed THEN {"finished", "bad"} ELSE {}) :
        c = FromServer(<<Record(tls, <<>>)>>, sent)
  BY DEF Accepts
<1>6. tls \in {"finished", "bad"} /\ up_hs = "shaking"
  BY <1>1
<1> DEFINE recs == <<Record(tls, <<>>)>>
<1>2. DOMAIN recs = 1..1 /\ 1 \in Nat /\ recs[1] = Record(tls, <<>>)
  OBVIOUS
<1>3. Record(tls, <<>>).tls = tls
  BY DEF Record
<1> HIDE DEF recs
<1>4. \A i \in 1..1 : recs[i].tls = "data" => recs[i].byte \in Heard(script)
  BY <1>2, <1>3, <1>6
<1>5. Data(recs) \in Seq(Heard(script))
  BY <1>2, <1>4, DataTyped
<1> QED
  BY <1>1, <1>5, <1>6 DEF FromServer, Comes, FromServerOnly, recs

LEMMA AnswersCome ==
    ASSUME script \in Scripts, sent \in Nat, NEW m, NEW c \in on_readable
    PROVE  Comes(m, c)
<1> DEFINE all == Answers(Len(script.replies))
           R == Heard(script)
           data(n) == [i \in 1..(n - sent) |-> Record("data", all[sent + i])]
<1>1. all \in Seq(R) /\ Len(all) \in Nat /\ \A i \in 1..Len(all) : all[i] \in R
  BY AnswersHeard, LenProperties
<1>2. PICK n \in sent..Len(all) : \/ c = FromServer(data(n), n)
                                  \/ c = FromServer(Append(data(n), Record("close", <<>>)), n)
  BY DEF on_readable
<1> HIDE DEF all, R
<1>3. n \in Nat /\ n - sent \in Nat /\ \A i \in 1..(n - sent) : all[sent + i] \in R
  BY <1>1, <1>2
<1> DEFINE d == data(n)
           l == n - sent
<1>4. DOMAIN d = 1..l /\ \A i \in 1..l : d[i] = Record("data", all[sent + i])
  OBVIOUS
<1>5. \A i \in 1..l : d[i].tls = "data" /\ d[i].byte \in R
  <2> SUFFICES ASSUME NEW i \in 1..l
               PROVE  d[i].tls = "data" /\ d[i].byte \in R
    OBVIOUS
  <2> DEFINE b == all[sent + i]
  <2>1. d[i] = Record("data", b) /\ b \in R
    BY <1>3
  <2> HIDE DEF b, d
  <2> QED
    BY <2>1 DEF Record
<1>6. c.app = <<>> /\ c.app_tls = app_tls /\ c.sent \in Nat /\ up_hs # "none"
  BY <1>2, <1>3 DEF FromServer, on_readable
<1>7. CASE c = FromServer(d, n)
  <2>1. c.up = d
    BY <1>7 DEF FromServer
  <2>2. Data(d) \in Seq(R)
    <3> HIDE DEF d, l
    <3>1. l \in Nat
      BY <1>3 DEF l
    <3> QED
      BY <1>4, <1>5, <3>1, DataTyped
  <2> QED
    BY <1>6, <2>1, <2>2 DEF Comes, FromServerOnly, R
<1>8. CASE c = FromServer(Append(d, Record("close", <<>>)), n)
  <2> DEFINE z == Record("close", <<>>)
             e == Append(d, z)
  <2>1. c.up = e
    BY <1>8 DEF FromServer
  <2>2. d \in Seq({d[i] : i \in 1..l} \cup {z}) /\ Len(d) = l /\ l \in Nat
    <3>1. d = [i \in 1..l |-> d[i]] /\ l \in Nat
      BY <1>3, <1>4
    <3> HIDE DEF d, l, z
    <3>2. [i \in 1..l |-> d[i]] \in Seq({d[i] : i \in 1..l} \cup {z}) /\ Len([i \in 1..l |-> d[i]]) = l
      BY <3>1
    <3> QED
      BY <3>1, <3>2
  <2>3. z.tls = "close"
    BY DEF Record
  <2> HIDE DEF d, l, z
  <2>4. DOMAIN e = 1..(l + 1) /\ l + 1 \in Nat /\ e[l + 1] = z /\ \A i \in 1..l : e[i] = d[i]
    BY <2>2
  <2>5. \A i \in 1..(l + 1) : i \in 1..l \/ i = l + 1
    BY <2>2
  <2> HIDE DEF e
  <2>6. \A i \in 1..(l + 1) : e[i].tls = "data" => e[i].byte \in R
    BY <1>5, <2>3, <2>4, <2>5
  <2>7. Data(e) \in Seq(R)
    BY <2>4, <2>6, DataTyped
  <2> QED
    BY <1>6, <2>1, <2>7 DEF Comes, FromServerOnly, R
<1> QED
  BY <1>2, <1>7, <1>8

-----------------------------------------------------------------------------
(* The sessions, and what crosses *)

Has(app, tls) == \E i \in DOMAIN app : app[i].tls = tls

AppHasIs(m, j, app) ==
    /\ Has(app, "hello") <=> m = 0
    /\ ~ Has(app, "bad")
    /\ Has(app, "alert") <=> ~script.trusts /\ m < 2 /\ j = 2
    /\ Has(app, "close") => script.trusts /\ j = Len(AppRecords(script))

LEMMA AppHas ==
    ASSUME script \in Scripts, NEW m \in Nat, NEW j, NEW c, FromAppTo(m, j, c)
    PROVE  AppHasIs(m, j, c.app)
<1> DEFINE r == AppRecords(script)
           N == Len(r)
           app == c.app
<1>1. /\ r \in Seq(Told(script)) /\ N \in Nat
      /\ N = (IF script.trusts THEN Len(script.app) + 3 ELSE 2)
      /\ \A p \in 1..N : RecordIs(script, p, r[p])
  BY RecordsAre, LenProperties
<1>2. app = Slice(r, m, j) /\ j \in (m + 1)..N /\ (m = 0 => j = 1)
  BY DEF FromAppTo
<1> HIDE DEF r, N, app
<1>3. app \in Seq(Told(script)) /\ Len(app) = j - m /\ \A p \in 1..(j - m) : app[p] = r[m + p]
  <2>1. j \in 0..Len(r) /\ m \in 0..j
    BY <1>1, <1>2 DEF N
  <2>2. Slices(Told(script), r, m, j)
    BY <1>1, <2>1, SliceIs
  <2> QED
    BY <1>2, <2>2 DEF Slices
<1>4. DOMAIN app = 1..(j - m)
  BY <1>3, LenProperties
<1>5. ASSUME NEW tls
      PROVE  Has(app, tls) <=> \E p \in (m + 1)..j : r[p].tls = tls
  <2>1. ASSUME NEW i \in 1..(j - m)
        PROVE  m + i \in (m + 1)..j /\ app[i] = r[m + i]
    BY <1>1, <1>2, <1>3
  <2>2. ASSUME NEW p \in (m + 1)..j
        PROVE  p - m \in 1..(j - m) /\ app[p - m] = r[p]
    <3>1. p - m \in 1..(j - m) /\ m + (p - m) = p
      BY <1>1, <1>2
    <3> QED
      BY <1>3, <3>1
  <2>3. ASSUME Has(app, tls)
        PROVE  \E p \in (m + 1)..j : r[p].tls = tls
    <3>1. PICK i \in 1..(j - m) : app[i].tls = tls
      BY <1>4, <2>3 DEF Has
    <3> QED
      BY <2>1, <3>1
  <2>4. ASSUME NEW p \in (m + 1)..j, r[p].tls = tls
        PROVE  Has(app, tls)
    BY <1>4, <2>2, <2>4 DEF Has
  <2> QED
    BY <2>3, <2>4
<1>6. ASSUME NEW p \in (m + 1)..j
      PROVE  /\ r[p].tls = "hello" <=> p = 1
             /\ r[p].tls = "alert" <=> ~script.trusts /\ p = 2
             /\ r[p].tls = "close" <=> script.trusts /\ p = N
             /\ r[p].tls # "bad"
  <2>1. p \in 1..N
    BY <1>1, <1>2
  <2> QED
    BY <1>1, <2>1 DEF RecordIs, N, r
<1>7. Has(app, "hello") <=> m = 0
  <2>1. m = 0 => 1 \in (m + 1)..j
    BY <1>2
  <2>2. \A p \in (m + 1)..j : p = 1 => m = 0
    OBVIOUS
  <2> QED
    BY <1>5, <1>6, <2>1, <2>2
<1>8. Has(app, "alert") <=> ~script.trusts /\ m < 2 /\ j = 2
  <2>1. ~script.trusts /\ m < 2 /\ j = 2 => 2 \in (m + 1)..j
    OBVIOUS
  <2>2. \A p \in (m + 1)..j : ~script.trusts /\ p = 2 => m < 2 /\ j = 2
    BY <1>1, <1>2
  <2> QED
    BY <1>5, <1>6, <2>1, <2>2
<1>9. ~ Has(app, "bad")
  BY <1>5, <1>6
<1>10. Has(app, "close") => script.trusts /\ j = N
  <2>1. \A p \in (m + 1)..j : p = N => j = N
    BY <1>1, <1>2
  <2> QED
    BY <1>5, <1>6, <2>1
<1> QED
  BY <1>7, <1>8, <1>9, <1>10 DEF AppHasIs, app, N, r

Fails(app) == Has(app, "alert") \/ Has(app, "bad") \/ (Has(app, "hello") /\ ~script.sni)
Learns(app) == up_hs = "none" /\ Has(app, "hello") /\ script.sni

\* What both sides have sent crosses.
Crosses(app, up, learned) ==
    \E over : \E c \in {cross_plaintext(app, up)} :
        plaintext' = provision(drained(c.st, over).p, learned) /\ to_upstream' = to_upstream \o c.to_upstream

PumpIs(app, up) ==
    /\ app_hs' = IF Has(app, "finished") THEN "open" ELSE IF Has(app, "hello") THEN "shaking" ELSE app_hs
    /\ Has(app, "hello") \/ Learns(app) \/ up_hs # "none" \/ Has(up, "finished") \/ up_hs' = up_hs
    /\ app_closed' => app_closed \/ Has(app, "close")
    /\ \/ /\ Fails(app) /\ closed' /\ UNCHANGED crossing
          /\ cert_rejected' => app_hs' # "open"
       \/ Has(up, "bad") /\ closed' /\ ~cert_rejected' /\ UNCHANGED crossing
       \/ /\ ~ Fails(app) /\ cert_rejected' = cert_rejected
          /\ Crosses(Data(app), Data(up), Learns(app))

LEMMA Pumps ==
    ASSUME NEW app, NEW up, pump(app, up)
    PROVE  PumpIs(app, up)
<1>1. /\ app_hs' = IF Has(app, "finished") THEN "open" ELSE IF Has(app, "hello") THEN "shaking" ELSE app_hs
      /\ up_hs' = IF Learns(app) THEN "shaking" ELSE IF Has(up, "finished") THEN "open" ELSE up_hs
      /\ app_closed' = (app_closed \/ Has(app, "close"))
  BY DEF pump, Has, Learns
<1>2. \/ Fails(app) /\ fail("App") /\ UNCHANGED crossing
      \/ Has(up, "bad") /\ fail("Upstream") /\ UNCHANGED crossing
      \/ /\ ~ Fails(app) /\ UNCHANGED <<failed, cert_rejected>>
         /\ \E c \in {cross_plaintext(Data(app), Data(up))} :
               /\ \E d \in {drained(c.st, closed')} :
                     plaintext' = provision(d.p, Learns(app)) /\ har' = har \o d.txns
               /\ to_upstream' = to_upstream \o c.to_upstream
               /\ to_app' = to_app \o c.to_app
  BY DEF pump, Fails, Learns, Has
<1>3. CASE Fails(app) /\ fail("App") /\ UNCHANGED crossing
  <2>1. closed' = TRUE /\ cert_rejected' = (app_hs' # "open")
    BY <1>3 DEF fail
  <2> QED
    BY <1>1, <1>3, <2>1 DEF PumpIs
<1>4. CASE Has(up, "bad") /\ fail("Upstream") /\ UNCHANGED crossing
  <2>1. closed' = TRUE /\ cert_rejected' = FALSE
    BY <1>4 DEF fail
  <2> QED
    BY <1>1, <1>4, <2>1 DEF PumpIs
<1>5. CASE /\ ~ Fails(app) /\ UNCHANGED <<failed, cert_rejected>>
           /\ \E c \in {cross_plaintext(Data(app), Data(up))} :
                 /\ \E d \in {drained(c.st, closed')} :
                       plaintext' = provision(d.p, Learns(app)) /\ har' = har \o d.txns
                 /\ to_upstream' = to_upstream \o c.to_upstream
                 /\ to_app' = to_app \o c.to_app
  <2>1. Crosses(Data(app), Data(up), Learns(app))
    <3> DEFINE c == cross_plaintext(Data(app), Data(up))
    <3>1. plaintext' = provision(drained(c.st, closed').p, Learns(app))
          /\ to_upstream' = to_upstream \o c.to_upstream
      BY <1>5
    <3> HIDE DEF c
    <3>2. \E over : plaintext' = provision(drained(c.st, over).p, Learns(app))
      BY <3>1
    <3> QED
      BY <3>1, <3>2 DEF Crosses, c
  <2> QED
    BY <1>1, <1>5, <2>1 DEF PumpIs
<1> QED
  BY <1>2, <1>3, <1>4, <1>5

\* The records up to the j-th have come, or nothing crosses any more.
Pumped(m, j, c) ==
    /\ j \in m..Len(AppRecords(script))
    /\ ~closed' => Sessions(j)'
    /\ app_closed' => script.trusts /\ j = Len(AppRecords(script))
    /\ cert_rejected' => closed' /\ app_hs' # "open" /\ (app_tls' = <<>> \/ ~script.sni)
    /\ \/ j = m /\ UNCHANGED crossing
       \/ /\ Data(c.up) \in Seq(Heard(script))
          /\ Crosses(Slice(script.app, Read(script, m), Read(script, j)), Data(c.up), m = 0 /\ j > 0)
          /\ m = 0 => j = 1

LEMMA AppPumps ==
    ASSUME script \in Scripts, script' = script, ~closed, ~cert_rejected,
           NEW m \in 0..Len(AppRecords(script)), Sessions(m),
           app_closed => script.trusts /\ m = Len(AppRecords(script)),
           NEW c, NEW i, FromAppTo(m, i, c), app_tls' = c.app_tls, pump(c.app, c.up)
    PROVE  \E j : Pumped(m, j, c)
<1> DEFINE r == AppRecords(script)
           N == Len(r)
           app == c.app
<1>1. /\ r \in Seq(Told(script)) /\ N \in Nat
      /\ N = (IF script.trusts THEN Len(script.app) + 3 ELSE 2)
  BY RecordsAre, LenProperties
<1>2. m \in Nat /\ m <= N /\ i \in (m + 1)..N /\ i \in Nat /\ (m = 0 => i = 1) /\ i > 0
  BY <1>1 DEF FromAppTo
<1>3. AppHasIs(m, i, app)
  BY <1>2, AppHas
<1>4. PumpIs(app, c.up)
  BY Pumps
<1>5. app_tls' = Slice(r, i, N) /\ app = Slice(r, m, i) /\ c.up = <<>>
  BY DEF FromAppTo
<1> HIDE DEF r, N, app
<1>6. /\ (app_hs = "hello") <=> m = 0
      /\ m = 0 => up_hs = "none"
      /\ m > 0 => script.sni
      /\ ~script.trusts => m <= 1
  BY DEF Sessions
<1>7. m # N
  BY <1>1, <1>2
<1>8. ~app_closed
  BY <1>7 DEF N, r
<1>9. CASE Fails(app)
  <2>1. closed' /\ UNCHANGED crossing /\ (cert_rejected' => app_hs' # "open")
    BY <1>4, <1>9 DEF PumpIs
  <2>2. ~app_closed'
    <3>1. ~ Has(app, "close")
      <4>1. CASE m = 0
        BY <1>1, <1>2, <1>3, <4>1, AppIs DEF AppHasIs, N, r
      <4>2. CASE m # 0
        BY <1>2, <1>3, <1>6, <1>9, <4>2 DEF AppHasIs, Fails
      <4> QED
        BY <4>1, <4>2
    <3> QED
      BY <1>4, <1>8, <3>1 DEF PumpIs
  <2>3. app_tls' = <<>> \/ ~script.sni
    <3>1. CASE Has(app, "alert")
      <4>1. i = N
        BY <1>1, <1>3, <3>1 DEF AppHasIs
      <4>2. N \in 0..Len(r)
        BY <1>1 DEF N
      <4> QED
        BY <1>1, <1>5, <4>1, <4>2, NoSlice
    <3>2. CASE ~ Has(app, "alert")
      BY <1>3, <1>9, <3>2 DEF Fails, AppHasIs
    <3> QED
      BY <3>1, <3>2
  <2>4. Pumped(m, m, c)
    <3>1. m \in m..N
      BY <1>2
    <3> QED
      BY <2>1, <2>2, <2>3, <3>1 DEF Pumped, N, r
  <2> QED
    BY <2>4
<1>10. CASE ~ Fails(app) /\ cert_rejected' = cert_rejected /\ Crosses(Data(app), Data(<<>>), Learns(app))
  <2>1. ~ Has(app, "alert") /\ (m = 0 => script.sni) /\ (Learns(app) <=> m = 0 /\ i > 0)
    BY <1>2, <1>3, <1>6, <1>10 DEF Fails, AppHasIs, Learns
  <2>2. Sessions(i)'
    <3>1. app_hs' # "hello"
      BY <1>3, <1>4, <1>6 DEF PumpIs, AppHasIs
    <3>2. ~script.trusts => i <= 1
      BY <1>1, <1>2, <1>3, <1>6, <2>1 DEF AppHasIs
    <3>3. script.sni
      BY <1>2, <1>6, <2>1
    <3>4. AppRecords(script)' = AppRecords(script)
      BY DEF AppRecords
    <3> QED
      BY <1>2, <1>5, <3>1, <3>2, <3>3, <3>4 DEF Sessions, r, N
  <2>3. app_closed' => script.trusts /\ i = N
    BY <1>3, <1>4, <1>8 DEF PumpIs, AppHasIs, N, r
  <2>4. Data(app) = Slice(script.app, Read(script, m), Read(script, i))
    <3>1. i \in 0..Len(AppRecords(script)) /\ m \in 0..i
      BY <1>1, <1>2 DEF N, r
    <3> QED
      BY <1>5, <3>1, DataIs DEF r
  <2>5. Data(c.up) = <<>> /\ Data(<<>>) = <<>> /\ <<>> \in Seq(Heard(script))
    BY <1>5, NothingComes, EmptySeq
  <2>6. Crosses(Slice(script.app, Read(script, m), Read(script, i)), Data(c.up), m = 0 /\ i > 0)
    <3>1. CASE Learns(app)
      <4>1. Learns(app) = (m = 0 /\ i > 0)
        BY <2>1 DEF Learns
      <4> QED
        BY <1>10, <2>4, <2>5, <4>1
    <3>2. CASE ~ Learns(app)
      <4>1. Learns(app) = (m = 0 /\ i > 0)
        BY <2>1 DEF Learns
      <4> QED
        BY <1>10, <2>4, <2>5, <4>1
    <3> QED
      BY <3>1, <3>2
  <2>7. Pumped(m, i, c)
    <3>1. i \in m..N /\ ~cert_rejected'
      BY <1>2, <1>10
    <3> QED
      BY <1>2, <2>2, <2>3, <2>5, <2>6, <3>1 DEF Pumped, N, r
  <2> QED
    BY <2>7
<1>11. ~ Has(<<>>, "bad")
  BY DEF Has
<1> QED
  BY <1>4, <1>5, <1>9, <1>10, <1>11 DEF PumpIs

LEMMA ServerPumps ==
    ASSUME script \in Scripts, script' = script, ~closed, ~cert_rejected,
           NEW m \in 0..Len(AppRecords(script)), Sessions(m),
           app_closed => script.trusts /\ m = Len(AppRecords(script)),
           NEW c, FromServerOnly(c), app_tls' = c.app_tls, pump(c.app, c.up)
    PROVE  Pumped(m, m, c)
<1> DEFINE N == Len(AppRecords(script))
<1>1. m \in m..N /\ m \in Nat /\ m # 0 /\ m > 0 /\ m \in 0..N
  <2>1. m # 0
    BY DEF Sessions, FromServerOnly
  <2>2. N \in Nat
    BY RecordsAre, LenProperties
  <2> HIDE DEF N
  <2>3. m \in 0..N
    BY DEF N
  <2> QED
    BY <2>1, <2>2, <2>3
<1>2. PumpIs(c.app, c.up)
  BY Pumps
<1>3. c.app = <<>> /\ app_tls' = app_tls /\ Data(c.up) \in Seq(Heard(script))
  BY DEF FromServerOnly
<1>4. ~ Has(c.app, "hello") /\ ~ Has(c.app, "close") /\ ~ Has(c.app, "finished") /\ ~ Learns(c.app) /\ ~ Fails(c.app)
  BY <1>3 DEF Has, Fails, Learns
<1>5. app_hs' = app_hs /\ (app_closed' => app_closed)
  BY <1>2, <1>4 DEF PumpIs
<1>6. Sessions(m)'
  <2>1. AppRecords(script)' = AppRecords(script)
    BY DEF AppRecords
  <2> QED
    BY <1>1, <1>3, <1>5, <2>1 DEF Sessions
<1>7. CASE Has(c.up, "bad") /\ closed' /\ ~cert_rejected' /\ UNCHANGED crossing
  BY <1>1, <1>5, <1>7 DEF Pumped
<1>8. CASE cert_rejected' = cert_rejected /\ Crosses(Data(c.app), Data(c.up), Learns(c.app))
  <2>1. Data(c.app) = Slice(script.app, Read(script, m), Read(script, m))
    <3>1. Read(script, m) \in 0..Len(script.app) /\ script.app \in Seq(Bytes(script))
      BY <1>1, ReadGrows, AppIs
    <3> QED
      BY <1>3, <3>1, NoSlice, NothingComes
  <2>2. Learns(c.app) = (m = 0 /\ m > 0)
    BY <1>1, <1>4 DEF Learns
  <2>3. Crosses(Slice(script.app, Read(script, m), Read(script, m)), Data(c.up), m = 0 /\ m > 0)
    BY <1>8, <2>1, <2>2
  <2> QED
    BY <1>1, <1>3, <1>5, <1>6, <1>8, <2>3 DEF Pumped
<1> QED
  BY <1>2, <1>4, <1>7, <1>8 DEF PumpIs

LEMMA BreakPumps ==
    ASSUME script \in Scripts, script' = script, ~closed, ~cert_rejected,
           NEW m \in 0..Len(AppRecords(script)), Sessions(m),
           app_closed => script.trusts /\ m = Len(AppRecords(script)),
           NEW c, Broken(c), app_tls' = c.app_tls, pump(c.app, c.up)
    PROVE  Pumped(m, m, c)
<1> DEFINE N == Len(AppRecords(script))
           app == c.app
<1>1. m \in m..N
  <2>1. N \in Nat
    BY RecordsAre, LenProperties
  <2> HIDE DEF N
  <2>2. m \in 0..N
    BY DEF N
  <2> QED
    BY <2>1, <2>2
<1>2. PumpIs(app, c.up)
  BY Pumps
<1>3. app = <<Record("bad", <<>>)>> /\ c.up = <<>> /\ app_tls' = <<>>
  BY DEF Broken
<1>4. DOMAIN app = {1} /\ app[1].tls = "bad"
  <2>1. Record("bad", <<>>).tls = "bad"
    BY DEF Record
  <2> QED
    BY <1>3, <2>1
<1> HIDE DEF app
<1>5. Fails(app) /\ ~ Has(app, "close") /\ ~ Has(c.up, "bad")
  BY <1>3, <1>4 DEF Has, Fails
<1>6. closed' /\ (cert_rejected' => app_hs' # "open") /\ UNCHANGED crossing
  BY <1>2, <1>5 DEF PumpIs
<1>7. app_closed' => app_closed
  BY <1>2, <1>5 DEF PumpIs
<1> QED
  BY <1>1, <1>3, <1>6, <1>7 DEF Pumped

-----------------------------------------------------------------------------
(* What the crossing does *)

Flushed(on, off, req, buf, rw, v) ==
    /\ [rw EXCEPT !.req_buf = <<>>] = RwSt(on, off, req, <<>>, [rw EXCEPT !.req_buf = <<>>])
    /\ [rw EXCEPT !.req_buf = <<>>].resp = rw.resp
    /\ [rw EXCEPT !.req_buf = <<>>].resp_buf = rw.resp_buf
    /\ [rw EXCEPT !.resp_buf = <<>>] = RwSt(on, off, req, buf, [rw EXCEPT !.resp_buf = <<>>])
    /\ [rw EXCEPT !.resp_buf = <<>>].resp = rw.resp
    /\ [rw EXCEPT !.resp_buf = <<>>].resp_buf = <<>>
    /\ [rw EXCEPT !.active = v] = RwSt(v, off, req, buf, [rw EXCEPT !.active = v])
    /\ [rw EXCEPT !.active = v].resp = rw.resp
    /\ [rw EXCEPT !.active = v].resp_buf = rw.resp_buf

LEMMA RwFlush ==
    ASSUME NEW on, NEW off, NEW req, NEW buf, NEW rw, rw = RwSt(on, off, req, buf, rw), NEW v
    PROVE  Flushed(on, off, req, buf, rw, v)
<1> DEFINE r == rw.resp
           b == rw.resp_buf
           h == rw.pending_head
           x == [rw EXCEPT !.req_buf = <<>>]
           y == [rw EXCEPT !.resp_buf = <<>>]
           z == [rw EXCEPT !.active = v]
<1>1. rw = [active |-> on, disabled |-> off, req |-> req, req_buf |-> buf,
            resp |-> r, resp_buf |-> b, pending_head |-> h]
  BY DEF RwSt
<1>2. x = [rw EXCEPT !.req_buf = <<>>] /\ y = [rw EXCEPT !.resp_buf = <<>>] /\ z = [rw EXCEPT !.active = v]
  OBVIOUS
<1> HIDE DEF r, b, h, x, y, z
<1>3. x = [active |-> on, disabled |-> off, req |-> req, req_buf |-> <<>>,
           resp |-> r, resp_buf |-> b, pending_head |-> h]
  BY <1>1, <1>2
<1>4. y = [active |-> on, disabled |-> off, req |-> req, req_buf |-> buf,
           resp |-> r, resp_buf |-> <<>>, pending_head |-> h]
  BY <1>1, <1>2
<1>5. z = [active |-> v, disabled |-> off, req |-> req, req_buf |-> buf,
           resp |-> r, resp_buf |-> b, pending_head |-> h]
  BY <1>1, <1>2
<1>6. x = RwSt(on, off, req, <<>>, x) /\ x.resp = r /\ x.resp_buf = b
  BY <1>3 DEF RwSt
<1>7. y = RwSt(on, off, req, buf, y) /\ y.resp = r /\ y.resp_buf = <<>>
  BY <1>4 DEF RwSt
<1>8. z = RwSt(v, off, req, buf, z) /\ z.resp = r /\ z.resp_buf = b
  BY <1>5 DEF RwSt
<1> QED
  BY <1>6, <1>7, <1>8 DEF Flushed, x, y, z, r, b

LEMMA LostStays ==
    ASSUME NEW rw, RwLooksNot(rw), NEW d, NEW v
    PROVE  /\ RwLooksNot(feed_request(rw, d).rw) /\ RwLooksNot(feed_response(rw, d).rw)
           /\ RwLooksNot(set_cosmetic(rw, v))
<1> DEFINE x == [rw EXCEPT !.req_buf = <<>>]
           y == [rw EXCEPT !.resp_buf = <<>>]
           z == [rw EXCEPT !.active = v]
           on == rw.active
           req == rw.req
           buf == rw.req_buf
<1>1. rw = RwSt(on, TRUE, req, buf, rw)
  BY DEF RwLooksNot
<1>2. rw.disabled = TRUE
  BY <1>1 DEF RwSt
<1>3. feed_request(rw, d).rw = x /\ feed_response(rw, d).rw = y /\ set_cosmetic(rw, v) = z
  BY <1>2 DEF feed_request, feed_response, set_cosmetic, Out
<1> HIDE DEF on, req, buf
<1>7. Flushed(on, TRUE, req, buf, rw, v)
  BY <1>1, RwFlush
<1>4. /\ x = RwSt(on, TRUE, req, <<>>, x) /\ y = RwSt(on, TRUE, req, buf, y)
      /\ z = RwSt(v, TRUE, req, buf, z)
  BY <1>7 DEF Flushed
<1> HIDE DEF x, y, z
<1>5. /\ x.active = on /\ x.req = req /\ x.req_buf = <<>>
      /\ y.active = on /\ y.req = req /\ y.req_buf = buf
      /\ z.active = v /\ z.req = req /\ z.req_buf = buf
  BY <1>4 DEF RwSt
<1>6. RwLooksNot(x) /\ RwLooksNot(y) /\ RwLooksNot(z)
  BY <1>4, <1>5 DEF RwLooksNot
<1> QED
  BY <1>3, <1>6

RequestTo(rw, app) == IF app = <<>> THEN Out(rw, <<>>) ELSE feed_request(rw, app)
ResponseTo(rw, up) == IF up = <<>> THEN Out(rw, <<>>) ELSE feed_response(rw, up)

\* Off, or on, or not looking, after the bytes up to the last.
RwAfter(s, on, u, req, last) ==
    \/ RwLooksNot(req.rw)
    \/ RwLooks(s, on, last, req.rw) /\ u \o req.out = Asked(s)[last].out

LEMMA NoData ==
    ASSUME NEW B, NEW x \in Seq(B), NEW last \in 0..Len(x), NEW k \in 0..last, Slice(x, k, last) = <<>>
    PROVE  k = last
<1>1. Slices(B, x, k, last) /\ last \in Nat /\ k \in Nat
  BY LenProperties, SliceIs
<1>2. last - k = 0
  BY <1>1 DEF Slices
<1> QED
  BY <1>1, <1>2

LEMMA RequestCross ==
    ASSUME NEW s, Sound(s), s.kind = "http", NEW last \in 0..Len(s.app), NEW k \in 0..last,
           NEW on \in BOOLEAN, on => s.payload, s.payload /\ ~on => k = last,
           NEW rw, RwLooks(s, on, k, rw)
    PROVE  RwAfter(s, on, Asked(s)[k].out, RequestTo(rw, Slice(s.app, k, last)), last)
<1> DEFINE x == s.app
           w == Slice(x, k, last)
           u == Asked(s)[k].out
           B == Bytes(s)
           c == RequestTo(rw, w)
<1>1. x \in Seq(B) /\ last \in 0..Len(x) /\ s.payload \in BOOLEAN
  BY AppIs DEF Sound
<1>2. u \in Seq(B)
  BY ReadSoFar
<1>3. rw = RwSt(on, FALSE, Asked(s)[k].left, Asked(s)[k].held, rw)
  BY DEF RwLooks
<1>4. CASE w = <<>>
  <2>1. k = last
    BY <1>1, <1>4, NoData
  <2>2. c = Out(rw, <<>>)
    BY <1>4 DEF RequestTo
  <2>3. c.rw = rw /\ c.out = <<>>
    <3> HIDE DEF c
    <3> QED
      BY <2>2 DEF Out
  <2> HIDE DEF c, u
  <2>4. u \o <<>> = u
    BY <1>2, StartsWith
  <2> QED
    BY <2>1, <2>3, <2>4 DEF RwAfter, c, u
<1>5. CASE w # <<>> /\ on
  <2>1. c = feed_request(rw, w)
    BY <1>5 DEF RequestTo
  <2>2. on = TRUE /\ s.payload
    BY <1>5
  <2>3. Hears(Heard(s), rw.resp, rw.resp_buf)
    BY <2>2 DEF RwLooks
  <2>4. Fed("request", s, u, c, last)
    <3>1. rw = RwSt(TRUE, FALSE, Asked(s)[k].left, Asked(s)[k].held, rw)
      BY <1>3, <2>2
    <3>2. Fed("request", s, Asked(s)[k].out, feed_request(rw, Slice(s.app, k, last)), last)
      BY <2>2, <2>3, <3>1, RequestFed
    <3> HIDE DEF c
    <3> QED
      BY <2>1, <3>2
  <2> HIDE DEF c, u
  <2>5. CASE Lost("request", c)
    <3> DEFINE r == c.rw
    <3>1. r = RwSt(TRUE, TRUE, 0, <<>>, r)
      BY <2>5 DEF Lost
    <3> HIDE DEF r
    <3>2. r.active = TRUE /\ r.req = 0 /\ r.req_buf = <<>>
      BY <3>1 DEF RwSt
    <3>3. RwLooksNot(r)
      BY <3>1, <3>2 DEF RwLooksNot
    <3> QED
      BY <3>3 DEF RwAfter, r, c, u
  <2>6. CASE Stands("request", s, u, c, last, last)
    <3>1. Held(Asked(s)[last].held, x, last, last) = Asked(s)[last].held
      <4>1. last \in 0..last
        BY <1>1
      <4>2. Asked(s)[last].held \in Seq(Bytes(s))
        BY <4>1, ReadSoFar
      <4> QED
        BY <4>2, HeldAll
    <3>2. RwLooks(s, on, last, c.rw) /\ u \o c.out = Asked(s)[last].out
      BY <2>2, <2>6, <3>1 DEF Stands, Written, RwLooks
    <3> QED
      BY <3>2 DEF RwAfter, c, u
  <2> QED
    BY <2>4, <2>5, <2>6 DEF Fed
<1>6. CASE w # <<>> /\ ~on
  <2>1. ~s.payload
    <3>1. k # last
      <4> SUFFICES ASSUME k = last
                   PROVE  FALSE
        OBVIOUS
      <4>1. w = <<>>
        BY <1>1, NoSlice
      <4> QED
        BY <1>6, <4>1
    <3> QED
      BY <1>1, <1>6, <3>1
  <2>2. Asked(s)[last] = Acc(<<>>, 0, Held(u, x, k, last))
    BY <2>1, ReadsRaw
  <2>3. Asked(s)[k].left = 0 /\ Asked(s)[k].held = <<>>
    <3>1. k \in 0..Len(s.app)
      BY <1>1
    <3>2. AccOf(B, s, Asked(s)[k])
      BY <3>1, AskedSound
    <3> QED
      BY <2>1, <3>2 DEF AccOf
  <2>4. on = FALSE /\ rw = RwSt(FALSE, FALSE, 0, <<>>, rw)
    BY <1>3, <1>6, <2>3
  <2> DEFINE y == [rw EXCEPT !.req_buf = <<>>]
  <2>5. c = Out(y, <<>> \o w)
    <3>1. rw.active = FALSE /\ rw.req_buf = <<>>
      BY <2>4 DEF RwSt
    <3> QED
      BY <1>6, <3>1 DEF RequestTo, feed_request
  <2>6. y = RwSt(FALSE, FALSE, 0, <<>>, y)
    <3> HIDE DEF y
    <3>1. Flushed(FALSE, FALSE, 0, <<>>, rw, on)
      BY <2>4, RwFlush
    <3> QED
      BY <3>1 DEF Flushed, y
  <2>7. <<>> \o w = w /\ u \o w = Held(u, x, k, last)
    <3>1. Slices(B, x, k, last)
      BY <1>1, SliceIs
    <3>2. w \in Seq(B)
      BY <3>1 DEF Slices
    <3> HIDE DEF w
    <3>3. <<>> \o w = w
      BY <3>2, Concat
    <3> QED
      BY <3>3 DEF Held, w
  <2> HIDE DEF c, y, w
  <2>8. c.rw = y /\ c.out = w
    BY <2>5, <2>7 DEF Out
  <2>9. Asked(s)[last].left = 0 /\ Asked(s)[last].held = <<>> /\ Asked(s)[last].out = Held(u, x, k, last)
    BY <2>2 DEF Acc
  <2>10. RwLooks(s, on, last, c.rw)
    BY <2>1, <2>4, <2>6, <2>8, <2>9 DEF RwLooks
  <2> QED
    BY <2>7, <2>8, <2>9, <2>10 DEF RwAfter, c, w
<1> QED
  BY <1>4, <1>5, <1>6

LEMMA ResponseCross ==
    ASSUME NEW s, NEW on \in BOOLEAN, on => s.payload, NEW k,
           NEW rw, RwLooks(s, on, k, rw), NEW up \in Seq(Heard(s))
    PROVE  RwLooksNot(ResponseTo(rw, up).rw) \/ RwLooks(s, on, k, ResponseTo(rw, up).rw)
<1> DEFINE c == ResponseTo(rw, up)
           req == Asked(s)[k].left
           buf == Asked(s)[k].held
           R == Heard(s)
<1>1. rw = RwSt(on, FALSE, req, buf, rw)
  BY DEF RwLooks
<1> HIDE DEF req, buf
<1>2. CASE up = <<>>
  BY <1>2 DEF ResponseTo, Out
<1>3. CASE up # <<>> /\ on
  <2>1. c = feed_response(rw, up)
    BY <1>3 DEF ResponseTo
  <2>2. on = TRUE /\ s.payload
    BY <1>3
  <2>3. Hears(R, rw.resp, rw.resp_buf)
    BY <2>2 DEF RwLooks
  <2>4. rw = RwSt(TRUE, FALSE, req, buf, rw)
    BY <1>1, <2>2
  <2>5. Answered(R, req, buf, feed_response(rw, up).rw)
    <3> HIDE DEF R
    <3>1. up \in Seq(R)
      BY DEF R
    <3> QED
      BY <2>3, <2>4, <3>1, ResponseFed
  <2> DEFINE r == c.rw
  <2>6. Answered(R, req, buf, r)
    BY <2>1, <2>5
  <2> HIDE DEF r
  <2>7. CASE r = RwSt(TRUE, TRUE, req, buf, r)
    <3>1. r.active = TRUE /\ r.req = req /\ r.req_buf = buf
      BY <2>7 DEF RwSt
    <3>2. RwLooksNot(r)
      BY <2>7, <3>1 DEF RwLooksNot
    <3> QED
      BY <3>2 DEF r
  <2>8. CASE r = RwSt(TRUE, FALSE, req, buf, r) /\ Hears(R, r.resp, r.resp_buf)
    <3>1. RwLooks(s, on, k, r)
      BY <2>2, <2>8 DEF RwLooks, req, buf
    <3> QED
      BY <3>1 DEF r
  <2> QED
    BY <2>6, <2>7, <2>8 DEF Answered
<1>4. CASE up # <<>> /\ ~on
  <2> DEFINE y == [rw EXCEPT !.resp_buf = <<>>]
  <2>1. rw.active = FALSE
    BY <1>1, <1>4 DEF RwSt
  <2>2. c.rw = y
    BY <1>4, <2>1 DEF ResponseTo, feed_response, Out
  <2>3. y = RwSt(on, FALSE, req, buf, y) /\ y.resp = rw.resp /\ y.resp_buf = <<>>
    <3> HIDE DEF y
    <3>1. Flushed(on, FALSE, req, buf, rw, on)
      BY <1>1, RwFlush
    <3> QED
      BY <3>1 DEF Flushed, y
  <2> HIDE DEF y, c, R
  <2>4. s.payload => Hears(R, y.resp, y.resp_buf)
    <3>1. s.payload => Hears(R, rw.resp, rw.resp_buf)
      BY DEF RwLooks, R
    <3>2. <<>> \in Seq(R)
      BY EmptySeq
    <3> QED
      BY <2>3, <3>1, <3>2 DEF Hears
  <2>5. RwLooks(s, on, k, y)
    BY <2>3, <2>4 DEF RwLooks, req, buf, R
  <2> QED
    BY <2>2, <2>5 DEF c
<1> QED
  BY <1>2, <1>3, <1>4

\* After the bytes up to the last, it has looked at them, or looks no longer.
Crossed(s, on, u, c, last) ==
    LooksNot(s, c.st) \/ (Looks(s, on, last, c.st) /\ u \o c.to_upstream = Asked(s)[last].out)

LEMMA HttpCrossIs ==
    ASSUME NEW p, HttpSt(p), NEW app, NEW up
    PROVE  /\ HttpSt(cross_http(p, app, up).st)
           /\ cross_http(p, app, up).st.rewriter = ResponseTo(RequestTo(p.rewriter, app).rw, up).rw
           /\ cross_http(p, app, up).to_upstream = RequestTo(p.rewriter, app).out
<1> DEFINE req == RequestTo(p.rewriter, app)
           resp == ResponseTo(req.rw, up)
           t == p.tap
           tap == tap_response(tap_request(t, app), up)
           st == [p EXCEPT !.tap = tap_response(tap_request(@, app), up), !.rewriter = resp.rw]
           c == cross_http(p, app, up)
           rw == p.rewriter
<1>1. c = Cross(st, req.out, resp.out)
  BY DEF cross_http, RequestTo, ResponseTo
<1>2. st = [p EXCEPT !.tap = tap, !.rewriter = resp.rw]
  OBVIOUS
<1>3. p = [kind |-> "Http", tap |-> t, rewriter |-> rw]
  BY DEF HttpSt
<1> DEFINE w == resp.rw
           o == req.out
<1> HIDE DEF c, rw, t, tap, w, o, st
<1>4. st = [kind |-> "Http", tap |-> tap, rewriter |-> w]
  BY <1>2, <1>3 DEF w
<1>5. HttpSt(st) /\ st.rewriter = w
  BY <1>4 DEF HttpSt
<1>6. c.st = st /\ c.to_upstream = o
  BY <1>1 DEF Cross, o
<1> QED
  BY <1>5, <1>6 DEF c, w, o

LEMMA HttpCross ==
    ASSUME NEW s, Sound(s), s.kind = "http", NEW last \in 0..Len(s.app), NEW k \in 0..last,
           NEW on \in BOOLEAN, on => s.payload, s.payload /\ ~on => k = last,
           NEW p, Looks(s, on, k, p), NEW up \in Seq(Heard(s))
    PROVE  Crossed(s, on, Asked(s)[k].out, cross_http(p, Slice(s.app, k, last), up), last)
<1> DEFINE app == Slice(s.app, k, last)
           u == Asked(s)[k].out
           rw == p.rewriter
           req == RequestTo(rw, app)
           r == req.rw
           resp == ResponseTo(r, up)
           c == cross_http(p, app, up)
<1>1. HttpSt(p) /\ RwLooks(s, on, k, rw)
  BY DEF Looks
<1>2. HttpSt(c.st) /\ c.st.rewriter = resp.rw /\ c.to_upstream = req.out
  BY <1>1, HttpCrossIs
<1>3. RwAfter(s, on, u, req, last)
  <2> HIDE DEF rw
  <2> QED
    BY <1>1, RequestCross
<1> HIDE DEF app, u, rw, req, c
<1>4. CASE RwLooksNot(r)
  <2>1. RwLooksNot(resp.rw)
    <3> HIDE DEF r
    <3> QED
      BY <1>4, LostStays DEF ResponseTo, Out
  <2> QED
    BY <1>2, <2>1 DEF Crossed, LooksNot, c, app, u
<1>5. CASE RwLooks(s, on, last, r) /\ u \o req.out = Asked(s)[last].out
  <2>1. RwLooksNot(resp.rw) \/ RwLooks(s, on, last, resp.rw)
    <3> HIDE DEF r
    <3> QED
      BY <1>5, ResponseCross
  <2> QED
    BY <1>2, <1>5, <2>1 DEF Crossed, Looks, LooksNot, c, app, u
<1> QED
  BY <1>3, <1>4, <1>5 DEF RwAfter

LEMMA HttpStays ==
    ASSUME NEW s, s.kind = "http", NEW p, LooksNot(s, p), NEW app, NEW up
    PROVE  LooksNot(s, cross_http(p, app, up).st)
<1> DEFINE rw == p.rewriter
           r == RequestTo(rw, app).rw
           c == cross_http(p, app, up)
           w == ResponseTo(r, up).rw
<1>1. HttpSt(p) /\ RwLooksNot(rw)
  BY DEF LooksNot
<1>2. HttpSt(c.st) /\ c.st.rewriter = w
  BY <1>1, HttpCrossIs
<1>3. RwLooksNot(r)
  <2> HIDE DEF rw
  <2> QED
    BY <1>1, LostStays DEF RequestTo, Out
<1>4. RwLooksNot(w)
  <2> HIDE DEF r
  <2> QED
    BY <1>3, LostStays DEF ResponseTo, Out
<1> HIDE DEF c, w
<1> QED
  BY <1>2, <1>4 DEF LooksNot, c

AppTo(p, app) == IF app = <<>> THEN Cross(p, <<>>, <<>>) ELSE on_app_data(p, app)

LEMMA DnsCrossIs ==
    ASSUME NEW p, NEW app, NEW up,
           \/ AppTo(p, app).st = DotSt(AppTo(p, app).st.app_buf, AppTo(p, app).st.passthrough, AppTo(p, app).st)
           \/ AppTo(p, app).st.kind = "Doh" /\ AppTo(p, app).st.proto # "H2"
    PROVE  /\ cross_dns(p, app, up).st = AppTo(p, app).st
           /\ cross_dns(p, app, up).to_upstream = AppTo(p, app).to_upstream
<1> DEFINE a == AppTo(p, app)
           st == a.st
           reply == IF up = <<>> THEN Cross(st, <<>>, <<>>) ELSE on_upstream_data(st, up)
           c == cross_dns(p, app, up)
<1>1. c = Cross(reply.st, a.to_upstream, a.to_app \o reply.to_app)
  BY DEF cross_dns, AppTo
<1>2. st.kind = "Dot" \/ (st.kind = "Doh" /\ st.proto # "H2")
  <2> DEFINE b == st.app_buf
             g == st.passthrough
  <2>1. st = DotSt(b, g, st) \/ (st.kind = "Doh" /\ st.proto # "H2")
    OBVIOUS
  <2> HIDE DEF st, b, g
  <2> QED
    BY <2>1 DEF DotSt
<1> DEFINE o == a.to_upstream
<1> HIDE DEF st, c, o
<1>3. reply.st = st
  BY <1>2 DEF on_upstream_data, doh_upstream_data, Cross
<1> HIDE DEF reply
<1>4. c.st = reply.st /\ c.to_upstream = o
  BY <1>1 DEF Cross, o
<1> QED
  BY <1>3, <1>4 DEF c, st, o

LEMMA DotCross ==
    ASSUME NEW s, Sound(s), s.kind = "dot", NEW last \in 0..Len(s.app), NEW k \in 0..last, NEW on,
           NEW p, Looks(s, on, k, p), NEW up
    PROVE  Crossed(s, on, Asked(s)[k].out, cross_dns(p, Slice(s.app, k, last), up), last)
<1> DEFINE app == Slice(s.app, k, last)
           u == Asked(s)[k].out
           a == AppTo(p, app)
           c == cross_dns(p, app, up)
           B == Bytes(s)
           held == Asked(s)[k].held
<1>0. s.app \in Seq(B) /\ last \in 0..last /\ u \in Seq(B)
  <2>1. last \in Nat
    BY AppIs DEF Sound
  <2> QED
    BY <2>1, AppIs, ReadSoFar DEF Sound
<1>1. p = DotSt(held, FALSE, p)
  BY DEF Looks
<1>2. \/ a.st = DotSt(<<>>, TRUE, a.st)
      \/ a.st = DotSt(Asked(s)[last].held, FALSE, a.st) /\ u \o a.to_upstream = Asked(s)[last].out
  <2>1. CASE app = <<>>
    <3>1. k = last
      BY <1>0, <2>1, NoData
    <3>2. a = Cross(p, <<>>, <<>>)
      BY <2>1 DEF AppTo
    <3> HIDE DEF a, u, held
    <3>3. a.st = p /\ a.to_upstream = <<>>
      BY <3>2 DEF Cross
    <3>4. u \o <<>> = u
      BY <1>0, StartsWith
    <3> QED
      BY <1>1, <3>1, <3>3, <3>4 DEF u, held
  <2>2. CASE app # <<>>
    <3>0. p.kind = "Dot"
      <4> HIDE DEF held
      <4> QED
        BY <1>1 DEF DotSt
    <3>1. a = dot_app_data(p, app)
      BY <2>2, <3>0 DEF AppTo, on_app_data
    <3>2. Fed("dot", s, Asked(s)[k].out, dot_app_data(p, Slice(s.app, k, last)), last)
      BY <1>1, DotFed
    <3>3. Fed("dot", s, u, a, last)
      <4> HIDE DEF a
      <4> QED
        BY <3>1, <3>2
    <3>4. Held(Asked(s)[last].held, s.app, last, last) = Asked(s)[last].held
      <4>2. Asked(s)[last].held \in Seq(Bytes(s))
        BY <1>0, ReadSoFar
      <4> QED
        BY <4>2, HeldAll
    <3> HIDE DEF a, u
    <3> QED
      BY <3>3, <3>4 DEF Fed, Lost, Stands, Written
  <2> QED
    BY <2>1, <2>2
<1> DEFINE t == a.st
           o == a.to_upstream
<1>3. t = DotSt(t.app_buf, t.passthrough, t)
  <2> DEFINE h == Asked(s)[last].held
  <2>1. t = DotSt(<<>>, TRUE, t) \/ t = DotSt(h, FALSE, t)
    BY <1>2
  <2> HIDE DEF t, h
  <2> QED
    BY <2>1 DEF DotSt
<1>4. c.st = t /\ c.to_upstream = o
  BY <1>3, DnsCrossIs
<1> HIDE DEF t, o, c, u
<1>5. t = DotSt(<<>>, TRUE, t) \/ (t = DotSt(Asked(s)[last].held, FALSE, t) /\ u \o o = Asked(s)[last].out)
  BY <1>2 DEF t, o
<1> QED
  BY <1>4, <1>5 DEF Crossed, Looks, LooksNot, c, u

LEMMA DohCross ==
    ASSUME NEW s, Sound(s), s.kind = "doh", ~ IsPrefix(PREFACE, s.app),
           NEW last \in 0..Len(s.app), NEW k \in 0..last, NEW on,
           NEW p, Looks(s, on, k, p), NEW up
    PROVE  Crossed(s, on, Asked(s)[k].out, cross_dns(p, Slice(s.app, k, last), up), last)
<1> DEFINE app == Slice(s.app, k, last)
           u == Asked(s)[k].out
           a == AppTo(p, app)
           c == cross_dns(p, app, up)
           B == Bytes(s)
<1>0. s.app \in Seq(B) /\ last \in 0..last /\ u \in Seq(B)
  <2>1. last \in Nat
    BY AppIs DEF Sound
  <2> QED
    BY <2>1, AppIs, ReadSoFar DEF Sound
<1>1. LooksDoh(s, p, k)
  BY DEF Looks
<1>2. \/ a.st = DohSt("H1", <<>>, TRUE, a.st)
      \/ LooksDoh(s, a.st, last) /\ u \o a.to_upstream = Asked(s)[last].out
  <2>1. CASE app = <<>>
    <3>1. k = last
      BY <1>0, <2>1, NoData
    <3>2. a = Cross(p, <<>>, <<>>)
      BY <2>1 DEF AppTo
    <3> HIDE DEF a, u
    <3>3. a.st = p /\ a.to_upstream = <<>>
      BY <3>2 DEF Cross
    <3>4. u \o <<>> = u
      BY <1>0, StartsWith
    <3> QED
      BY <1>1, <3>1, <3>3, <3>4 DEF u
  <2>2. CASE app # <<>>
    <3>0. p.kind = "Doh"
      <4> DEFINE proto == p.proto
                 held == Asked(s)[k].held
      <4>1. p = DohSt(proto, held, FALSE, p)
        BY <1>1 DEF LooksDoh
      <4> HIDE DEF proto, held
      <4> QED
        BY <4>1 DEF DohSt
    <3>1. a = doh_app_data(p, app)
      BY <2>2, <3>0 DEF AppTo, on_app_data
    <3>2. FedDoh(s, Asked(s)[k].out, doh_app_data(p, Slice(s.app, k, last)), last)
      BY <1>1, DohFed
    <3>3. FedDoh(s, u, a, last)
      <4> HIDE DEF a
      <4> QED
        BY <3>1, <3>2
    <3> HIDE DEF a, u
    <3> QED
      BY <3>3 DEF FedDoh, Lost
  <2> QED
    BY <2>1, <2>2
<1> DEFINE t == a.st
           o == a.to_upstream
<1>3. t.kind = "Doh" /\ t.proto # "H2"
  <2> DEFINE h == Asked(s)[last].held
             proto == t.proto
  <2>1. \/ t = DohSt("H1", <<>>, TRUE, t)
        \/ t = DohSt(proto, h, FALSE, t) /\ (proto = "H1" \/ proto = "Undecided")
    BY <1>2 DEF LooksDoh
  <2>2. CASE t = DohSt("H1", <<>>, TRUE, t)
    <3> HIDE DEF t
    <3> QED
      BY <2>2 DEF DohSt
  <2>3. CASE t = DohSt(proto, h, FALSE, t) /\ (proto = "H1" \/ proto = "Undecided")
    <3>1. t.proto = proto
      OBVIOUS
    <3> HIDE DEF t, h, proto
    <3>2. t.kind = "Doh"
      BY <2>3 DEF DohSt
    <3> QED
      BY <2>3, <3>1, <3>2
  <2> QED
    BY <2>1, <2>2, <2>3
<1>4. c.st = t /\ c.to_upstream = o
  BY <1>3, DnsCrossIs
<1> HIDE DEF t, o, c, u
<1>5. t = DohSt("H1", <<>>, TRUE, t) \/ (LooksDoh(s, t, last) /\ u \o o = Asked(s)[last].out)
  BY <1>2 DEF t, o
<1> QED
  BY <1>4, <1>5 DEF Crossed, Looks, LooksNot, c, u

LEMMA DotStays ==
    ASSUME NEW s, s.kind = "dot", NEW p, LooksNot(s, p), NEW app, NEW up
    PROVE  LooksNot(s, cross_dns(p, app, up).st)
<1> DEFINE a == AppTo(p, app)
           c == cross_dns(p, app, up)
           t == a.st
<1>1. p = DotSt(<<>>, TRUE, p)
  BY DEF LooksNot
<1>2. p.kind = "Dot" /\ p.passthrough = TRUE
  BY <1>1 DEF DotSt
<1>3. a.st = p
  BY <1>2 DEF AppTo, on_app_data, dot_app_data, Cross
<1>4. t = DotSt(t.app_buf, t.passthrough, t)
  <2>1. p.app_buf = <<>>
    BY <1>1 DEF DotSt
  <2>2. t = p
    BY <1>3
  <2> HIDE DEF t
  <2> QED
    BY <1>1, <1>2, <2>1, <2>2
<1>5. c.st = t
  BY <1>4, DnsCrossIs
<1> QED
  BY <1>1, <1>3, <1>5 DEF LooksNot

LEMMA DohStays ==
    ASSUME NEW s, s.kind = "doh", NEW p, LooksNot(s, p), NEW app, NEW up
    PROVE  LooksNot(s, cross_dns(p, app, up).st)
<1> DEFINE a == AppTo(p, app)
           c == cross_dns(p, app, up)
           t == a.st
<1>1. p = DohSt("H1", <<>>, TRUE, p)
  BY DEF LooksNot
<1>2. p.kind = "Doh" /\ p.h1_passthrough = TRUE /\ p.proto = "H1"
  BY <1>1 DEF DohSt
<1>3. t = DohSt("H1", <<>>, TRUE, t)
  <2>1. CASE app = <<>>
    <3>1. t = p
      BY <2>1 DEF AppTo, Cross
    <3> QED
      BY <1>1, <3>1
  <2>2. CASE app # <<>>
    <3> DEFINE y == [p EXCEPT !.app_buf = @ \o app]
               z == [y EXCEPT !.app_buf = <<>>]
    <3>1. a = doh_app_data(p, app)
      BY <1>2, <2>2 DEF AppTo, on_app_data
    <3>2. doh_app_data(p, app) = h1_feed(p, app)
      BY <1>2 DEF doh_app_data
    <3>3. y.h1_passthrough = TRUE /\ p.h1_passthrough = TRUE
      BY <1>1 DEF DohSt
    <3>4. h1_feed(p, app) = Cross(z, y.app_buf, <<>>)
      BY <3>3 DEF h1_feed
    <3>5. z = DohSt("H1", <<>>, TRUE, z)
      <4> DEFINE h2 == p.h2
                 q == p.up
                 pd == p.pending
                 bl == p.blocked
                 w == p.app_buf \o app
      <4>1. p = [kind |-> "Doh", proto |-> "H1", app_buf |-> <<>>, h2 |-> h2, up |-> q,
                 pending |-> pd, h1_passthrough |-> TRUE, blocked |-> bl]
        BY <1>1 DEF DohSt
      <4>2. y = [p EXCEPT !.app_buf = w]
        BY <4>1
      <4>3. z = [y EXCEPT !.app_buf = <<>>]
        OBVIOUS
      <4> HIDE DEF h2, q, pd, bl, w, y, z
      <4>4. y = [kind |-> "Doh", proto |-> "H1", app_buf |-> w, h2 |-> h2, up |-> q,
                 pending |-> pd, h1_passthrough |-> TRUE, blocked |-> bl]
        BY <4>1, <4>2
      <4>5. z = [kind |-> "Doh", proto |-> "H1", app_buf |-> <<>>, h2 |-> h2, up |-> q,
                 pending |-> pd, h1_passthrough |-> TRUE, blocked |-> bl]
        BY <4>3, <4>4
      <4> QED
        BY <4>5 DEF DohSt
    <3> HIDE DEF z, a
    <3>6. a.st = z
      BY <3>1, <3>2, <3>4 DEF Cross
    <3> QED
      BY <3>5, <3>6
  <2> QED
    BY <2>1, <2>2
<1>4. t.kind = "Doh" /\ t.proto # "H2"
  <2> HIDE DEF t
  <2> QED
    BY <1>3 DEF DohSt
<1>5. c.st = t
  BY <1>4, DnsCrossIs
<1> HIDE DEF c, t
<1> QED
  BY <1>3, <1>5 DEF LooksNot, c

-----------------------------------------------------------------------------
(* The steps *)

LEMMA DrainedIs ==
    ASSUME NEW p, HttpSt(p), NEW over
    PROVE  HttpSt(drained(p, over).p) /\ drained(p, over).p.rewriter = p.rewriter
<1> DEFINE t == p.tap
           w == p.rewriter
           d == drained(p, over).p
           tap == IF over THEN finish(p.tap) ELSE p.tap
           z == [tap EXCEPT !.completed = <<>>]
<1>1. p = [kind |-> "Http", tap |-> t, rewriter |-> w]
  BY DEF HttpSt
<1>2. p.kind = "Http"
  <2> HIDE DEF t, w
  <2> QED
    BY <1>1
<1>3. d = [p EXCEPT !.tap = z]
  BY <1>2 DEF drained
<1> HIDE DEF t, w, d, z
<1>4. d = [kind |-> "Http", tap |-> z, rewriter |-> w]
  BY <1>1, <1>3
<1>5. HttpSt(d) /\ d.rewriter = w
  BY <1>4 DEF HttpSt
<1> QED
  BY <1>5 DEF d, w

LEMMA ProvisionIs ==
    ASSUME NEW p, HttpSt(p)
    PROVE  /\ HttpSt(provision(p, TRUE))
           /\ provision(p, TRUE).rewriter = set_cosmetic(p.rewriter, script.payload)
<1> DEFINE t == p.tap
           w == p.rewriter
           v == set_cosmetic(p.rewriter, script.payload)
           d == provision(p, TRUE)
<1>1. p = [kind |-> "Http", tap |-> t, rewriter |-> w]
  BY DEF HttpSt
<1>2. p.kind = "Http"
  <2> HIDE DEF t, w
  <2> QED
    BY <1>1
<1>3. d = [p EXCEPT !.rewriter = v]
  BY <1>2 DEF provision
<1> HIDE DEF t, w, d, v
<1>4. d = [kind |-> "Http", tap |-> t, rewriter |-> v]
  BY <1>1, <1>3
<1>5. HttpSt(d) /\ d.rewriter = v
  BY <1>4 DEF HttpSt
<1> QED
  BY <1>5 DEF d, v

\* What comes behind the crossing turns it on, at the most.
LEMMA DrainedKeeps ==
    ASSUME script \in Scripts, NEW p, NEW over
    PROVE  /\ LooksNot(script, p) => LooksNot(script, drained(p, over).p)
           /\ \A on, k : Looks(script, on, k, p) => Looks(script, on, k, drained(p, over).p)
<1> DEFINE d == drained(p, over).p
<1>1. script.kind \in {"http", "dot", "doh"}
  BY AppIs
<1>2. CASE script.kind = "http"
  <2>1. HttpSt(p) => HttpSt(d) /\ d.rewriter = p.rewriter
    BY DrainedIs
  <2> HIDE DEF d
  <2> QED
    BY <1>2, <2>1 DEF Looks, LooksNot, d
<1>3. CASE script.kind = "dot"
  <2>1. ASSUME NEW buf, NEW off, p = DotSt(buf, off, p)
        PROVE  d = p
    <3>1. p.kind = "Dot"
      BY <2>1 DEF DotSt
    <3> QED
      BY <3>1 DEF drained
  <2> HIDE DEF d
  <2> QED
    BY <1>3, <2>1 DEF Looks, LooksNot, d
<1>4. CASE script.kind = "doh"
  <2>1. ASSUME NEW proto, NEW buf, NEW off, p = DohSt(proto, buf, off, p)
        PROVE  d = p
    <3>1. p.kind = "Doh"
      BY <2>1 DEF DohSt
    <3> QED
      BY <3>1 DEF drained
  <2>2. ASSUME NEW k, LooksDoh(script, p, k)
        PROVE  d = p
    <3> DEFINE proto == p.proto
               buf == Asked(script)[k].held
    <3>1. p = DohSt(proto, buf, FALSE, p)
      BY <2>2 DEF LooksDoh
    <3> HIDE DEF proto, buf, d
    <3> QED
      BY <2>1, <3>1
  <2> HIDE DEF d
  <2> QED
    BY <1>4, <2>1, <2>2 DEF Looks, LooksNot, d
<1> QED
  BY <1>1, <1>2, <1>3, <1>4

LEMMA ProvisionKeeps ==
    ASSUME script \in Scripts, NEW p
    PROVE  /\ LooksNot(script, p) => LooksNot(script, provision(p, TRUE))
           /\ \A on, k : Looks(script, on, k, p) => Looks(script, script.payload, k, provision(p, TRUE))
<1> DEFINE d == provision(p, TRUE)
<1>1. script.kind \in {"http", "dot", "doh"}
  BY AppIs
<1>2. CASE script.kind = "http"
  <2> DEFINE w == p.rewriter
             pay == script.payload
             v == set_cosmetic(w, pay)
  <2>1. HttpSt(p) => HttpSt(d) /\ d.rewriter = v
    BY ProvisionIs
  <2>2. RwLooksNot(w) => RwLooksNot(v)
    <3> HIDE DEF w, pay
    <3> QED
      BY LostStays
  <2>3. ASSUME NEW on, NEW k, RwLooks(script, on, k, w)
        PROVE  RwLooks(script, pay, k, v)
    <3> DEFINE left == Asked(script)[k].left
               held == Asked(script)[k].held
    <3>1. w = RwSt(on, FALSE, left, held, w) /\ v = [w EXCEPT !.active = pay]
      BY <2>3 DEF RwLooks, set_cosmetic
    <3> HIDE DEF left, held, w, pay, v
    <3>2. Flushed(on, FALSE, left, held, w, pay)
      BY <3>1, RwFlush
    <3>3. v = RwSt(pay, FALSE, left, held, v) /\ v.resp = w.resp /\ v.resp_buf = w.resp_buf
      BY <3>1, <3>2 DEF Flushed
    <3> QED
      BY <2>3, <3>3 DEF RwLooks, left, held
  <2> HIDE DEF d, v, w, pay
  <2> QED
    BY <1>2, <2>1, <2>2, <2>3 DEF Looks, LooksNot, d, w, pay
<1>3. CASE script.kind = "dot"
  <2>1. ASSUME NEW buf, NEW off, p = DotSt(buf, off, p)
        PROVE  d = p
    <3>1. p.kind = "Dot"
      BY <2>1 DEF DotSt
    <3> QED
      BY <3>1 DEF provision
  <2> HIDE DEF d
  <2> QED
    BY <1>3, <2>1 DEF Looks, LooksNot, d
<1>4. CASE script.kind = "doh"
  <2>1. ASSUME NEW proto, NEW buf, NEW off, p = DohSt(proto, buf, off, p)
        PROVE  d = p
    <3>1. p.kind = "Doh"
      BY <2>1 DEF DohSt
    <3> QED
      BY <3>1 DEF provision
  <2>2. ASSUME NEW k, LooksDoh(script, p, k)
        PROVE  d = p
    <3> DEFINE proto == p.proto
               buf == Asked(script)[k].held
    <3>1. p = DohSt(proto, buf, FALSE, p)
      BY <2>2 DEF LooksDoh
    <3> HIDE DEF proto, buf, d
    <3> QED
      BY <2>1, <3>1
  <2> HIDE DEF d
  <2> QED
    BY <1>4, <2>1, <2>2 DEF Looks, LooksNot, d
<1> QED
  BY <1>1, <1>2, <1>3, <1>4

LEMMA NotProvisioned ==
    ASSUME NEW p
    PROVE  provision(p, FALSE) = p
BY DEF provision

KindOf(s) == IF s.kind = "http" THEN "Http" ELSE IF s.kind = "dot" THEN "Dot" ELSE "Doh"

LEMMA KindIs ==
    ASSUME NEW s \in Scripts, NEW p, NEW on, NEW k, LooksNot(s, p) \/ Looks(s, on, k, p)
    PROVE  p.kind = KindOf(s)
<1>1. s.kind \in {"http", "dot", "doh"}
  BY AppIs
<1>2. CASE s.kind = "http"
  <2>1. HttpSt(p)
    BY <1>2 DEF Looks, LooksNot
  <2> DEFINE t == p.tap
             w == p.rewriter
  <2>2. p = [kind |-> "Http", tap |-> t, rewriter |-> w]
    BY <2>1 DEF HttpSt
  <2> HIDE DEF t, w
  <2> QED
    BY <1>2, <2>2 DEF KindOf
<1>3. CASE s.kind = "dot"
  <2> DEFINE h == Asked(s)[k].held
  <2>1. p = DotSt(<<>>, TRUE, p) \/ p = DotSt(h, FALSE, p)
    BY <1>3 DEF Looks, LooksNot
  <2> HIDE DEF h
  <2> QED
    BY <1>3, <2>1 DEF DotSt, KindOf
<1>4. CASE s.kind = "doh"
  <2> DEFINE h == Asked(s)[k].held
             proto == p.proto
  <2>1. p = DohSt("H1", <<>>, TRUE, p) \/ p = DohSt(proto, h, FALSE, p)
    BY <1>4 DEF Looks, LooksNot, LooksDoh
  <2> HIDE DEF h, proto
  <2> QED
    BY <1>4, <2>1 DEF DohSt, KindOf
<1> QED
  BY <1>1, <1>2, <1>3, <1>4

\* What is no longer looked at stays so, and what is looked at is read on.
ReadsOn(s, on, k, last, p, u, c) ==
    /\ LooksNot(s, p) => LooksNot(s, c.st)
    /\ Looks(s, on, k, p) /\ u = Asked(s)[k].out => Crossed(s, on, u, c, last)

LEMMA CrossKeeps ==
    ASSUME script \in Scripts, AsksFor(script),
           NEW last \in 0..Len(script.app), NEW k \in 0..last,
           NEW on \in BOOLEAN, on => script.payload, script.payload /\ ~on => k = last,
           LooksNot(script, plaintext) \/ Looks(script, on, k, plaintext),
           NEW up \in Seq(Heard(script)), NEW u
    PROVE  ReadsOn(script, on, k, last, plaintext, u, cross_plaintext(Slice(script.app, k, last), up))
<1> DEFINE s == script
           p == plaintext
           app == Slice(s.app, k, last)
           c == cross_plaintext(app, up)
           w == Asked(s)[k].out
<1>0. s \in Scripts
  OBVIOUS
<1>1. Sound(s) /\ s.kind \in {"http", "dot", "doh"}
  BY AppIs DEF AsksFor, Sound
<1>2. p.kind = KindOf(s)
  BY KindIs
<1>3. c = IF s.kind = "http" THEN cross_http(p, app, up) ELSE cross_dns(p, app, up)
  BY <1>1, <1>2 DEF cross_plaintext, KindOf
<1>4. s.kind = "doh" => ~ IsPrefix(PREFACE, s.app)
  BY DEF AsksFor
<1>5. (on => s.payload) /\ (s.payload /\ ~on => k = last)
  OBVIOUS
<1>6. last \in 0..Len(s.app) /\ up \in Seq(Heard(s))
  OBVIOUS
<1> HIDE DEF s, p
<1>7. LooksNot(s, p) => LooksNot(s, c.st)
  <2> SUFFICES ASSUME LooksNot(s, p)
               PROVE  LooksNot(s, c.st)
    OBVIOUS
  <2>1. CASE s.kind = "http"
    <3>1. LooksNot(s, cross_http(p, app, up).st)
      <4> HIDE DEF app
      <4> QED
        BY <2>1, HttpStays
    <3> QED
      BY <1>3, <2>1, <3>1
  <2>2. CASE s.kind = "dot"
    <3>1. LooksNot(s, cross_dns(p, app, up).st)
      <4> HIDE DEF app
      <4> QED
        BY <2>2, DotStays
    <3> QED
      BY <1>3, <2>2, <3>1
  <2>3. CASE s.kind = "doh"
    <3>1. LooksNot(s, cross_dns(p, app, up).st)
      <4> HIDE DEF app
      <4> QED
        BY <2>3, DohStays
    <3> QED
      BY <1>3, <2>3, <3>1
  <2> QED
    BY <1>1, <2>1, <2>2, <2>3
<1>8. ASSUME Looks(s, on, k, p), u = w
      PROVE  Crossed(s, on, u, c, last)
  <2>1. CASE s.kind = "http"
    <3>1. Crossed(s, on, Asked(s)[k].out, cross_http(p, Slice(s.app, k, last), up), last)
      BY <1>1, <1>5, <1>6, <1>8, <2>1, HttpCross
    <3>2. c = cross_http(p, Slice(s.app, k, last), up)
      BY <1>3, <2>1
    <3> HIDE DEF c
    <3> QED
      BY <1>8, <3>1, <3>2
  <2>2. CASE s.kind = "dot"
    <3>1. Crossed(s, on, Asked(s)[k].out, cross_dns(p, Slice(s.app, k, last), up), last)
      BY <1>1, <1>6, <1>8, <2>2, DotCross
    <3>2. c = cross_dns(p, Slice(s.app, k, last), up)
      BY <1>3, <2>2
    <3> HIDE DEF c
    <3> QED
      BY <1>8, <3>1, <3>2
  <2>3. CASE s.kind = "doh"
    <3>1. Crossed(s, on, Asked(s)[k].out, cross_dns(p, Slice(s.app, k, last), up), last)
      BY <1>1, <1>4, <1>6, <1>8, <2>3, DohCross
    <3>2. c = cross_dns(p, Slice(s.app, k, last), up)
      BY <1>3, <2>3
    <3> HIDE DEF c
    <3> QED
      BY <1>8, <3>1, <3>2
  <2> QED
    BY <1>1, <2>1, <2>2, <2>3
<1>9. ReadsOn(s, on, k, last, p, u, c)
  <2> HIDE DEF c
  <2> QED
    BY <1>7, <1>8 DEF ReadsOn
<1> QED
  BY <1>9 DEF s, p

LEMMA PumpKeeps ==
    ASSUME script \in Scripts, script' = script,
           NEW m \in 0..Len(AppRecords(script)), NEW j \in m..Len(AppRecords(script)), m = 0 => j = 1,
           NEW up \in Seq(Heard(script)),
           Crosses(Slice(script.app, Read(script, m), Read(script, j)), up, m = 0 /\ j > 0),
           ReadUpTo(m), AsksFor(script)
    PROVE  \/ LooksNot(script, plaintext')
           \/ /\ Looks(script, script.payload /\ j > 0, Read(script, j), plaintext')
              /\ to_upstream' = Asked(script)[Read(script, j)].out
<1> DEFINE N == Len(AppRecords(script))
           s == script
           k == Read(s, m)
           last == Read(s, j)
           on == s.payload /\ m > 0
           app == Slice(s.app, k, last)
           c == cross_plaintext(app, up)
           learned == m = 0 /\ j > 0
<1>1. m \in Nat /\ j \in Nat /\ m <= j
  <2>1. N \in Nat
    BY RecordsAre, LenProperties
  <2> HIDE DEF N
  <2>2. m \in 0..N /\ j \in m..N
    BY DEF N
  <2> QED
    BY <2>1, <2>2
<1>2. last \in 0..Len(s.app) /\ k \in 0..last
  BY <1>1, ReadGrows
<1>3. s.payload \in BOOLEAN /\ on \in BOOLEAN /\ (on => s.payload)
  BY AppIs
<1>4. s.payload /\ ~on => k = last
  BY <1>1 DEF Read
<1>5. LooksNot(s, plaintext) \/ (Looks(s, on, k, plaintext) /\ to_upstream = Asked(s)[k].out)
  BY DEF ReadUpTo
<1>6. ReadsOn(s, on, k, last, plaintext, to_upstream, c)
  <2> HIDE DEF k, last, on
  <2> QED
    BY <1>2, <1>3, <1>4, <1>5, CrossKeeps
<1>7. PICK over : plaintext' = provision(drained(c.st, over).p, learned) /\ to_upstream' = to_upstream \o c.to_upstream
  BY DEF Crosses
<1> HIDE DEF c, k, last, on
<1>8. LooksNot(s, c.st) \/ (Looks(s, on, last, c.st) /\ to_upstream' = Asked(s)[last].out)
  BY <1>5, <1>6, <1>7 DEF ReadsOn, Crossed
<1> DEFINE d == drained(c.st, over).p
<1>9. LooksNot(s, d) \/ (Looks(s, on, last, d) /\ to_upstream' = Asked(s)[last].out)
  BY <1>8, DrainedKeeps
<1> HIDE DEF d
<1>10. CASE m = 0
  <2>1. learned = TRUE /\ (s.payload /\ j > 0) = s.payload
    BY <1>1, <1>3, <1>10
  <2>2. plaintext' = provision(d, TRUE)
    BY <1>7, <2>1 DEF d
  <2>3. LooksNot(s, plaintext') \/ (Looks(s, s.payload, last, plaintext') /\ to_upstream' = Asked(s)[last].out)
    BY <1>9, <2>2, ProvisionKeeps
  <2> QED
    BY <2>1, <2>3 DEF last
<1>11. CASE m # 0
  <2>1. learned = FALSE /\ (s.payload /\ j > 0) = on
    BY <1>1, <1>3, <1>11 DEF on
  <2>2. plaintext' = d
    BY <1>7, <2>1, NotProvisioned DEF d
  <2>3. LooksNot(s, plaintext') \/ (Looks(s, on, last, plaintext') /\ to_upstream' = Asked(s)[last].out)
    BY <1>9, <2>2
  <2> QED
    BY <2>1, <2>3 DEF last
<1> QED
  BY <1>10, <1>11


LEMMA PrefixOfSum ==
    ASSUME NEW S, NEW s \in Seq(S), NEW t \in Seq(S)
    PROVE  IsPrefix(s, s \o t)
<1> DEFINE u == s \o t
           n == Len(s)
<1>1. Spliced(S, s, t, u)
  BY Concatenated
<1> HIDE DEF u
<1>2. /\ u \in Seq(S) /\ n \in Nat /\ Len(t) \in Nat /\ Len(u) = n + Len(t)
      /\ \A i \in 1..n : u[i] = s[i]
  BY <1>1 DEF Spliced
<1> HIDE DEF n
<1>3. n <= Len(u) /\ 1 \in Nat /\ 1 <= n + 1 /\ n - 1 + 1 = n /\ \A i \in 1..n : 1 + i - 1 = i
  BY <1>2
<1>4. SubSeq(u, 1, n) \in Seq(S) /\ Len(SubSeq(u, 1, n)) = n /\ \A i \in 1..n : SubSeq(u, 1, n)[i] = u[i]
  BY <1>2, <1>3, Part
<1>5. SubSeq(s, 1, n) \in Seq(S) /\ Len(SubSeq(s, 1, n)) = n /\ \A i \in 1..n : SubSeq(s, 1, n)[i] = s[i]
  <2>1. n <= Len(s)
    BY <1>2 DEF n
  <2> QED
    BY <1>2, <1>3, <2>1, Part
<1>6. SubSeq(s, 1, n) = SubSeq(u, 1, n)
  <2> DEFINE v == SubSeq(s, 1, n)
             w == SubSeq(u, 1, n)
  <2>1. Len(v) = Len(w) /\ \A i \in 1..Len(v) : v[i] = w[i]
    BY <1>2, <1>4, <1>5
  <2>2. v \in Seq(S) /\ w \in Seq(S)
    BY <1>4, <1>5
  <2> HIDE DEF v, w
  <2>3. v = w
    BY <2>1, <2>2, SeqEqual
  <2> QED
    BY <2>3 DEF v, w
<1> QED
  BY <1>3, <1>6 DEF IsPrefix, u, n

LEMMA InitSplice ==
    Init => SpliceInv
<1> SUFFICES ASSUME Init
             PROVE  SpliceInv
  OBVIOUS
<1> DEFINE s == script
           r == AppRecords(s)
           N == Len(r)
           p == PlaintextNew(s)
<1>1. s \in Scripts /\ app_tls = r /\ sent = 0 /\ app_hs = "hello" /\ up_hs = "none" /\ ~app_closed
      /\ ~cert_rejected /\ plaintext = p /\ to_upstream = <<>>
  BY DEF Init
<1>2. r \in Seq(Told(s)) /\ N \in Nat /\ 0 \in 0..N
  BY <1>1, RecordsAre, LenProperties
<1>3. Sessions(0)
  <2>1. Slices(Told(s), r, 0, N)
    <3>1. N \in 0..Len(r) /\ 0 \in 0..N
      BY <1>2
    <3> HIDE DEF r, N
    <3> QED
      BY <1>2, <3>1, SliceIs
  <2>2. Slice(r, 0, N) = r
    <3> DEFINE w == Slice(r, 0, N)
    <3>1. w \in Seq(Told(s)) /\ Len(w) = N /\ \A i \in 1..N : w[i] = r[i]
      BY <1>2, <2>1 DEF Slices
    <3> HIDE DEF w, r
    <3>2. w = r
      BY <1>2, <3>1, SeqEqual
    <3> QED
      BY <3>2 DEF w
  <2> HIDE DEF r
  <2> QED
    BY <1>1, <2>2 DEF Sessions, r
<1>4. ReadUpTo(0)
  <2> SUFFICES ASSUME AsksFor(s)
               PROVE  Looks(s, s.payload /\ 0 > 0, Read(s, 0), plaintext) /\ to_upstream = Asked(s)[Read(s, 0)].out
    BY DEF ReadUpTo
  <2>1. Sound(s)
    BY <1>1 DEF AsksFor, Sound
  <2>2. Asked(s)[0] = NothingAsked
    BY <2>1, AskedSound
  <2>3. Read(s, 0) = 0 /\ (s.payload /\ 0 > 0) = FALSE
    BY DEF Read
  <2>4. Asked(s)[0].held = <<>> /\ Asked(s)[0].left = 0 /\ Asked(s)[0].out = <<>>
    BY <2>2 DEF NothingAsked
  <2>5. s.kind \in {"http", "dot", "doh"} /\ 0 \in 0..Len(s.app) /\ s.app \in Seq(Bytes(s))
    BY <1>1, AppIs
  <2>6. p = CASE s.kind = "http" -> HttpNew [] s.kind = "dot" -> DotNew [] s.kind = "doh" -> DohNew
    BY DEF PlaintextNew
  <2> HIDE DEF s, p
  <2>7. Looks(s, FALSE, 0, p)
    <3>1. CASE s.kind = "http"
      <4>1. p = HttpNew
        BY <2>6, <3>1
      <4>2. HttpSt(p) /\ p.rewriter = HttpRewriterNew
        BY <4>1 DEF HttpNew, HttpSt
      <4>3. HttpRewriterNew = RwSt(FALSE, FALSE, 0, <<>>, HttpRewriterNew)
        BY DEF HttpRewriterNew, RwSt
      <4>4. Hears(Heard(s), NoResponse, <<>>)
        <5>1. <<>> \in Seq(Heard(s))
          BY EmptySeq
        <5>2. NoResponse = [phase |-> NoResponse.phase, head |-> NoResponse.head, scan |-> NoResponse.scan,
                            body |-> NoResponse.body, body_done |-> NoResponse.body_done]
              /\ NoResponse.phase = "Head"
          BY DEF NoResponse
        <5> QED
          BY <5>1, <5>2 DEF Hears
      <4>5. HttpRewriterNew.resp = NoResponse /\ HttpRewriterNew.resp_buf = <<>>
        BY DEF HttpRewriterNew
      <4>6. RwLooks(s, FALSE, 0, p.rewriter)
        BY <2>4, <4>2, <4>3, <4>4, <4>5 DEF RwLooks
      <4> QED
        BY <3>1, <4>2, <4>6 DEF Looks
    <3>2. CASE s.kind = "dot"
      <4>1. p = DotNew
        BY <2>6, <3>2
      <4>2. DotNew = DotSt(<<>>, FALSE, DotNew)
        BY DEF DotNew, DotSt
      <4> QED
        BY <2>4, <3>2, <4>1, <4>2 DEF Looks
    <3>3. CASE s.kind = "doh"
      <4>1. p = DohNew
        BY <2>6, <3>3
      <4>2. DohNew = DohSt("Undecided", <<>>, FALSE, DohNew) /\ DohNew.proto = "Undecided"
        BY DEF DohNew, DohSt
      <4>3. Slice(s.app, 0, 0) = <<>>
        BY <2>5, NoSlice
      <4>4. LooksDoh(s, p, 0)
        BY <2>4, <4>1, <4>2, <4>3 DEF LooksDoh
      <4> QED
        BY <3>3, <4>4 DEF Looks
    <3> QED
      BY <2>5, <3>1, <3>2, <3>3
  <2> QED
    BY <1>1, <2>3, <2>4, <2>7
<1>5. PinMeansRefusal
  BY <1>1 DEF PinMeansRefusal
<1> HIDE DEF s, r, N, p
<1> QED
  BY <1>1, <1>2, <1>3, <1>4, <1>5 DEF SpliceInv, s, r, N

LEMMA DriveKeeps ==
    ASSUME SpliceInv, drive_mitm
    PROVE  SpliceInv'
<1> DEFINE N == Len(AppRecords(script))
<1>1. /\ script \in Scripts /\ sent \in Nat /\ ~closed /\ ~cert_rejected /\ script' = script
  BY DEF SpliceInv, drive_mitm
<1>2. PICK m \in 0..N : /\ Sessions(m) /\ ReadUpTo(m)
                        /\ app_closed => script.trusts /\ m = N
  BY <1>1 DEF SpliceInv
<1>3. PICK c \in service \cup Breaks \cup Accepts \cup on_readable :
        app_tls' = c.app_tls /\ sent' = c.sent /\ pump(c.app, c.up)
  BY DEF drive_mitm
<1>4. Comes(m, c)
  <2>1. CASE c \in service
    BY <1>1, <1>2, <2>1, ServiceComes
  <2>2. CASE c \in Breaks
    BY <1>1, <2>2, BreaksComes
  <2>3. CASE c \in Accepts
    BY <1>1, <2>3, AcceptsComes
  <2>4. CASE c \in on_readable
    BY <1>1, <2>4, AnswersCome
  <2> QED
    BY <1>3, <2>1, <2>2, <2>3, <2>4
<1>5. PICK j : Pumped(m, j, c)
  <2>1. CASE Broken(c)
    BY <1>1, <1>2, <1>3, <2>1, BreakPumps
  <2>2. CASE FromServerOnly(c)
    BY <1>1, <1>2, <1>3, <2>2, ServerPumps
  <2>3. CASE \E i \in (m + 1)..N : FromAppTo(m, i, c)
    <3>1. PICK i \in (m + 1)..N : FromAppTo(m, i, c)
      BY <2>3
    <3> QED
      BY <1>1, <1>2, <1>3, <3>1, AppPumps
  <2> QED
    BY <1>4, <2>1, <2>2, <2>3 DEF Comes
<1>6. ReadUpTo(j)'
  <2>1. AsksFor(script)' <=> AsksFor(script)
    BY <1>1 DEF AsksFor
  <2>2. SUFFICES ASSUME AsksFor(script)
                 PROVE  \/ LooksNot(script, plaintext')
                        \/ /\ Looks(script, script.payload /\ j > 0, Read(script, j), plaintext')
                           /\ to_upstream' = Asked(script)[Read(script, j)].out
    BY <1>1, <2>1 DEF ReadUpTo
  <2>3. CASE j = m /\ UNCHANGED crossing
    BY <1>2, <2>2, <2>3 DEF ReadUpTo, crossing
  <2>4. CASE /\ Data(c.up) \in Seq(Heard(script))
             /\ Crosses(Slice(script.app, Read(script, m), Read(script, j)), Data(c.up), m = 0 /\ j > 0)
             /\ m = 0 => j = 1
    <3>1. j \in m..N
      BY <1>5 DEF Pumped
    <3> QED
      BY <1>1, <1>2, <2>2, <2>4, <3>1, PumpKeeps
  <2> QED
    BY <1>5, <2>3, <2>4 DEF Pumped
<1>7. /\ ~closed' => Sessions(j)'
      /\ app_closed' => script.trusts /\ j = N
      /\ cert_rejected' => closed' /\ app_hs' # "open" /\ (app_tls' = <<>> \/ ~script.sni)
      /\ j \in m..N
  BY <1>5 DEF Pumped
<1>8. j \in 0..N /\ sent' \in Nat
  <2>1. N \in Nat
    BY <1>1, RecordsAre, LenProperties
  <2>2. c.sent \in Nat
    BY <1>4 DEF Comes
  <2> HIDE DEF N
  <2> QED
    BY <1>2, <1>3, <1>7, <2>1, <2>2
<1>9. AppRecords(script)' = AppRecords(script)
  BY <1>1 DEF AppRecords
<1>10. PinMeansRefusal'
  BY <1>1, <1>7 DEF PinMeansRefusal
<1> QED
  BY <1>1, <1>6, <1>7, <1>8, <1>9, <1>10 DEF SpliceInv

LEMMA TeardownKeeps ==
    ASSUME SpliceInv, teardown_tcp
    PROVE  SpliceInv'
<1> DEFINE N == Len(AppRecords(script))
<1>1. /\ script \in Scripts /\ sent \in Nat /\ PinMeansRefusal
      /\ script' = script /\ sent' = sent /\ closed' = TRUE /\ app_closed' = app_closed
      /\ cert_rejected' = cert_rejected /\ app_hs' = app_hs /\ app_tls' = app_tls
      /\ to_upstream' = to_upstream /\ plaintext' = drained(plaintext, TRUE).p
  BY DEF SpliceInv, teardown_tcp
<1>2. PICK m \in 0..N : /\ ReadUpTo(m)
                        /\ app_closed => script.trusts /\ m = N
  BY DEF SpliceInv
<1>3. ReadUpTo(m)'
  <2>1. AsksFor(script)' <=> AsksFor(script)
    BY <1>1 DEF AsksFor
  <2>2. SUFFICES ASSUME AsksFor(script)
                 PROVE  \/ LooksNot(script, plaintext')
                        \/ /\ Looks(script, script.payload /\ m > 0, Read(script, m), plaintext')
                           /\ to_upstream' = Asked(script)[Read(script, m)].out
    BY <1>1, <2>1 DEF ReadUpTo
  <2>3. \/ LooksNot(script, plaintext)
        \/ /\ Looks(script, script.payload /\ m > 0, Read(script, m), plaintext)
           /\ to_upstream = Asked(script)[Read(script, m)].out
    BY <1>2, <2>2 DEF ReadUpTo
  <2> QED
    BY <1>1, <2>3, DrainedKeeps
<1>4. AppRecords(script)' = AppRecords(script)
  BY <1>1 DEF AppRecords
<1>5. PinMeansRefusal'
  BY <1>1 DEF PinMeansRefusal
<1> QED
  BY <1>1, <1>2, <1>3, <1>4, <1>5 DEF SpliceInv

LEMMA SpliceIsInductive ==
    ASSUME SpliceInv, [Next]_vars
    PROVE  SpliceInv'
<1>1. CASE drive_mitm
  BY <1>1, DriveKeeps
<1>2. CASE teardown_tcp
  BY <1>2, TeardownKeeps
<1>3. CASE UNCHANGED vars
  <2>1. /\ script' = script /\ sent' = sent /\ closed' = closed /\ app_closed' = app_closed
        /\ cert_rejected' = cert_rejected /\ app_hs' = app_hs /\ up_hs' = up_hs /\ app_tls' = app_tls
        /\ to_upstream' = to_upstream /\ plaintext' = plaintext
    BY <1>3 DEF vars, sessions, crossing
  <2>2. PICK m \in 0..Len(AppRecords(script)) :
          /\ ~closed => Sessions(m)
          /\ app_closed => script.trusts /\ m = Len(AppRecords(script))
          /\ ReadUpTo(m)
    BY DEF SpliceInv
  <2>3. AppRecords(script)' = AppRecords(script)
    BY <2>1 DEF AppRecords
  <2>4. ~closed' => Sessions(m)'
    BY <2>1, <2>2, <2>3 DEF Sessions
  <2>5. AsksFor(script)' <=> AsksFor(script)
    BY <2>1 DEF AsksFor
  <2>6. ReadUpTo(m)'
    BY <2>1, <2>2, <2>5 DEF ReadUpTo
  <2>7. PinMeansRefusal'
    BY <2>1 DEF SpliceInv, PinMeansRefusal
  <2> QED
    BY <2>1, <2>2, <2>3, <2>4, <2>6, <2>7 DEF SpliceInv
<1> QED
  BY <1>1, <1>2, <1>3 DEF Next

-----------------------------------------------------------------------------
(* The theorems *)

\* In every reachable state the sessions, and what handles the plaintext, are as the
\* records that have come make them: drive_mitm and pump take them in order, whole, and
\* however they were cut.
THEOREM SpliceCorrect == Spec => []SpliceInv
<1>1. Init => SpliceInv
  BY InitSplice
<1>2. SpliceInv /\ [Next]_vars => SpliceInv'
  BY SpliceIsInductive
<1> QED
  BY <1>1, <1>2, PTL DEF Spec

\* An app is taken to have refused the leaf (mark_failed, note_pin_if_rejected) only when
\* it broke off before its session opened and has nothing more to send, or named no
\* server: a server that fails, and an app that breaks off later, are not taken for it.
THEOREM PinsMeanRefusal == Spec => []PinMeansRefusal
<1>1. SpliceInv => PinMeansRefusal
  BY DEF SpliceInv
<1> QED
  BY <1>1, SpliceCorrect, PTL

\* What cross_plaintext has passed to the server is at each moment a prefix of what the
\* app's plaintext comes to when it is read byte by byte, and all of it once the app has
\* closed, whatever the segments and whatever the server answers meanwhile, unless the
\* plaintext is no longer looked at.
THEOREM AsksAreExact == Spec => [](AsksFor(script) /\ ~GivenUp => AskedExact)
<1>1. SpliceInv => (AsksFor(script) /\ ~GivenUp => AskedExact)
  <2> SUFFICES ASSUME SpliceInv, AsksFor(script), ~GivenUp
               PROVE  AskedExact
    OBVIOUS
  <2> DEFINE s == script
             N == Len(AppRecords(s))
             B == Bytes(s)
  <2>1. PICK m \in 0..N : ReadUpTo(m) /\ (app_closed => s.trusts /\ m = N)
    BY DEF SpliceInv
  <2>2. s \in Scripts /\ Sound(s)
    BY DEF SpliceInv, AsksFor, Sound
  <2>3. s.kind \in {"http", "dot", "doh"} /\ Len(s.app) \in Nat /\ N \in Nat
        /\ N = (IF s.trusts THEN Len(s.app) + 3 ELSE 2)
    BY <2>2, AppIs, RecordsAre, LenProperties
  <2>4. ~ LooksNot(s, plaintext)
    <3> SUFFICES ASSUME LooksNot(s, plaintext)
                 PROVE  GivenUp
      OBVIOUS
    <3>1. plaintext.kind = KindOf(s)
      BY <2>2, KindIs
    <3>2. CASE s.kind = "http"
      <4> DEFINE rw == plaintext.rewriter
      <4>1. rw = RwSt(rw.active, TRUE, rw.req, rw.req_buf, rw)
        BY <3>2 DEF LooksNot, RwLooksNot
      <4>2. rw.disabled = TRUE
        <5> HIDE DEF rw
        <5> QED
          BY <4>1 DEF RwSt
      <4> QED
        BY <3>1, <3>2, <4>2 DEF KindOf, GivenUp
    <3>3. CASE s.kind = "dot"
      <4>1. plaintext.passthrough = TRUE
        BY <3>3 DEF LooksNot, DotSt
      <4> QED
        BY <3>1, <3>3, <4>1 DEF KindOf, GivenUp
    <3>4. CASE s.kind = "doh"
      <4>1. plaintext.h1_passthrough = TRUE
        BY <3>4 DEF LooksNot, DohSt
      <4> QED
        BY <3>1, <3>4, <4>1 DEF KindOf, GivenUp
    <3> QED
      BY <2>3, <3>2, <3>3, <3>4
  <2> DEFINE k == Read(s, m)
             l == Len(s.app)
             out == Asked(s)[k].out
             all == Asked(s)[l].out
  <2>5. to_upstream = out /\ s.asked = all
    BY <2>1, <2>4 DEF ReadUpTo, AsksFor
  <2>6. k \in 0..l /\ l \in 0..l
    BY <2>1, <2>2, <2>3, ReadGrows
  <2>7. out \in Seq(B)
    BY <2>2, <2>6, ReadSoFar
  <2>8. IsPrefix(out, all)
    <3>1. Extends(B, Asked(s)[k], Asked(s)[l])
      BY <2>2, <2>6, OutGrows
    <3>2. PICK w \in Seq(B) : all = out \o w
      BY <3>1 DEF Extends
    <3> HIDE DEF out, all
    <3> QED
      BY <2>7, <3>2, PrefixOfSum
  <2>9. app_closed => out = all
    <3> SUFFICES ASSUME app_closed
                 PROVE  k = l
      OBVIOUS
    <3>1. s.trusts /\ m = l + 3 /\ l \in Nat
      BY <2>1, <2>3
    <3>2. ~ (m < 2) /\ m > l + 2
      BY <3>1
    <3> QED
      BY <3>1, <3>2 DEF Read
  <2> HIDE DEF k, l, out, all
  <2>10. IsPrefix(to_upstream, s.asked) /\ (app_closed => to_upstream = s.asked)
    BY <2>5, <2>8, <2>9
  <2> QED
    BY <2>10 DEF AskedExact
<1> QED
  BY <1>1, SpliceCorrect, PTL
=============================================================================
