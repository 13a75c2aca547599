----------------------------- MODULE InputProofs -----------------------------
(***************************************************************************)
(* Proofs about Input, for packets of any length and number, a queue of    *)
(* any capacity and any number of gamepads: input_recv_raw keeps every     *)
(* byte in its place (EveryByteInOrder), input_destroy closes every device *)
(* but one that was just being created (AtMostOneLeaks), and a device ends *)
(* up showing the last packet sent for it (LastPacketShows).               *)
(*                                                                         *)
(* The byte streams are compared with Joined, which is recursive: the      *)
(* first two sections show what it does at either end of a sequence.  The  *)
(* last proof follows whole packets: each chunk of the queue is a run of   *)
(* the packets sent (Packs), and PacketsInv says which.                    *)
(***************************************************************************)
EXTENDS Input, WellFoundedInduction, TLAPS

-----------------------------------------------------------------------------
(* Sequences of sequences *)

\* What the chunks in the queue, and the packets, are as sequences.
LEMMA EmptySeq ==
    ASSUME NEW S
    PROVE  << >> \in Seq(S) /\ Len(<< >>) = 0 /\ \A s \in Seq(S) : s # << >> => Len(s) \in Nat \ {0}
OBVIOUS

\* Two byte streams are equal when they agree byte by byte.
LEMMA SeqEqual ==
    ASSUME NEW S, NEW s \in Seq(S), NEW t \in Seq(S),
           Len(s) = Len(t), \A i \in 1 .. Len(s) : s[i] = t[i]
    PROVE  s = t
OBVIOUS

\* Adding a chunk to the queue, or a packet to those handled.
LEMMA AppendOne ==
    ASSUME NEW S, NEW s \in Seq(S), NEW e \in S
    PROVE  /\ Append(s, e) \in Seq(S) /\ Append(s, e) # << >> /\ Len(Append(s, e)) = Len(s) + 1
           /\ Append(s, e)[Len(s) + 1] = e /\ \A i \in 1 .. Len(s) : Append(s, e)[i] = s[i]
OBVIOUS

\* Taking the first chunk from the queue leaves the others one place further on.
LEMMA WithoutFirst ==
    ASSUME NEW S, NEW s \in Seq(S), s # << >>
    PROVE  /\ Head(s) \in S /\ Tail(s) \in Seq(S) /\ Len(Tail(s)) = Len(s) - 1
           /\ \A i \in 1 .. Len(s) - 1 : Tail(s)[i] = s[i + 1]
OBVIOUS

\* A sequence that is not empty has a last element.
LEMMA LastOne ==
    ASSUME NEW S, NEW s \in Seq(S), s # << >>
    PROVE  \E r \in Seq(S), e \in S : s = Append(r, e)
<1> DEFINE m == Len(s) - 1
           r == SubSeq(s, 1, m)
           e == s[m + 1]
<1>1. m \in Nat /\ Len(s) = m + 1
  BY EmptySeq
<1> HIDE DEF m
<1>2. r \in Seq(S) /\ Len(r) = m /\ \A i \in 1 .. m : r[i] = s[i]
  BY <1>1
<1>3. e \in S
  BY <1>1
<1> HIDE DEF r
<1>4. /\ Append(r, e) \in Seq(S) /\ Len(Append(r, e)) = m + 1
      /\ \A i \in 1 .. m + 1 : Append(r, e)[i] = s[i]
  BY <1>1, <1>2, <1>3, AppendOne
<1>5. s = Append(r, e)
  BY <1>1, <1>4, SeqEqual
<1> QED BY <1>2, <1>3, <1>5

\* Appending comes after taking the first away.
LEMMA FirstAndLast ==
    ASSUME NEW S, NEW s \in Seq(S), NEW e \in S, s # << >>
    PROVE  Head(Append(s, e)) = Head(s) /\ Tail(Append(s, e)) = Append(Tail(s), e)
OBVIOUS

\* Lengths add up.
LEMMA CatLength ==
    ASSUME NEW S, NEW s \in Seq(S), NEW t \in Seq(S)
    PROVE  s \o t \in Seq(S) /\ Len(s \o t) = Len(s) + Len(t)
OBVIOUS

-----------------------------------------------------------------------------
(* Joined *)

\* A set of numbers that is not empty has a least one: what the inductions
\* below rest on.
LEMMA LeastNumber ==
    ASSUME NEW T \in SUBSET Nat, T # {}
    PROVE  \E x \in T : \A y \in T : x <= y
<1>1. IsWellFoundedOn(OpToRel(<, Nat), Nat)
  BY NatLessThanWellFounded, Zenon
<1>2. PICK x \in T : \A y \in T : ~(<<y, x>> \in OpToRel(<, Nat))
  BY <1>1, WFMin, Zenon
<1>3. ASSUME NEW y \in T PROVE x <= y
  <2>1. ~(<<y, x>> \in OpToRel(<, Nat))
    BY <1>2, Zenon
  <2>2. ~(y < x)
    BY <2>1 DEF OpToRel
  <2> QED BY <2>2
<1> QED BY <1>3

\* f gives the bytes of the first i parts of s, for i up to n.
Partial(f, s, n) == f = [i \in 0 .. n |-> IF i = 0 THEN << >> ELSE f[i - 1] \o s[i]]

\* There is such a function for every n.
LEMMA PartialExists ==
    ASSUME NEW s, NEW n \in Nat
    PROVE  \E f : Partial(f, s, n)
<1> DEFINE T == {m \in Nat : ~\E f : Partial(f, s, m)}
<1> SUFFICES ASSUME T # {} PROVE FALSE
  OBVIOUS
<1>1. PICK m \in T : \A y \in T : m <= y
  BY LeastNumber, Zenon
<1>2. m \in Nat /\ ~\E f : Partial(f, s, m)
  OBVIOUS
<1>3. m # 0
  <2> DEFINE f == [i \in 0 .. 0 |-> << >>]
  <2>1. f = [i \in 0 .. 0 |-> IF i = 0 THEN << >> ELSE f[i - 1] \o s[i]]
    OBVIOUS
  <2>2. Partial(f, s, 0)
    BY <2>1 DEF Partial
  <2> QED BY <1>2, <2>2
<1>4. m - 1 \in Nat /\ m - 1 \notin T
  BY <1>1, <1>2, <1>3
<1>5. PICK f : Partial(f, s, m - 1)
  BY <1>4
<1> DEFINE g == [i \in 0 .. m |-> IF i = 0 THEN << >> ELSE f[i - 1] \o s[i]]
<1>6. \A i \in 0 .. m - 1 : g[i] = f[i]
  <2>1. \A i \in 0 .. m - 1 : f[i] = IF i = 0 THEN << >> ELSE f[i - 1] \o s[i]
    BY <1>5, Zenon DEF Partial
  <2>2. \A i \in 0 .. m - 1 : i \in 0 .. m
    BY <1>2
  <2> QED BY <2>1, <2>2, Zenon
<1>7. \A i \in 0 .. m : i # 0 => i - 1 \in 0 .. m - 1
  BY <1>2
<1>8. Partial(g, s, m)
  BY <1>2, <1>6, <1>7, Zenon DEF Partial
<1> QED BY <1>2, <1>8

\* Joined takes the last value of such a function.
LEMMA JoinedPartial ==
    ASSUME NEW s, Len(s) \in Nat
    PROVE  \E f : Partial(f, s, Len(s)) /\ Joined(s) = f[Len(s)]
<1> DEFINE g == CHOOSE f : f = [i \in 0 .. Len(s) |-> IF i = 0 THEN << >> ELSE f[i - 1] \o s[i]]
<1>1. Partial(g, s, Len(s))
  BY PartialExists, Zenon DEF Partial
<1>2. Joined(s) = g[Len(s)]
  BY DEF Joined
<1> QED BY <1>1, <1>2, Zenon

\* t goes on where s ends.
Extends(s, m, t, n) == m \in Nat /\ n \in Nat /\ m <= n /\ \A i \in 1 .. m : s[i] = t[i]

\* Two such functions agree as long as their sequences do.
LEMMA PartialAgree ==
    ASSUME NEW s, NEW t, NEW m, NEW n, NEW f, NEW g,
           Partial(f, s, m), Partial(g, t, n), Extends(s, m, t, n)
    PROVE  f[m] = g[m]
<1>1. m \in Nat /\ n \in Nat /\ m <= n /\ \A i \in 1 .. m : s[i] = t[i]
  BY DEF Extends
<1> DEFINE T == {i \in 0 .. m : f[i] # g[i]}
<1>a. CASE T = {}
  BY <1>1, <1>a
<1>b. CASE T # {}
  <2>0. T \in SUBSET Nat
    OBVIOUS
  <2>1. PICK k \in T : \A y \in T : k <= y
    BY <1>b, <2>0, LeastNumber, Zenon
  <2>2. k \in 0 .. m /\ k \in 0 .. n /\ f[k] # g[k]
    BY <1>1
  <2>3. f[k] = IF k = 0 THEN << >> ELSE f[k - 1] \o s[k]
    BY <2>2, Zenon DEF Partial
  <2>4. g[k] = IF k = 0 THEN << >> ELSE g[k - 1] \o t[k]
    BY <2>2, Zenon DEF Partial
  <2>5. k # 0 => f[k - 1] = g[k - 1] /\ s[k] = t[k]
    <3>1. k # 0 => k \in 1 .. m /\ k - 1 \in 0 .. m /\ ~(k <= k - 1)
      BY <1>1, <2>2
    <3> QED BY <1>1, <2>1, <3>1
  <2> HIDE DEF T
  <2> QED BY <2>2, <2>3, <2>4, <2>5
<1> QED BY <1>a, <1>b

\* The chunks of the queue, and the packets sent or handled, join to bytes.
LEMMA JoinedType ==
    ASSUME NEW S, NEW s \in Seq(Seq(S))
    PROVE  Joined(s) \in Seq(S)
<1>1. Len(s) \in Nat
  OBVIOUS
<1>2. PICK f : Partial(f, s, Len(s)) /\ Joined(s) = f[Len(s)]
  BY <1>1, JoinedPartial
<1> DEFINE T == {i \in 0 .. Len(s) : f[i] \notin Seq(S)}
<1>3. CASE T = {}
  BY <1>1, <1>2, <1>3
<1>4. CASE T # {}
  <2>1. T \in SUBSET Nat
    OBVIOUS
  <2>2. PICK k \in T : \A y \in T : k <= y
    BY <1>4, <2>1, LeastNumber, Zenon
  <2>3. k \in 0 .. Len(s) /\ f[k] \notin Seq(S)
    OBVIOUS
  <2>4. f[k] = IF k = 0 THEN << >> ELSE f[k - 1] \o s[k]
    BY <1>2, <2>3, Zenon DEF Partial
  <2>5. << >> \in Seq(S)
    OBVIOUS
  <2>6. k # 0 => f[k - 1] \in Seq(S)
    <3>1. k # 0 => k - 1 \in 0 .. Len(s) /\ ~(k <= k - 1)
      BY <1>1, <2>3
    <3> QED BY <2>2, <3>1
  <2>7. k # 0 => s[k] \in Seq(S)
    <3>1. k # 0 => k \in 1 .. Len(s)
      BY <1>1, <2>3
    <3> QED BY <3>1
  <2>8. k # 0 => f[k - 1] \o s[k] \in Seq(S)
    BY <2>6, <2>7
  <2> HIDE DEF T
  <2> QED BY <2>3, <2>4, <2>5, <2>8
<1> QED BY <1>3, <1>4

\* No chunks, no bytes.
LEMMA JoinedEmpty == Joined(<< >>) = << >>
<1>1. Len(<< >>) = 0
  OBVIOUS
<1>2. PICK f : Partial(f, << >>, 0) /\ Joined(<< >>) = f[0]
  <2>1. Len(<< >>) \in Nat
    BY <1>1
  <2>2. \E f : Partial(f, << >>, Len(<< >>)) /\ Joined(<< >>) = f[Len(<< >>)]
    BY <2>1, JoinedPartial, Zenon
  <2> QED BY <1>1, <2>2
<1>3. 0 \in 0 .. 0
  OBVIOUS
<1>4. f[0] = IF 0 = 0 THEN << >> ELSE f[0 - 1] \o << >>[0]
  BY <1>2, <1>3, Zenon DEF Partial
<1> QED BY <1>2, <1>4

\* Queuing a chunk, sending a packet, handling a packet: its bytes come last.
LEMMA JoinedAppend ==
    ASSUME NEW S, NEW s \in Seq(Seq(S)), NEW x \in Seq(S)
    PROVE  Joined(Append(s, x)) = Joined(s) \o x
<1> DEFINE t == Append(s, x)
           n == Len(s)
           k == n + 1
<1>1. /\ t \in Seq(Seq(S)) /\ Len(t) = k /\ n \in Nat /\ k \in Nat
      /\ \A i \in 1 .. n : t[i] = s[i]
      /\ t[k] = x
  OBVIOUS
<1>2. PICK f : Partial(f, s, n) /\ Joined(s) = f[n]
  BY <1>1, JoinedPartial
<1> HIDE DEF t
<1>3. PICK g : Partial(g, t, k) /\ Joined(t) = g[k]
  <2>1. \E g : Partial(g, t, Len(t)) /\ Joined(t) = g[Len(t)]
    BY <1>1, JoinedPartial
  <2> QED BY <1>1, <2>1
<1>4. k \in 0 .. k /\ k # 0 /\ k - 1 = n /\ n <= k
  BY <1>1
<1> HIDE DEF n, k
<1>5. f[n] = g[n]
  <2>1. Partial(f, s, n) /\ Partial(g, t, k)
    BY <1>2, <1>3
  <2>2. Extends(s, n, t, k)
    BY <1>1, <1>4 DEF Extends
  <2> QED BY <2>1, <2>2, PartialAgree
<1>6. g[k] = IF k = 0 THEN << >> ELSE g[k - 1] \o t[k]
  BY <1>3, <1>4, Zenon DEF Partial
<1>7. g[k] = g[n] \o x
  BY <1>1, <1>4, <1>6
<1> QED BY <1>2, <1>3, <1>5, <1>7 DEF t

\* One chunk joins to itself.
LEMMA JoinedOne ==
    ASSUME NEW S, NEW x \in Seq(S)
    PROVE  Joined(<<x>>) = x
<1>1. << >> \in Seq(Seq(S)) /\ Append(<< >>, x) = <<x>>
  OBVIOUS
<1>2. Joined(Append(<< >>, x)) = Joined(<< >>) \o x
  BY <1>1, JoinedAppend, Zenon
<1>3. << >> \o x = x
  OBVIOUS
<1> QED BY <1>1, <1>2, <1>3, JoinedEmpty

\* Concatenation, under a name that the provers do not look into.
Cat(a, b) == a \o b

\* It is associative.
LEMMA CatAssociative ==
    ASSUME NEW S, NEW a \in Seq(S), NEW b \in Seq(S), NEW c \in Seq(S)
    PROVE  Cat(Cat(a, b), c) = Cat(a, Cat(b, c))
BY DEF Cat

\* An instance of it.
LEMMA HeadShift ==
    ASSUME NEW S, NEW r \in Seq(Seq(S)), r # << >>, NEW x \in Seq(S)
    PROVE  (Head(r) \o Joined(Tail(r))) \o x = Head(r) \o (Joined(Tail(r)) \o x)
<1> DEFINE h == Head(r)
           w == Joined(Tail(r))
<1>1. h \in Seq(S) /\ Tail(r) \in Seq(Seq(S))
  OBVIOUS
<1>2. w \in Seq(S)
  BY <1>1, JoinedType, Zenon
<1> HIDE DEF h, w
<1>3. Cat(Cat(h, w), x) = Cat(h, Cat(w, x))
  BY <1>1, <1>2, CatAssociative
<1> QED BY <1>3, Zenon DEF h, w, Cat

\* The bytes of the chunk in use come first.
LEMMA JoinedHead ==
    ASSUME NEW S, NEW s \in Seq(Seq(S)), s # << >>
    PROVE  Joined(s) = Head(s) \o Joined(Tail(s))
<1> DEFINE Bad(q) == Joined(q) # Head(q) \o Joined(Tail(q))
           T == {n \in Nat : \E q \in Seq(Seq(S)) : q # << >> /\ Len(q) = n /\ Bad(q)}
<1> SUFFICES ASSUME T # {} PROVE FALSE
  <2>1. ASSUME Bad(s) PROVE Len(s) \in T
    BY <2>1
  <2> QED BY <2>1, Zenon
<1>0. T \in SUBSET Nat
  OBVIOUS
<1>1. PICK n \in T : \A y \in T : n <= y
  BY <1>0, LeastNumber, Zenon
<1>2. PICK q \in Seq(Seq(S)) : q # << >> /\ Len(q) = n /\ Bad(q)
  OBVIOUS
<1>3. PICK r \in Seq(Seq(S)), x \in Seq(S) : q = Append(r, x)
  BY <1>2, LastOne, Zenon
<1>4. CASE r = << >>
  <2>1. q = <<x>> /\ Head(q) = x /\ Tail(q) = << >>
    BY <1>3, <1>4
  <2>2. x \o << >> = x
    OBVIOUS
  <2> QED BY <1>2, <2>1, <2>2, JoinedOne, JoinedEmpty, Zenon
<1>5. CASE r # << >>
  <2>1. Head(q) = Head(r) /\ Tail(q) = Append(Tail(r), x)
    BY <1>3, <1>5, FirstAndLast, Zenon
  <2>2. Head(r) \in Seq(S) /\ Tail(r) \in Seq(Seq(S))
    BY <1>5
  <2>3. Joined(q) = Joined(r) \o x
    BY <1>3, JoinedAppend, Zenon
  <2>4. Joined(r) = Head(r) \o Joined(Tail(r))
    <3>1. Len(r) \in Nat /\ n = Len(r) + 1
      BY <1>2, <1>3
    <3>2. Len(r) \notin T
      <4>1. ~(n <= Len(r))
        BY <3>1
      <4> HIDE DEF T
      <4> QED BY <1>1, <4>1, Zenon
    <3>3. ~Bad(r)
      BY <1>5, <3>1, <3>2, Zenon
    <3> QED BY <3>3, Zenon
  <2>5. Joined(Append(Tail(r), x)) = Joined(Tail(r)) \o x
    BY <2>2, JoinedAppend, Zenon
  <2>6. (Head(r) \o Joined(Tail(r))) \o x = Head(r) \o (Joined(Tail(r)) \o x)
    BY <1>5, HeadShift, Zenon
  <2> HIDE DEF T
  <2> QED BY <1>2, <2>1, <2>3, <2>4, <2>5, <2>6, Zenon
<1> QED BY <1>4, <1>5

-----------------------------------------------------------------------------
(* Moving bytes between the stream, the queue, the buffer and the packet *)

\* It stays within bytes, is associative, and << >> is neutral.
LEMMA CatBytes ==
    /\ \A a, b \in Seq(Nat) : Cat(a, b) \in Seq(Nat)
    /\ \A a, b, c \in Seq(Nat) : Cat(Cat(a, b), c) = Cat(a, Cat(b, c))
    /\ \A a \in Seq(Nat) : Cat(a, << >>) = a /\ Cat(<< >>, a) = a
<1>1. ASSUME NEW a \in Seq(Nat), NEW b \in Seq(Nat)
      PROVE  Cat(a, b) \in Seq(Nat)
  BY DEF Cat
<1>2. ASSUME NEW a \in Seq(Nat), NEW b \in Seq(Nat), NEW c \in Seq(Nat)
      PROVE  Cat(Cat(a, b), c) = Cat(a, Cat(b, c))
  BY CatAssociative
<1>3. ASSUME NEW a \in Seq(Nat)
      PROVE  Cat(a, << >>) = a /\ Cat(<< >>, a) = a
  BY DEF Cat
<1> QED BY <1>1, <1>2, <1>3

\* OnCanRead moves a chunk from the stream to the end of the queue.
LEMMA MoveChunk ==
    ASSUME NEW x \in Seq(Nat), NEW q \in Seq(Nat), NEW c \in Seq(Nat), NEW s \in Seq(Nat)
    PROVE  Cat(Cat(x, q), Cat(c, s)) = Cat(Cat(x, Cat(q, c)), s)
BY CatBytes

\* input_recv_raw moves the first bytes of the chunk in use to what it has
\* taken before.
LEMMA MoveBytes ==
    ASSUME NEW x \in Seq(Nat), NEW c \in Seq(Nat), NEW r \in Seq(Nat), NEW t \in Seq(Nat)
    PROVE  Cat(x, Cat(Cat(c, r), t)) = Cat(Cat(x, c), Cat(r, t))
BY CatBytes

\* A sequence is its first n elements and the others.
LEMMA SplitSeq ==
    ASSUME NEW S, NEW s \in Seq(S), NEW n \in 0 .. Len(s)
    PROVE  s = SubSeq(s, 1, n) \o SubSeq(s, n + 1, Len(s))
<1> DEFINE a == SubSeq(s, 1, n)
           b == SubSeq(s, n + 1, Len(s))
           l == Len(s)
<1>1. /\ a \in Seq(S) /\ Len(a) = n /\ \A i \in 1 .. n : a[i] = s[i]
      /\ b \in Seq(S) /\ Len(b) = l - n /\ \A i \in 1 .. l - n : b[i] = s[n + i]
      /\ l \in Nat /\ n \in 0 .. l
  OBVIOUS
<1> HIDE DEF a, b, l
<1>2. a \o b \in Seq(S) /\ Len(a \o b) = Len(a) + Len(b)
  BY <1>1, CatLength, Zenon
<1>3. \A i \in 1 .. l : (a \o b)[i] = s[i]
  BY <1>1
<1>4. s = a \o b
  <2>1. Len(s) = Len(a \o b) /\ \A i \in 1 .. Len(s) : s[i] = (a \o b)[i]
    BY <1>1, <1>2, <1>3 DEF l
  <2> QED BY <1>2, <2>1, SeqEqual, Zenon
<1> QED BY <1>4, Zenon DEF a, b, l

\* Both are sequences.
LEMMA Pieces ==
    ASSUME NEW S, NEW s \in Seq(S), NEW n \in 0 .. Len(s)
    PROVE  /\ SubSeq(s, 1, n) \in Seq(S) /\ Len(SubSeq(s, 1, n)) = n
           /\ SubSeq(s, n + 1, Len(s)) \in Seq(S)
<1>1. Len(s) \in Nat
  OBVIOUS
<1>2. \A i \in 1 .. n : s[i] \in S
  BY <1>1
<1>3. \A i \in n + 1 .. Len(s) : s[i] \in S
  BY <1>1
<1>4. SubSeq(s, 1, n) \in Seq(S) /\ Len(SubSeq(s, 1, n)) = n
  BY <1>1, <1>2
<1>5. SubSeq(s, n + 1, Len(s)) \in Seq(S)
  BY <1>1, <1>3
<1> QED BY <1>4, <1>5

\* What Consume(n) does to the chunk in use and to the bytes of the queue.
LEMMA ConsumeBytes ==
    ASSUME NEW q \in Seq(Seq(Nat)), q # << >>, NEW n \in 0 .. Len(q[1])
    PROVE  LET c == SubSeq(q[1], 1, n)
               r == SubSeq(q[1], n + 1, Len(q[1]))
               p == [q EXCEPT ![1] = r]
           IN  /\ c \in Seq(Nat) /\ r \in Seq(Nat) /\ Len(c) = n
               /\ p \in Seq(Seq(Nat)) /\ p # << >> /\ Len(p) = Len(q)
               /\ Joined(Tail(q)) \in Seq(Nat)
               /\ Joined(q) = Cat(Cat(c, r), Joined(Tail(q)))
               /\ Joined(p) = Cat(r, Joined(Tail(q)))
<1> DEFINE c == SubSeq(q[1], 1, n)
           r == SubSeq(q[1], n + 1, Len(q[1]))
           p == [q EXCEPT ![1] = r]
<1>0. c = SubSeq(q[1], 1, n) /\ r = SubSeq(q[1], n + 1, Len(q[1])) /\ p = [q EXCEPT ![1] = r]
  OBVIOUS
<1> HIDE DEF c, r, p
<1>1. 1 \in 1 .. Len(q) /\ q[1] \in Seq(Nat) /\ Len(q[1]) \in Nat /\ Head(q) = q[1]
  OBVIOUS
<1>2. c \in Seq(Nat) /\ Len(c) = n /\ r \in Seq(Nat)
  BY <1>0, <1>1, Pieces
<1>4. p \in Seq(Seq(Nat)) /\ Len(p) = Len(q) /\ \A j \in 1 .. Len(q) : p[j] = IF j = 1 THEN r ELSE q[j]
  BY <1>0, <1>1, <1>2
<1>5. p # << >> /\ Head(p) = r
  BY <1>1, <1>4
<1>6. Tail(p) = Tail(q)
  <2>1. /\ Tail(q) \in Seq(Seq(Nat)) /\ Len(Tail(q)) = Len(q) - 1
        /\ \A i \in 1 .. Len(Tail(q)) : Tail(q)[i] = q[i + 1]
    OBVIOUS
  <2>2. /\ Tail(p) \in Seq(Seq(Nat)) /\ Len(Tail(p)) = Len(p) - 1
        /\ \A i \in 1 .. Len(Tail(p)) : Tail(p)[i] = p[i + 1]
    BY <1>4, <1>5
  <2>3. Len(q) \in Nat
    OBVIOUS
  <2>4. \A i \in 1 .. Len(Tail(p)) : Tail(p)[i] = Tail(q)[i]
    BY <1>4, <2>1, <2>2, <2>3
  <2> DEFINE a == Tail(p)
             b == Tail(q)
  <2>5. a \in Seq(Seq(Nat)) /\ b \in Seq(Seq(Nat)) /\ Len(a) = Len(b)
        /\ \A i \in 1 .. Len(a) : a[i] = b[i]
    BY <1>4, <2>1, <2>2, <2>4
  <2> HIDE DEF a, b
  <2>6. a = b
    BY <2>5, SeqEqual, Zenon
  <2> QED BY <2>6 DEF a, b
<1>7. q[1] = Cat(c, r)
  BY <1>0, <1>1, SplitSeq, Zenon DEF Cat
<1>8. Joined(q) = Cat(q[1], Joined(Tail(q)))
  BY <1>1, JoinedHead DEF Cat
<1>9. Joined(p) = Cat(r, Joined(Tail(q)))
  BY <1>4, <1>5, <1>6, JoinedHead, Zenon DEF Cat
<1>10. Tail(q) \in Seq(Seq(Nat))
  OBVIOUS
<1>11. Joined(Tail(q)) \in Seq(Nat)
  BY <1>10, JoinedType, Zenon
<1>12. /\ c \in Seq(Nat) /\ r \in Seq(Nat) /\ Len(c) = n
       /\ p \in Seq(Seq(Nat)) /\ p # << >> /\ Len(p) = Len(q)
       /\ Joined(Tail(q)) \in Seq(Nat)
       /\ Joined(q) = Cat(Cat(c, r), Joined(Tail(q)))
       /\ Joined(p) = Cat(r, Joined(Tail(q)))
  BY <1>2, <1>4, <1>5, <1>7, <1>8, <1>9, <1>11
<1> QED BY <1>12, Zenon DEF c, r, p

-----------------------------------------------------------------------------
(* The inductive invariant *)

\* TypeOK, and what TLC cannot enumerate: bytes are numbers.
Types ==
    /\ TypeOK
    /\ stream \in Seq(Nat) /\ buffer \in Seq(Nat) /\ event \in Seq(Nat)
    /\ queue \in Seq(Seq(Nat)) /\ injected \in Seq(Seq(Nat))
    /\ device = [i \in Indexes |-> device[i]]

\* Where the Input thread is decides whether it has a chunk and a packet: there
\* is a chunk as long as it is parsed, and a packet only while it is handled.
ThreadInv ==
    /\ tpc \in {"old", "direct", "copy", "end"} => queue # << >>
    /\ tpc \in {"event", "settle"} /\ resume # "loop" => queue # << >>
    /\ tpc \in {"event", "settle"} => event # << >>
    /\ tpc = "event" => resume # "loop"
    /\ tpc = "settle" => event[1] \in Indexes
    /\ tpc \notin {"event", "settle", "exited", "crashed"} => event = << >>

\* While the thread runs, it has the pointer of every device that exists, but
\* for the one that gamepad_init is creating.
DevicesInv ==
    /\ tpc = "start" => \A i \in Indexes : gamepads[i] # "open"
    /\ tpc \notin {"exited", "crashed"} => \A i \in Indexes :
          device[i] # Closed => gamepads[i] = "open" \/ (tpc = "settle" /\ i = event[1])

\* Without the loss of a chunk, what was sent is what the parts hold.
Bytes ==
    lost = {} => Joined(sent) =
        Cat(Cat(Cat(Cat(Joined(injected), InFlight), buffer), Joined(queue)), stream)

\* The inductive invariant of the bytes and the devices.
IInv == Types /\ ThreadInv /\ DevicesInv /\ Bytes /\ AtMostOneLeaks

-----------------------------------------------------------------------------
(* The parts as byte sequences *)

\* A packet has at least its index.
LEMMA PacketLength == INPUT_PKT_LENGTH \in Nat \ {0}
BY CountsAssumption DEF INPUT_PKT_LENGTH

\* Each part is a sequence of bytes.
LEMMA Parts ==
    ASSUME Types
    PROVE  /\ sent \in Seq(Seq(Nat))
           /\ Joined(sent) \in Seq(Nat) /\ Joined(injected) \in Seq(Nat)
           /\ Joined(queue) \in Seq(Nat) /\ InFlight \in Seq(Nat)
           /\ buffer \in Seq(Nat) /\ stream \in Seq(Nat)
<1>1. sent \in Seq(Packets)
  BY DEF Types, TypeOK
<1>2. sent \in Seq(Seq(Nat))
  BY <1>1, PacketsAssumption
<1>3. queue \in Seq(Seq(Nat)) /\ injected \in Seq(Seq(Nat)) /\ buffer \in Seq(Nat)
      /\ stream \in Seq(Nat) /\ event \in Seq(Nat)
  BY DEF Types
<1>4. InFlight \in Seq(Nat)
  BY <1>3 DEF InFlight
<1>5. Joined(sent) \in Seq(Nat)
  BY <1>2, JoinedType
<1>6. Joined(injected) \in Seq(Nat)
  BY <1>3, JoinedType
<1>7. Joined(queue) \in Seq(Nat)
  BY <1>3, JoinedType
<1> QED BY <1>2, <1>3, <1>4, <1>5, <1>6, <1>7

\* A part that grows at its end.
LEMMA JoinedGrows ==
    ASSUME NEW s \in Seq(Seq(Nat)), NEW x \in Seq(Nat)
    PROVE  Joined(Append(s, x)) = Cat(Joined(s), x)
BY JoinedAppend DEF Cat

\* Between two packets the thread has none in hand.
LEMMA NothingInFlight ==
    ASSUME ThreadInv, tpc \notin {"event", "settle", "exited", "crashed"}
    PROVE  event = << >> /\ InFlight = << >>
BY DEF ThreadInv, InFlight

-----------------------------------------------------------------------------
(* The client and the Transport thread *)

\* A packet that is sent is at the end of the stream.
LEMMA SendBytes ==
    ASSUME Types, Bytes, NEW p \in Packets, ClientSends(p)
    PROVE  Bytes'
<1> DEFINE x == Cat(Cat(Cat(Joined(injected), InFlight), buffer), Joined(queue))
<1>1. p \in Seq(Nat) /\ sent \in Seq(Seq(Nat)) /\ stream \in Seq(Nat)
  BY PacketsAssumption, Parts
<1>2. x \in Seq(Nat)
  BY Parts, CatBytes
<1>3. sent' = Append(sent, p) /\ stream' = Cat(stream, p)
  BY DEF ClientSends, Cat
<1>4. Joined(sent') = Cat(Joined(sent), p)
  BY <1>1, <1>3, JoinedGrows
<1>5. Cat(Cat(x, stream), p) = Cat(x, Cat(stream, p))
  BY <1>1, <1>2, CatBytes
<1>6. lost' = lost /\ x' = x
  BY DEF ClientSends, threadVars, InFlight
<1>7. lost = {} => Joined(sent) = Cat(x, stream)
  BY DEF Bytes
<1> HIDE DEF x
<1>8. lost' = {} => Joined(sent') = Cat(x', stream')
  BY <1>3, <1>4, <1>5, <1>6, <1>7
<1> QED BY <1>8 DEF x, Bytes

\* OnCanRead loses no byte, or the queue was full.
LEMMA ReadBytes ==
    ASSUME Types, Bytes, NEW n \in 0 .. Len(stream), OnCanRead(n)
    PROVE  Bytes'
<1> DEFINE y == Cat(Cat(Joined(injected), InFlight), buffer)
           q == Joined(queue)
           c == SubSeq(stream, 1, n)
<1>1. lost' = {} => lost = {} /\ queue' = Append(queue, c)
  BY DEF OnCanRead, rbuf_push
<1>2. y \in Seq(Nat) /\ q \in Seq(Nat)
  BY Parts, CatBytes
<1>3. stream \in Seq(Nat) /\ queue \in Seq(Seq(Nat))
  BY DEF Types
<1>4. stream' = SubSeq(stream, n + 1, Len(stream))
  BY DEF OnCanRead
<1>5. stream = Cat(c, stream')
  BY <1>3, <1>4, SplitSeq, Zenon DEF Cat
<1>6. c \in Seq(Nat) /\ stream' \in Seq(Nat)
  BY <1>3, <1>4, Pieces
<1>7. Joined(Append(queue, c)) = Cat(q, c)
  BY <1>3, <1>6, JoinedGrows, Zenon
<1>8. y' = y /\ sent' = sent
  BY DEF OnCanRead, threadVars, InFlight
<1>9. lost = {} => Joined(sent) = Cat(Cat(y, q), stream)
  BY DEF Bytes
<1> HIDE DEF y, q, c
<1>10. Cat(Cat(y, q), Cat(c, stream')) = Cat(Cat(y, Cat(q, c)), stream')
  BY <1>2, <1>6, MoveChunk
<1>11. lost' = {} => Joined(sent') = Cat(Cat(y', Joined(queue')), stream')
  BY <1>1, <1>5, <1>7, <1>8, <1>9, <1>10, Zenon
<1> QED BY <1>11 DEF y, Bytes

-----------------------------------------------------------------------------
(* The Input thread and the bytes *)

\* What Consume(n) does to the parts.
LEMMA ConsumeParts ==
    ASSUME Types, queue # << >>, NEW n \in 0 .. Len(msg), Consume(n)
    PROVE  LET c == SubSeq(msg, 1, n)
               r == SubSeq(msg, n + 1, Len(msg))
               t == Joined(Tail(queue))
           IN  /\ c \in Seq(Nat) /\ Len(c) = n /\ r \in Seq(Nat) /\ t \in Seq(Nat)
               /\ queue' \in Seq(Seq(Nat)) /\ queue' # << >> /\ Len(queue') = Len(queue)
               /\ Joined(queue) = Cat(Cat(c, r), t)
               /\ Joined(queue') = Cat(r, t)
<1> DEFINE c == SubSeq(queue[1], 1, n)
           r == SubSeq(queue[1], n + 1, Len(queue[1]))
<1>1. queue \in Seq(Seq(Nat)) /\ n \in 0 .. Len(queue[1])
  BY DEF Types, msg
<1>2. queue' = [queue EXCEPT ![1] = r]
  BY DEF Consume
<1>3. /\ c \in Seq(Nat) /\ r \in Seq(Nat) /\ Len(c) = n
      /\ [queue EXCEPT ![1] = r] \in Seq(Seq(Nat))
      /\ [queue EXCEPT ![1] = r] # << >> /\ Len([queue EXCEPT ![1] = r]) = Len(queue)
      /\ Joined(Tail(queue)) \in Seq(Nat)
      /\ Joined(queue) = Cat(Cat(c, r), Joined(Tail(queue)))
      /\ Joined([queue EXCEPT ![1] = r]) = Cat(r, Joined(Tail(queue)))
  BY <1>1, ConsumeBytes, Zenon
<1> HIDE DEF c, r
<1> QED BY <1>2, <1>3 DEF msg, c, r

\* A packet parsed in place goes from the chunk into the thread's hand.
LEMMA DirectBytes ==
    ASSUME Types, ThreadInv, Bytes, RecvDirect
    PROVE  Bytes'
<1>1. CASE UNCHANGED <<queue, event, resume>>
  BY <1>1 DEF RecvDirect, Bytes, InFlight, transportVars
<1>2. CASE /\ buffer = << >> /\ Len(msg) >= INPUT_PKT_LENGTH
           /\ event' = SubSeq(msg, 1, INPUT_PKT_LENGTH)
           /\ Consume(INPUT_PKT_LENGTH)
           /\ resume' = "copy"
  <2> DEFINE n == INPUT_PKT_LENGTH
             a == Joined(injected)
             c == SubSeq(msg, 1, n)
             r == SubSeq(msg, n + 1, Len(msg))
             t == Joined(Tail(queue))
  <2>1. tpc = "direct" /\ UNCHANGED <<sent, stream, lost, buffer, injected>>
    BY DEF RecvDirect, transportVars
  <2>2. queue # << >> /\ event = << >> /\ InFlight = << >>
    BY <2>1, NothingInFlight DEF ThreadInv
  <2>3. n \in 0 .. Len(msg)
    <3>1. msg \in Seq(Nat)
      BY <2>2 DEF msg, Types
    <3>2. Len(msg) \in Nat
      BY <3>1
    <3> QED BY <1>2, <3>2, PacketLength
  <2>4. /\ c \in Seq(Nat) /\ r \in Seq(Nat) /\ t \in Seq(Nat)
        /\ Joined(queue) = Cat(Cat(c, r), t)
        /\ Joined(queue') = Cat(r, t)
    BY <1>2, <2>2, <2>3, ConsumeParts
  <2>5. a \in Seq(Nat) /\ stream \in Seq(Nat)
    BY Parts
  <2>6. InFlight' = c
    BY <1>2 DEF InFlight
  <2>7. lost = {} => Joined(sent) = Cat(Cat(Cat(Cat(a, << >>), << >>), Joined(queue)), stream)
    BY <1>2, <2>2 DEF Bytes
  <2>8. lost' = {} => Joined(sent') = Cat(Cat(Cat(Cat(a, InFlight'), << >>), Joined(queue')), stream')
    <3> HIDE DEF a, c, r, t
    <3>1. Cat(Cat(a, << >>), << >>) = a /\ Cat(a, c) \in Seq(Nat)
      BY <2>4, <2>5, CatBytes
    <3>2. Cat(Cat(a, c), << >>) = Cat(a, c)
      BY <3>1, CatBytes
    <3>3. Cat(a, Cat(Cat(c, r), t)) = Cat(Cat(a, c), Cat(r, t))
      BY <2>4, <2>5, MoveBytes
    <3> QED BY <2>1, <2>4, <2>6, <2>7, <3>1, <3>2, <3>3
  <2>9. a' = a /\ buffer' = << >>
    BY <1>2, <2>1
  <2> QED BY <2>8, <2>9 DEF Bytes
<1> QED BY <1>1, <1>2 DEF RecvDirect

\* Bytes copied go from the chunk to the end of the buffer; a full buffer
\* becomes the packet in hand.
LEMMA CopyBytes ==
    ASSUME Types, ThreadInv, Bytes, RecvCopy
    PROVE  Bytes'
<1> DEFINE room == INPUT_PKT_LENGTH - Len(buffer)
           n == IF Len(msg) < room THEN Len(msg) ELSE room
           a == Joined(injected)
           b == buffer
           c == SubSeq(msg, 1, n)
           r == SubSeq(msg, n + 1, Len(msg))
           t == Joined(Tail(queue))
<1>1. tpc = "copy" /\ UNCHANGED <<sent, stream, lost, injected>> /\ resume' = "end" /\ Consume(n)
  BY DEF RecvCopy, transportVars
<1>2. queue # << >> /\ event = << >> /\ InFlight = << >>
  BY <1>1, NothingInFlight DEF ThreadInv
<1>3. \/ event' = Cat(b, c) /\ buffer' = << >>
      \/ event' = event /\ buffer' = Cat(b, c)
  BY Zenon DEF RecvCopy, Cat
<1>4. n \in 0 .. Len(msg)
  <2>1. msg \in Seq(Nat) /\ buffer \in Seq(Nat)
    BY <1>2 DEF msg, Types
  <2>2. Len(msg) \in Nat /\ Len(buffer) \in Nat
    BY <2>1
  <2>3. Len(buffer) < INPUT_PKT_LENGTH
    BY DEF Types, TypeOK
  <2> QED BY <2>2, <2>3, PacketLength
<1> HIDE DEF n
<1>5. /\ c \in Seq(Nat) /\ r \in Seq(Nat) /\ t \in Seq(Nat)
      /\ Joined(queue) = Cat(Cat(c, r), t)
      /\ Joined(queue') = Cat(r, t)
  BY <1>1, <1>2, <1>4, ConsumeParts
<1>6. a \in Seq(Nat) /\ b \in Seq(Nat) /\ stream \in Seq(Nat)
  BY Parts
<1>7. lost = {} => Joined(sent) = Cat(Cat(Cat(Cat(a, << >>), b), Joined(queue)), stream)
  BY <1>2 DEF Bytes
<1>8. InFlight' = event'
  BY <1>1 DEF InFlight
<1>9. a' = a
  BY <1>1
<1>10. lost' = {} => Joined(sent') = Cat(Cat(Cat(Cat(a, event'), buffer'), Joined(queue')), stream')
  <2> HIDE DEF a, b, c, r, t
  <2>1. Cat(a, << >>) = a /\ Cat(b, c) \in Seq(Nat) /\ Cat(a, b) \in Seq(Nat)
    BY <1>5, <1>6, CatBytes
  <2>2. Cat(a, Cat(b, c)) = Cat(Cat(a, b), c) /\ Cat(Cat(a, b), c) \in Seq(Nat)
    BY <1>5, <1>6, <2>1, CatBytes
  <2>3. Cat(Cat(a, b), Cat(Cat(c, r), t)) = Cat(Cat(Cat(a, b), c), Cat(r, t))
    BY <1>5, <2>1, MoveBytes
  <2>4. Cat(Cat(a, event'), buffer') = Cat(Cat(a, b), c)
    <3>1. CASE event' = Cat(b, c) /\ buffer' = << >>
      BY <2>2, <3>1, CatBytes
    <3>2. CASE event' = event /\ buffer' = Cat(b, c)
      BY <1>2, <2>1, <2>2, <3>2
    <3> QED BY <1>3, <3>1, <3>2
  <2> QED BY <1>1, <1>5, <1>7, <2>1, <2>3, <2>4
<1> QED BY <1>8, <1>9, <1>10 DEF Bytes

\* A chunk that is used up has no bytes left to pop.
LEMMA EndBytes ==
    ASSUME Types, ThreadInv, Bytes, RecvEnd
    PROVE  Bytes'
<1>1. tpc = "end" /\ UNCHANGED <<sent, stream, lost, injected, buffer, event, resume>>
  BY DEF RecvEnd, transportVars, threadVars
<1>2. queue # << >> /\ queue \in Seq(Seq(Nat))
  BY <1>1 DEF ThreadInv, Types
<1>3. Joined(queue') = Joined(queue)
  <2>1. CASE msg = << >> /\ queue' = Tail(queue)
    <3>1. Head(queue) = << >> /\ Tail(queue) \in Seq(Seq(Nat))
      BY <1>2, <2>1 DEF msg
    <3>2. Joined(Tail(queue)) \in Seq(Nat)
      BY <3>1, JoinedType, Zenon
    <3>3. Joined(queue) = Cat(Head(queue), Joined(Tail(queue)))
      BY <1>2, JoinedHead DEF Cat
    <3> QED BY <2>1, <3>1, <3>2, <3>3, CatBytes, Zenon
  <2> QED BY <2>1 DEF RecvEnd
<1>4. InFlight' = InFlight
  BY <1>1 DEF InFlight
<1> QED BY <1>1, <1>3, <1>4 DEF Bytes

\* The packet in hand becomes the last of the packets handled.
LEMMA EventBytes ==
    ASSUME Types, ThreadInv, Bytes, tpc = "event", EventDone,
           UNCHANGED <<sent, stream, lost, buffer, queue, resume>>
    PROVE  Bytes'
<1>1. event \in Seq(Nat) /\ injected \in Seq(Seq(Nat)) /\ InFlight = event
  BY DEF Types, ThreadInv, InFlight
<1>2. Joined(injected') = Cat(Joined(injected), event)
  BY <1>1, JoinedGrows DEF EventDone
<1>3. InFlight' = << >>
  BY DEF EventDone, InFlight
<1>4. Cat(Joined(injected), event) \in Seq(Nat)
  BY <1>1, Parts, CatBytes
<1>5. Cat(Joined(injected'), InFlight') = Cat(Joined(injected), InFlight)
  BY <1>1, <1>2, <1>3, <1>4, CatBytes
<1> QED BY <1>5 DEF Bytes

\* The other steps move no byte.
LEMMA StillBytes ==
    ASSUME Bytes, UNCHANGED <<sent, stream, lost, buffer, queue, injected>>, InFlight' = InFlight
    PROVE  Bytes'
BY DEF Bytes

-----------------------------------------------------------------------------
(* The invariant holds initially *)

\* Before the client connects nothing is read, queued or open.
LEMMA InitInv == ASSUME Init PROVE IInv
<1>1. Types
  <2>1. << >> \in Seq(Packets) /\ << >> \in Seq(Nat) /\ << >> \in Seq(Seq(Nat)) /\ Len(<< >>) = 0
    OBVIOUS
  <2>2. device = [i \in Indexes |-> Closed]
    BY DEF Init
  <2>3. gamepads \in [Indexes -> {"null", "open", "wild"}]
    BY DEF Init
  <2>4. device = [i \in Indexes |-> device[i]] /\ \A i \in Indexes : device[i] = Closed
    BY <2>2
  <2>5. /\ Len(sent) <= MaxSent /\ Len(queue) <= QueueSize /\ Len(buffer) < INPUT_PKT_LENGTH
        /\ empties \in 0 .. MaxEmpty
    BY <2>1, PacketLength, QueueSizeAssumption, BoundsAssumption DEF Init
  <2>6. sent \in Seq(Packets) /\ stream \in Seq(Nat) /\ buffer \in Seq(Nat) /\ event \in Seq(Nat)
        /\ queue \in Seq(Seq(Nat)) /\ injected \in Seq(Seq(Nat))
    BY <2>1 DEF Init
  <2>7. /\ lost \subseteq {"old", "full"} /\ split \in BOOLEAN /\ active \in BOOLEAN
        /\ tpc = "start" /\ resume = "copy"
    BY Zenon DEF Init
  <2> QED BY <2>3, <2>4, <2>5, <2>6, <2>7 DEF Types, TypeOK
<1>2. ThreadInv
  BY DEF Init, ThreadInv
<1>3. DevicesInv
  BY DEF Init, DevicesInv
<1>4. Bytes
  <2>1. Joined(sent) = << >> /\ Joined(injected) = << >> /\ Joined(queue) = << >>
        /\ InFlight = << >> /\ buffer = << >> /\ stream = << >>
    BY JoinedEmpty DEF Init, InFlight
  <2>2. Cat(<< >>, << >>) = << >>
    BY EmptySeq, CatBytes, Zenon
  <2> QED BY <2>1, <2>2 DEF Bytes
<1>5. AtMostOneLeaks
  BY DEF Init, AtMostOneLeaks
<1> QED BY <1>1, <1>2, <1>3, <1>4, <1>5 DEF IInv

-----------------------------------------------------------------------------
(* Every step keeps the invariant *)

\* Steps outside the Input thread leave its state alone, and a queue that is
\* not empty stays so.
LEMMA OutsideStep ==
    ASSUME ThreadInv, DevicesInv, AtMostOneLeaks, UNCHANGED <<tpc, threadVars>>,
           queue # << >> => queue' # << >>
    PROVE  ThreadInv' /\ DevicesInv' /\ AtMostOneLeaks'
BY DEF ThreadInv, DevicesInv, AtMostOneLeaks, threadVars

\* The client writes a packet.
LEMMA ClientStep ==
    ASSUME IInv, NEW p \in Packets, ClientSends(p)
    PROVE  IInv'
<1>1. p \in Seq(Nat) /\ sent \in Seq(Packets) /\ stream \in Seq(Nat)
  BY PacketsAssumption DEF IInv, Types, TypeOK
<1>2. sent' \in Seq(Packets) /\ Len(sent') <= MaxSent
  <2>1. sent' = Append(sent, p) /\ Len(sent) < MaxSent
    BY DEF ClientSends
  <2>2. sent' \in Seq(Packets) /\ Len(sent') = Len(sent) + 1 /\ Len(sent) \in Nat
    BY <1>1, <2>1
  <2> QED BY <2>1, <2>2, BoundsAssumption
<1>3. stream' \in Seq(Nat)
  BY <1>1 DEF ClientSends
<1>4. UNCHANGED <<queue, empties, split, lost, active, tpc, threadVars>>
  BY DEF ClientSends
<1>5. Types'
  BY <1>2, <1>3, <1>4 DEF IInv, Types, TypeOK, threadVars
<1>6. ThreadInv' /\ DevicesInv' /\ AtMostOneLeaks'
  BY <1>4, OutsideStep DEF IInv
<1>7. Bytes'
  BY SendBytes DEF IInv
<1> QED BY <1>5, <1>6, <1>7 DEF IInv

\* OnCanRead queues what has arrived.
LEMMA ReadStep ==
    ASSUME IInv, NEW n \in 0 .. Len(stream), OnCanRead(n)
    PROVE  IInv'
<1> DEFINE c == SubSeq(stream, 1, n)
<1>1. stream \in Seq(Nat) /\ queue \in Seq(Seq(Nat)) /\ Len(queue) <= QueueSize
      /\ lost \subseteq {"old", "full"} /\ empties \in 0 .. MaxEmpty
  BY DEF IInv, Types, TypeOK
<1>2. c \in Seq(Nat) /\ SubSeq(stream, n + 1, Len(stream)) \in Seq(Nat)
  BY <1>1, Pieces
<1>3. /\ stream' \in Seq(Nat)
      /\ UNCHANGED <<sent, active, tpc, threadVars>>
      /\ split' \in BOOLEAN
  BY <1>2 DEF OnCanRead
<1>4. empties' \in 0 .. MaxEmpty
  BY <1>1, BoundsAssumption DEF OnCanRead
<1>5. /\ queue' \in Seq(Seq(Nat)) /\ Len(queue') <= QueueSize /\ lost' \subseteq {"old", "full"}
      /\ queue # << >> => queue' # << >>
  <2> HIDE DEF c
  <2>1. CASE Len(queue) < QueueSize /\ queue' = Append(queue, c) /\ UNCHANGED lost
    <3>1. queue' \in Seq(Seq(Nat)) /\ queue' # << >> /\ Len(queue') = Len(queue) + 1 /\ Len(queue) \in Nat
      <4>1. Append(queue, c) \in Seq(Seq(Nat)) /\ Append(queue, c) # << >>
            /\ Len(Append(queue, c)) = Len(queue) + 1
        BY <1>1, <1>2, AppendOne
      <4> QED BY <1>1, <2>1, <4>1
    <3> QED BY <1>1, <2>1, <3>1, QueueSizeAssumption
  <2>2. CASE lost' = lost \union {"full"} /\ UNCHANGED queue
    BY <1>1, <2>2
  <2> QED BY <2>1, <2>2 DEF OnCanRead, rbuf_push, c
<1>6. Types'
  BY <1>3, <1>4, <1>5 DEF IInv, Types, TypeOK, threadVars
<1>7. ThreadInv' /\ DevicesInv' /\ AtMostOneLeaks'
  BY <1>3, <1>5, OutsideStep DEF IInv
<1>8. Bytes'
  BY ReadBytes DEF IInv
<1> QED BY <1>6, <1>7, <1>8 DEF IInv

\* session_teardown sets the flag.
LEMMA StopStep ==
    ASSUME IInv, StopSession
    PROVE  IInv'
<1>1. UNCHANGED <<transportVars, queue, lost, tpc, threadVars>> /\ active' \in BOOLEAN
  BY Zenon DEF StopSession
<1>2. Types'
  BY <1>1 DEF IInv, Types, TypeOK, threadVars, transportVars
<1>3. ThreadInv' /\ DevicesInv' /\ AtMostOneLeaks'
  BY <1>1, OutsideStep DEF IInv
<1>4. Bytes'
  BY <1>1, StillBytes DEF IInv, InFlight, threadVars, transportVars
<1> QED BY <1>2, <1>3, <1>4 DEF IInv

-----------------------------------------------------------------------------
(* Devices *)

\* input_destroy closes every device whose pointer the thread has.
LEMMA DestroyStep ==
    ASSUME IInv, input_destroy,
           tpc \notin {"start", "exited", "crashed"},
           UNCHANGED <<transportVars, queue, lost, active,
                       buffer, event, resume, gamepads, injected>>
    PROVE  IInv'
<1>1. device = [i \in Indexes |-> device[i]]
      /\ \A i \in Indexes : device[i] = Closed \/ DOMAIN device[i] = DOMAIN Neutral
  BY DEF IInv, Types, TypeOK
<1>2. tpc' \in {"exited", "crashed"}
  BY DEF input_destroy
<1>3. \/ tpc' = "crashed" /\ device' = device
      \/ tpc' = "exited" /\ device' = [i \in Indexes |-> IF gamepads[i] = "open" THEN Closed ELSE device[i]]
  BY DEF input_destroy
<1>4. device' = [i \in Indexes |-> device'[i]]
      /\ \A i \in Indexes : device'[i] = Closed \/ DOMAIN device'[i] = DOMAIN Neutral
  BY <1>1, <1>3
<1>5. Types'
  BY <1>2, <1>4 DEF IInv, Types, TypeOK, transportVars, Indexes, Neutral
<1>6. ThreadInv'
  BY <1>2 DEF ThreadInv
<1>7. DevicesInv'
  BY <1>2 DEF DevicesInv
<1>8. Bytes'
  BY StillBytes DEF IInv, InFlight, transportVars
<1>9. AtMostOneLeaks'
  <2>1. CASE tpc' = "exited" /\ device' = [i \in Indexes |-> IF gamepads[i] = "open" THEN Closed ELSE device[i]]
    <3>1. ASSUME NEW i \in Indexes, device'[i] # Closed
          PROVE  i = event[1]
      BY <2>1, <3>1 DEF IInv, DevicesInv
    <3> QED BY <3>1 DEF AtMostOneLeaks
  <2>2. CASE tpc' = "crashed"
    BY <2>2 DEF AtMostOneLeaks
  <2> QED BY <1>3, <2>1, <2>2
<1> QED BY <1>5, <1>6, <1>7, <1>8, <1>9 DEF IInv

\* gamepad_init creates the device of the packet's gamepad.
LEMMA CreateStep ==
    ASSUME IInv, NEW i \in Indexes, gamepad_init(i), i = event'[1],
           event' \in Seq(Nat), event' # << >>,
           resume' \in {"loop", "copy", "end"}, resume' # "loop" => queue # << >>,
           tpc \notin {"settle", "exited", "crashed"},
           UNCHANGED <<transportVars, queue, lost, active, buffer, gamepads, injected>>
    PROVE  Types' /\ ThreadInv' /\ DevicesInv' /\ AtMostOneLeaks'
<1>1. device = [k \in Indexes |-> device[k]]
      /\ \A k \in Indexes : device[k] = Closed \/ DOMAIN device[k] = DOMAIN Neutral
  BY DEF IInv, Types, TypeOK
<1>2. tpc' = "settle" /\ device' = [device EXCEPT ![i] = Neutral]
  BY DEF gamepad_init
<1>3. device' = [k \in Indexes |-> IF k = i THEN Neutral ELSE device[k]]
  BY <1>1, <1>2
<1>4. device' = [k \in Indexes |-> device'[k]]
      /\ \A k \in Indexes : device'[k] = Closed \/ DOMAIN device'[k] = DOMAIN Neutral
  BY <1>1, <1>3
<1>5. Types'
  BY <1>2, <1>4 DEF IInv, Types, TypeOK, transportVars, Indexes, Neutral
<1>6. ThreadInv'
  BY <1>2 DEF ThreadInv, Indexes
<1>7. DevicesInv'
  <2>1. ASSUME NEW k \in Indexes, device'[k] # Closed
        PROVE  gamepads[k] = "open" \/ k = event'[1]
    BY <1>3, <2>1 DEF IInv, DevicesInv
  <2> QED BY <1>2, <2>1 DEF DevicesInv, Indexes
<1>8. AtMostOneLeaks'
  BY <1>2 DEF AtMostOneLeaks
<1> QED BY <1>5, <1>6, <1>7, <1>8

\* input_main creates gamepad 0.
LEMMA MainStep ==
    ASSUME IInv, input_main
    PROVE  IInv'
<1>1. tpc = "start" /\ event' = <<0>> /\ resume' = "loop" /\ gamepad_init(0)
      /\ UNCHANGED <<transportVars, queue, lost, active, buffer, gamepads, injected>>
  BY DEF input_main
<1>2. 0 \in Indexes /\ event' \in Seq(Nat) /\ event' # << >> /\ event'[1] = 0
  BY <1>1, MaxGamepadsAssumption DEF Indexes
<1>3. Types' /\ ThreadInv' /\ DevicesInv' /\ AtMostOneLeaks'
  BY <1>1, <1>2, CreateStep
<1>4. InFlight' = << >> /\ InFlight = << >>
  BY <1>1, NothingInFlight DEF IInv, InFlight
<1>5. Bytes'
  BY <1>1, <1>4, StillBytes DEF IInv, transportVars
<1> QED BY <1>3, <1>5 DEF IInv

\* A failure before there is a device leaves none.
LEMMA StartFails ==
    ASSUME IInv, input_main_malloc_fails \/ input_main_init_fails
    PROVE  IInv'
<1>1. tpc = "start" /\ tpc' \in {"exited", "crashed"}
      /\ UNCHANGED <<transportVars, queue, lost, active, threadVars>>
  BY DEF input_main_malloc_fails, input_main_init_fails
<1>2. Types'
  BY <1>1 DEF IInv, Types, TypeOK, transportVars, threadVars
<1>3. ThreadInv' /\ DevicesInv'
  BY <1>1 DEF ThreadInv, DevicesInv
<1>4. Bytes'
  BY <1>1, StillBytes DEF IInv, InFlight, transportVars, threadVars
<1>5. \A i \in Indexes : device[i] = Closed
  BY <1>1 DEF IInv, DevicesInv
<1>6. AtMostOneLeaks'
  BY <1>1, <1>5 DEF AtMostOneLeaks, threadVars
<1> QED BY <1>2, <1>3, <1>4, <1>6 DEF IInv

\* The pointer of the new gamepad is stored.
LEMMA ReadyStep ==
    ASSUME IInv, GamepadReady
    PROVE  IInv'
<1>1. /\ tpc = "settle" /\ gamepads' = [gamepads EXCEPT ![event[1]] = "open"]
      /\ UNCHANGED <<transportVars, queue, lost, active, buffer, resume, device, injected>>
      /\ \/ resume = "loop" /\ tpc' = "loop" /\ event' = << >>
         \/ resume # "loop" /\ tpc' = "event" /\ event' = event
  BY DEF GamepadReady
<1>2. event[1] \in Indexes /\ event # << >> /\ (resume # "loop" => queue # << >>)
  BY <1>1 DEF IInv, ThreadInv
<1>3. event \in Seq(Nat) /\ event' \in Seq(Nat)
  BY <1>1, EmptySeq, Zenon DEF IInv, Types
<1>4. gamepads \in [Indexes -> {"null", "open", "wild"}]
  BY DEF IInv, Types, TypeOK
<1>5. gamepads' \in [Indexes -> {"null", "open", "wild"}]
      /\ \A i \in Indexes : gamepads'[i] = IF i = event[1] THEN "open" ELSE gamepads[i]
  BY <1>1, <1>2, <1>4
<1>6. Types'
  BY <1>1, <1>3, <1>5 DEF IInv, Types, TypeOK, transportVars, Indexes
<1>7. ThreadInv'
  BY <1>1, <1>2 DEF ThreadInv
<1>8. DevicesInv'
  <2>1. ASSUME NEW i \in Indexes, device[i] # Closed
        PROVE  gamepads'[i] = "open"
    BY <1>1, <1>5, <2>1 DEF IInv, DevicesInv
  <2> QED BY <1>1, <2>1 DEF DevicesInv, Indexes
<1>9. InFlight' = InFlight
  BY <1>1 DEF InFlight
<1>10. Bytes'
  BY <1>1, <1>9, StillBytes DEF IInv, transportVars
<1>11. AtMostOneLeaks'
  BY <1>1 DEF AtMostOneLeaks
<1> QED BY <1>6, <1>7, <1>8, <1>10, <1>11 DEF IInv

\* Steps between packets that change neither the devices nor the pointers.
LEMMA BetweenPackets ==
    ASSUME IInv, tpc \in {"loop", "wait", "old", "direct", "copy", "end"},
           tpc' \in {"loop", "wait", "old", "direct", "copy", "end", "event", "done"},
           UNCHANGED <<gamepads, device>>
    PROVE  DevicesInv' /\ AtMostOneLeaks'
BY DEF IInv, DevicesInv, AtMostOneLeaks

\* The test of the loop, and the wait for a chunk.
LEMMA WaitStep ==
    ASSUME IInv, LoopTest \/ WaitChunk
    PROVE  IInv'
<1>1. /\ tpc \in {"loop", "wait"} /\ tpc' \in {"wait", "done", "old"}
      /\ tpc' = "old" => queue # << >>
      /\ UNCHANGED <<transportVars, queue, lost, active, threadVars>>
  BY DEF LoopTest, WaitChunk
<1>2. Types'
  BY <1>1 DEF IInv, Types, TypeOK, transportVars, threadVars
<1>3. ThreadInv'
  BY <1>1 DEF IInv, ThreadInv, threadVars
<1>4. DevicesInv' /\ AtMostOneLeaks'
  BY <1>1, BetweenPackets DEF threadVars
<1>5. Bytes'
  BY <1>1, StillBytes DEF IInv, InFlight, transportVars, threadVars
<1> QED BY <1>2, <1>3, <1>4, <1>5 DEF IInv

\* _rbuf_pop_old drops a chunk, or finds that one is left.
LEMMA PopOldStep ==
    ASSUME IInv, PopOld
    PROVE  IInv'
<1>1. /\ tpc = "old" /\ tpc' \in {"old", "direct"}
      /\ UNCHANGED <<transportVars, active, threadVars>>
      /\ \/ Len(queue) > 1 /\ queue' = Tail(queue) /\ lost' = lost \union {"old"}
         \/ queue' = queue /\ lost' = lost
  BY DEF PopOld
<1>2. queue # << >> /\ queue \in Seq(Seq(Nat)) /\ Len(queue) <= QueueSize
      /\ lost \subseteq {"old", "full"}
  BY <1>1 DEF IInv, ThreadInv, Types, TypeOK
<1>3. queue' # << >> /\ queue' \in Seq(Seq(Nat)) /\ Len(queue') <= QueueSize
      /\ lost' \subseteq {"old", "full"}
  <2>1. CASE Len(queue) > 1 /\ queue' = Tail(queue) /\ lost' = lost \union {"old"}
    <3>1. Tail(queue) \in Seq(Seq(Nat)) /\ Len(Tail(queue)) = Len(queue) - 1 /\ Len(queue) \in Nat
      BY <1>2
    <3> DEFINE l == Len(queue)
               k == Len(Tail(queue))
    <3>2. k # 0
      <4>1. l > 1 /\ k = l - 1 /\ l \in Nat
        BY <2>1, <3>1
      <4> HIDE DEF l, k
      <4> QED BY <4>1
    <3>3. Tail(queue) # << >>
      BY <3>1, <3>2, EmptySeq, Zenon
    <3> QED BY <1>2, <2>1, <3>1, <3>3, QueueSizeAssumption
  <2> QED BY <1>1, <1>2, <2>1, Zenon
<1>4. Types'
  BY <1>1, <1>3 DEF IInv, Types, TypeOK, transportVars, threadVars
<1>5. ThreadInv'
  BY <1>1, <1>3 DEF IInv, ThreadInv, threadVars
<1>6. DevicesInv' /\ AtMostOneLeaks'
  BY <1>1, BetweenPackets DEF threadVars
<1>7. Bytes'
  <2>1. CASE lost' = lost \union {"old"}
    BY <2>1 DEF Bytes
  <2>2. CASE queue' = queue /\ lost' = lost
    BY <1>1, <2>2, StillBytes DEF IInv, InFlight, transportVars, threadVars
  <2> QED BY <1>1, <2>1, <2>2
<1> QED BY <1>4, <1>5, <1>6, <1>7 DEF IInv

\* The chunk in use is a sequence of bytes.
LEMMA ChunkInUse ==
    ASSUME IInv, queue # << >>
    PROVE  msg \in Seq(Nat) /\ Len(msg) \in Nat
<1>1. queue \in Seq(Seq(Nat))
  BY DEF IInv, Types
<1>2. 1 \in 1 .. Len(queue)
  BY <1>1
<1>3. msg \in Seq(Nat)
  BY <1>1, <1>2 DEF msg
<1> QED BY <1>3

\* input_recv_raw takes a whole packet from the chunk, or does not.
LEMMA DirectStep ==
    ASSUME IInv, RecvDirect
    PROVE  IInv'
<1>1. tpc = "direct" /\ UNCHANGED <<transportVars, lost, active, buffer, gamepads, device, injected>>
      /\ tpc' \in {"event", "copy"}
  BY DEF RecvDirect
<1>2. queue # << >> /\ event = << >>
  BY <1>1 DEF IInv, ThreadInv
<1>3. Bytes'
  BY DirectBytes DEF IInv
<1>4. DevicesInv' /\ AtMostOneLeaks'
  BY <1>1, BetweenPackets
<1>5. CASE /\ Len(msg) >= INPUT_PKT_LENGTH
           /\ event' = SubSeq(msg, 1, INPUT_PKT_LENGTH)
           /\ Consume(INPUT_PKT_LENGTH)
           /\ resume' = "copy" /\ tpc' = "event"
  <2>1. INPUT_PKT_LENGTH \in 0 .. Len(msg)
    BY <1>2, <1>5, ChunkInUse, PacketLength
  <2>2. /\ event' \in Seq(Nat) /\ Len(event') = INPUT_PKT_LENGTH
        /\ queue' \in Seq(Seq(Nat)) /\ queue' # << >> /\ Len(queue') = Len(queue)
    BY <1>2, <1>5, <2>1, ConsumeParts DEF IInv
  <2>3. event' # << >>
    BY <2>2, PacketLength
  <2>4. Types'
    BY <1>1, <1>5, <2>2 DEF IInv, Types, TypeOK, transportVars
  <2>5. ThreadInv'
    BY <1>5, <2>2, <2>3 DEF ThreadInv
  <2> QED BY <1>3, <1>4, <2>4, <2>5 DEF IInv
<1>6. CASE tpc' = "copy" /\ UNCHANGED <<queue, event, resume>>
  <2>1. Types'
    BY <1>1, <1>6 DEF IInv, Types, TypeOK, transportVars
  <2>2. ThreadInv'
    BY <1>2, <1>6 DEF ThreadInv
  <2> QED BY <1>3, <1>4, <2>1, <2>2 DEF IInv
<1> QED BY <1>5, <1>6 DEF RecvDirect

\* input_recv_raw copies bytes to the buffer, which is never left full.
LEMMA CopyStep ==
    ASSUME IInv, RecvCopy
    PROVE  IInv'
<1> DEFINE room == INPUT_PKT_LENGTH - Len(buffer)
           n == IF Len(msg) < room THEN Len(msg) ELSE room
           c == SubSeq(msg, 1, n)
           filled == buffer \o c
<1>1. /\ tpc = "copy" /\ resume' = "end" /\ Consume(n)
      /\ UNCHANGED <<transportVars, lost, active, gamepads, device, injected>>
      /\ \/ n = room /\ event' = filled /\ buffer' = << >> /\ tpc' = "event"
         \/ n < room /\ buffer' = filled /\ tpc' = "end" /\ event' = event
  BY Zenon DEF RecvCopy
<1>2. queue # << >> /\ event = << >>
  BY <1>1 DEF IInv, ThreadInv
<1>3. Bytes'
  BY CopyBytes DEF IInv
<1>4. DevicesInv' /\ AtMostOneLeaks'
  BY <1>1, BetweenPackets
<1>5. buffer \in Seq(Nat) /\ Len(buffer) < INPUT_PKT_LENGTH /\ Len(buffer) \in Nat
  BY DEF IInv, Types, TypeOK
<1>6. n \in 0 .. Len(msg) /\ n \in Nat /\ room \in Nat
  BY <1>2, <1>5, ChunkInUse, PacketLength
<1> HIDE DEF n
<1>7. /\ c \in Seq(Nat) /\ Len(c) = n
      /\ queue' \in Seq(Seq(Nat)) /\ queue' # << >> /\ Len(queue') = Len(queue)
  BY <1>1, <1>2, <1>6, ConsumeParts DEF IInv
<1> HIDE DEF c
<1>8. filled \in Seq(Nat) /\ Len(filled) = Len(buffer) + n
  BY <1>5, <1>7, CatLength, Zenon
<1> HIDE DEF filled
<1>9. CASE n = room /\ event' = filled /\ buffer' = << >> /\ tpc' = "event"
  <2>1. Len(filled) = INPUT_PKT_LENGTH
    BY <1>5, <1>6, <1>8, <1>9, PacketLength
  <2>2. event' # << >>
    BY <1>8, <1>9, <2>1, PacketLength
  <2>3. buffer' \in Seq(Nat) /\ Len(buffer') < INPUT_PKT_LENGTH
    BY <1>9, PacketLength
  <2>4. Types'
    BY <1>1, <1>7, <1>8, <1>9, <2>3 DEF IInv, Types, TypeOK, transportVars
  <2>5. ThreadInv'
    BY <1>1, <1>7, <1>9, <2>2 DEF ThreadInv
  <2> QED BY <1>3, <1>4, <2>4, <2>5 DEF IInv
<1>10. CASE n < room /\ buffer' = filled /\ tpc' = "end" /\ event' = event
  <2>1. Len(filled) < INPUT_PKT_LENGTH
    BY <1>5, <1>6, <1>8, <1>10, PacketLength
  <2>2. Types'
    BY <1>1, <1>7, <1>8, <1>10, <2>1 DEF IInv, Types, TypeOK, transportVars
  <2>3. ThreadInv'
    BY <1>2, <1>7, <1>10 DEF ThreadInv
  <2> QED BY <1>3, <1>4, <2>2, <2>3 DEF IInv
<1> QED BY <1>1, <1>9, <1>10

\* A chunk that is used up is popped.
LEMMA EndStep ==
    ASSUME IInv, RecvEnd
    PROVE  IInv'
<1>1. /\ tpc = "end" /\ tpc' \in {"loop", "direct"}
      /\ UNCHANGED <<transportVars, lost, active, threadVars>>
      /\ \/ queue' = Tail(queue) /\ tpc' = "loop"
         \/ queue' = queue
  BY DEF RecvEnd
<1>2. queue # << >> /\ queue \in Seq(Seq(Nat)) /\ Len(queue) <= QueueSize
  BY <1>1 DEF IInv, ThreadInv, Types, TypeOK
<1>3. queue' \in Seq(Seq(Nat)) /\ Len(queue') <= QueueSize
  <2>1. Tail(queue) \in Seq(Seq(Nat)) /\ Len(Tail(queue)) = Len(queue) - 1 /\ Len(queue) \in Nat
    BY <1>2
  <2> DEFINE l == Len(queue)
             k == Len(Tail(queue))
  <2>2. k <= QueueSize
    <3>1. l <= QueueSize /\ k = l - 1 /\ l \in Nat
      BY <1>2, <2>1
    <3> HIDE DEF l, k
    <3> QED BY <3>1, QueueSizeAssumption
  <2> QED BY <1>1, <1>2, <2>1, <2>2, Zenon
<1>4. Types'
  BY <1>1, <1>3 DEF IInv, Types, TypeOK, transportVars, threadVars
<1>5. ThreadInv'
  BY <1>1, <1>2 DEF IInv, ThreadInv, threadVars
<1>6. DevicesInv' /\ AtMostOneLeaks'
  BY <1>1, BetweenPackets DEF threadVars
<1>7. Bytes'
  BY EndBytes DEF IInv
<1> QED BY <1>4, <1>5, <1>6, <1>7 DEF IInv

\* A legal packet names one of the gamepads.
LEMMA LegalIndex ==
    ASSUME IInv, tpc = "event", Legal(event)
    PROVE  idx \in Indexes
<1>1. event \in Seq(Nat) /\ event # << >>
  BY DEF IInv, Types, ThreadInv
<1>2. event[1] \in Nat
  BY <1>1
<1> QED BY <1>2, MaxGamepadsAssumption DEF Legal, idx, Indexes

\* A packet is dropped, or written to its device.
LEMMA EventStep ==
    ASSUME IInv, DropIllegal \/ UpdateGamepad
    PROVE  IInv'
<1>1. /\ tpc = "event" /\ EventDone
      /\ UNCHANGED <<transportVars, queue, lost, active, buffer, resume, gamepads>>
  BY DEF DropIllegal, UpdateGamepad
<1>2. event \in Seq(Nat) /\ injected \in Seq(Seq(Nat)) /\ resume \in {"copy", "end"} /\ queue # << >>
  BY <1>1 DEF IInv, Types, TypeOK, ThreadInv
<1>3. event' \in Seq(Nat) /\ event' = << >> /\ injected' \in Seq(Seq(Nat)) /\ tpc' = resume
  BY <1>1, <1>2 DEF EventDone
<1>4. device = [i \in Indexes |-> device[i]]
      /\ \A i \in Indexes : device[i] = Closed \/ DOMAIN device[i] = DOMAIN Neutral
  BY DEF IInv, Types, TypeOK
<1>5. /\ device' = [i \in Indexes |-> device'[i]]
      /\ \A i \in Indexes : device'[i] = Closed \/ DOMAIN device'[i] = DOMAIN Neutral
      /\ \A i \in Indexes : device'[i] # Closed => gamepads[i] = "open"
  <2>1. \A i \in Indexes : device[i] # Closed => gamepads[i] = "open"
    BY <1>1 DEF IInv, DevicesInv
  <2>2. CASE DropIllegal
    BY <1>4, <2>1, <2>2 DEF DropIllegal
  <2>3. CASE UpdateGamepad
    <3> DEFINE w == gamepad_update(device[idx], GamepadState(event))
    <3>1. idx \in Indexes /\ gamepads[idx] = "open" /\ device' = [device EXCEPT ![idx] = w]
      BY <2>3, LegalIndex DEF UpdateGamepad
    <3>2. DOMAIN w = DOMAIN Neutral
      BY DEF gamepad_update
    <3> HIDE DEF w
    <3>3. device' = [i \in Indexes |-> IF i = idx THEN w ELSE device[i]]
      BY <1>4, <3>1
    <3> QED BY <1>4, <2>1, <3>1, <3>2, <3>3
  <2> QED BY <2>2, <2>3
<1>6. Types'
  BY <1>1, <1>2, <1>3, <1>5 DEF IInv, Types, TypeOK, transportVars, Indexes, Neutral
<1>7. ThreadInv'
  BY <1>1, <1>2, <1>3 DEF ThreadInv
<1>8. DevicesInv' /\ AtMostOneLeaks'
  BY <1>1, <1>2, <1>3, <1>5 DEF DevicesInv, AtMostOneLeaks, Indexes
<1>9. Bytes'
  BY <1>1, EventBytes DEF IInv, transportVars
<1> QED BY <1>6, <1>7, <1>8, <1>9 DEF IInv

\* The first packet of a gamepad.
LEMMA CreateGamepadStep ==
    ASSUME IInv, CreateGamepad
    PROVE  IInv'
<1>1. /\ tpc = "event" /\ Legal(event) /\ gamepad_init(idx)
      /\ UNCHANGED <<transportVars, queue, lost, active, buffer, event, resume, gamepads, injected>>
  BY DEF CreateGamepad
<1>2. /\ idx \in Indexes /\ idx = event'[1] /\ event' \in Seq(Nat) /\ event' # << >>
      /\ resume' \in {"loop", "copy", "end"} /\ (resume' # "loop" => queue # << >>)
  BY <1>1, LegalIndex DEF IInv, Types, TypeOK, ThreadInv, idx
<1>3. Types' /\ ThreadInv' /\ DevicesInv' /\ AtMostOneLeaks'
  BY <1>1, <1>2, CreateStep
<1>4. Bytes'
  BY <1>1, StillBytes DEF IInv, InFlight, transportVars
<1> QED BY <1>3, <1>4 DEF IInv

\* A pointer that was never set.
LEMMA WildStep ==
    ASSUME IInv, UpdateWild
    PROVE  IInv'
<1>1. tpc' = "crashed" /\ UNCHANGED <<transportVars, queue, lost, active, threadVars>>
  BY DEF UpdateWild
<1>2. Types'
  BY <1>1 DEF IInv, Types, TypeOK, transportVars, threadVars
<1>3. ThreadInv' /\ DevicesInv' /\ AtMostOneLeaks'
  BY <1>1 DEF ThreadInv, DevicesInv, AtMostOneLeaks
<1>4. Bytes'
  BY <1>1, StillBytes DEF IInv, InFlight, transportVars, threadVars
<1> QED BY <1>2, <1>3, <1>4 DEF IInv

-----------------------------------------------------------------------------
(* Theorems *)

\* Every step of Next, and a step that changes nothing, keeps the invariant.
LEMMA NextInv == ASSUME IInv, [Next]_vars PROVE IInv'
<1>1. CASE \E p \in Packets : ClientSends(p)
  BY <1>1, ClientStep
<1>2. CASE \E n \in 0 .. Len(stream) : OnCanRead(n)
  BY <1>2, ReadStep
<1>3. CASE StopSession
  BY <1>3, StopStep
<1>4. CASE ThreadStep
  BY <1>4, MainStep, ReadyStep, WaitStep, PopOldStep, DirectStep, CopyStep, EndStep,
     EventStep, CreateGamepadStep, WildStep DEF ThreadStep
<1>5. CASE input_main_malloc_fails \/ input_main_init_fails
  BY <1>5, StartFails
<1>6. CASE EventFails
  BY <1>6, DestroyStep DEF EventFails
<1>7. CASE Cancel
  BY <1>7, DestroyStep DEF Cancel
<1>8. CASE UNCHANGED vars
  <2>1. /\ UNCHANGED <<sent, stream, empties, split, queue, lost, active, tpc>>
        /\ UNCHANGED <<buffer, event, resume, gamepads, device, injected>>
    BY <1>8 DEF vars, transportVars, threadVars
  <2>2. Types'
    BY <2>1 DEF IInv, Types, TypeOK
  <2>3. ThreadInv' /\ DevicesInv' /\ AtMostOneLeaks'
    BY <2>1, OutsideStep DEF IInv, threadVars
  <2>4. Bytes'
    BY <2>1, StillBytes DEF IInv, InFlight
  <2> QED BY <2>2, <2>3, <2>4 DEF IInv
<1> QED BY <1>1, <1>2, <1>3, <1>4, <1>5, <1>6, <1>7, <1>8 DEF Next, Failure

\* The inductive invariant of the input path: types, where the thread is and
\* what it holds, the devices and their pointers, and the bytes.
THEOREM InputInvariant == Spec => []IInv
<1>1. Init => IInv
  BY InitInv
<1>2. IInv /\ [Next]_vars => IInv'
  BY NextInv
<1> QED BY <1>1, <1>2, PTL DEF Spec

\* input_recv_raw keeps every byte of the chunks it is given in its place,
\* however the reads cut the stream into chunks and whatever the length of a
\* packet, and never leaves a whole packet in its buffer.
THEOREM BytesInOrder == Spec => []EveryByteInOrder
<1>1. IInv => EveryByteInOrder
  BY DEF IInv, Types, Bytes, Cat, EveryByteInOrder
<1> QED BY <1>1, InputInvariant, PTL

\* When the Input thread has ended without a crash, at most one device of the
\* kernel is left, for any number of gamepads and wherever it was cancelled.
THEOREM OneDeviceLeaks == Spec => []AtMostOneLeaks
<1>1. IInv => AtMostOneLeaks
  BY DEF IInv
<1> QED BY <1>1, InputInvariant, PTL

-----------------------------------------------------------------------------
(* Runs of whole packets *)

\* The bytes of packets a + 1 to b of s.
Packs(s, a, b) == Joined(SubSeq(s, a + 1, b))

\* They are bytes.
LEMMA PacksType ==
    ASSUME NEW s \in Seq(Seq(Nat)), NEW a \in 0 .. Len(s), NEW b \in 0 .. Len(s)
    PROVE  SubSeq(s, a + 1, b) \in Seq(Seq(Nat)) /\ Packs(s, a, b) \in Seq(Nat)
<1>1. Len(s) \in Nat
  OBVIOUS
<1>2. \A i \in a + 1 .. b : s[i] \in Seq(Nat)
  BY <1>1
<1>3. SubSeq(s, a + 1, b) \in Seq(Seq(Nat))
  BY <1>1, <1>2
<1> QED BY <1>3, JoinedType, Zenon DEF Packs

\* No packets, no bytes.
LEMMA PacksEmpty ==
    ASSUME NEW s \in Seq(Seq(Nat)), NEW a \in 0 .. Len(s)
    PROVE  Packs(s, a, a) = << >>
<1>1. SubSeq(s, a + 1, a) = << >>
  OBVIOUS
<1> QED BY <1>1, JoinedEmpty, Zenon DEF Packs

\* The first packet comes first.
LEMMA PacksHead ==
    ASSUME NEW s \in Seq(Seq(Nat)), NEW a \in 0 .. Len(s), NEW b \in 0 .. Len(s), a < b
    PROVE  /\ s[a + 1] \in Seq(Nat) /\ Packs(s, a + 1, b) \in Seq(Nat)
           /\ Packs(s, a, b) = Cat(s[a + 1], Packs(s, a + 1, b))
<1> DEFINE t == SubSeq(s, a + 1, b)
<1>1. Len(s) \in Nat /\ a + 1 \in 1 .. Len(s) /\ b \in a + 1 .. Len(s) /\ a + 1 \in 0 .. Len(s)
  OBVIOUS
<1>2. Head(t) = s[a + 1] /\ Tail(t) = SubSeq(s, a + 1 + 1, b)
  BY <1>1
<1>3. t \in Seq(Seq(Nat)) /\ Packs(s, a + 1, b) \in Seq(Nat)
  BY <1>1, PacksType
<1>4. t # << >>
  <2>1. \A i \in a + 1 .. b : s[i] \in Seq(Nat)
    BY <1>1
  <2>2. Len(t) = b - (a + 1) + 1
    BY <1>1, <2>1
  <2> HIDE DEF t
  <2> QED BY <1>1, <1>3, <2>2
<1>5. s[a + 1] \in Seq(Nat)
  BY <1>1
<1> HIDE DEF t
<1>6. Joined(t) = Cat(Head(t), Joined(Tail(t)))
  BY <1>3, <1>4, JoinedHead DEF Cat
<1> QED BY <1>2, <1>3, <1>5, <1>6, Zenon DEF Packs, t

\* A run can be cut between two packets.
LEMMA PacksSplit ==
    ASSUME NEW s \in Seq(Seq(Nat)), NEW b \in 0 .. Len(s), NEW c \in b .. Len(s),
           NEW z \in 0 .. b
    PROVE  Packs(s, z, c) = Cat(Packs(s, z, b), Packs(s, b, c))
<1> DEFINE Bad(a) == Packs(s, a, c) # Cat(Packs(s, a, b), Packs(s, b, c))
           T == {d \in Nat : \E a \in 0 .. b : d = b - a /\ Bad(a)}
<1>1. Len(s) \in Nat /\ b \in Nat /\ c \in 0 .. Len(s) /\ z \in 0 .. Len(s)
  OBVIOUS
<1> SUFFICES ASSUME T # {} PROVE FALSE
  <2>1. ASSUME Bad(z) PROVE b - z \in T
    BY <1>1, <2>1
  <2> QED BY <2>1, Zenon
<1>2. T \in SUBSET Nat
  OBVIOUS
<1>3. PICK d \in T : \A y \in T : d <= y
  BY <1>2, LeastNumber, Zenon
<1>4. PICK a \in 0 .. b : d = b - a /\ Bad(a)
  OBVIOUS
<1>5. Packs(s, b, c) \in Seq(Nat)
  BY <1>1, PacksType
<1>6. CASE a = b
  BY <1>1, <1>4, <1>5, <1>6, PacksEmpty, CatBytes
<1>7. CASE a # b
  <2>1. /\ a < b /\ a < c /\ a + 1 \in 0 .. b /\ a \in 0 .. Len(s)
        /\ b - (a + 1) \in Nat /\ ~(d <= b - (a + 1))
    BY <1>1, <1>4, <1>7
  <2>2. /\ s[a + 1] \in Seq(Nat) /\ Packs(s, a + 1, b) \in Seq(Nat)
        /\ Packs(s, a, b) = Cat(s[a + 1], Packs(s, a + 1, b))
    BY <1>1, <2>1, PacksHead
  <2>3. Packs(s, a, c) = Cat(s[a + 1], Packs(s, a + 1, c))
    BY <1>1, <2>1, PacksHead
  <2>4. b - (a + 1) \notin T
    <3> HIDE DEF T
    <3> QED BY <1>3, <2>1
  <2>5. ~Bad(a + 1)
    BY <2>1, <2>4
  <2>6. Cat(Cat(s[a + 1], Packs(s, a + 1, b)), Packs(s, b, c))
        = Cat(s[a + 1], Cat(Packs(s, a + 1, b), Packs(s, b, c)))
    BY <1>5, <2>2, CatAssociative
  <2> HIDE DEF T
  <2> QED BY <1>4, <2>2, <2>3, <2>5, <2>6
<1> QED BY <1>6, <1>7

\* Its length is a multiple of a packet's.
LEMMA PacksLength ==
    ASSUME NEW s \in Seq(Packets), NEW b \in 0 .. Len(s), NEW z \in 0 .. b
    PROVE  Len(Packs(s, z, b)) = (b - z) * INPUT_PKT_LENGTH
<1> DEFINE L == INPUT_PKT_LENGTH
           Bad(a) == Len(Packs(s, a, b)) # (b - a) * L
           T == {d \in Nat : \E a \in 0 .. b : d = b - a /\ Bad(a)}
<1>1. Len(s) \in Nat /\ b \in Nat /\ L \in Nat
  BY PacketLength
<1>2. s \in Seq(Seq(Nat))
  BY PacketsAssumption
<1> HIDE DEF L
<1> SUFFICES ASSUME T # {} PROVE FALSE
  <2>1. ASSUME Bad(z) PROVE b - z \in T
    BY <1>1, <2>1
  <2> QED BY <2>1, Zenon DEF L
<1>3. T \in SUBSET Nat
  OBVIOUS
<1>4. PICK d \in T : \A y \in T : d <= y
  BY <1>3, LeastNumber, Zenon
<1>5. PICK a \in 0 .. b : d = b - a /\ Bad(a)
  OBVIOUS
<1>6. CASE a = b
  <2>1. Packs(s, a, b) = << >>
    BY <1>1, <1>2, <1>6, PacksEmpty
  <2>2. (b - a) * L = 0
    BY <1>1, <1>6
  <2> QED BY <1>5, <2>1, <2>2
<1>7. CASE a # b
  <2>1. /\ a < b /\ a + 1 \in 0 .. b /\ a \in 0 .. Len(s) /\ a + 1 \in 1 .. Len(s)
        /\ b - (a + 1) \in Nat /\ ~(d <= b - (a + 1))
    BY <1>1, <1>5, <1>7
  <2>2. /\ s[a + 1] \in Seq(Nat) /\ Packs(s, a + 1, b) \in Seq(Nat)
        /\ Packs(s, a, b) = s[a + 1] \o Packs(s, a + 1, b)
    BY <1>1, <1>2, <2>1, PacksHead, Zenon DEF Cat
  <2>3. Len(s[a + 1]) = L
    BY <2>1, PacketsAssumption DEF L
  <2>4. Len(Packs(s, a, b)) = Len(s[a + 1]) + Len(Packs(s, a + 1, b))
    BY <2>2
  <2>5. b - (a + 1) \notin T
    <3> HIDE DEF T
    <3> QED BY <1>4, <2>1
  <2>6. ~Bad(a + 1)
    BY <2>1, <2>5
  <2>7. (b - a) * L = L + (b - (a + 1)) * L
    BY <1>1, <2>1
  <2> HIDE DEF T
  <2> QED BY <1>5, <2>3, <2>4, <2>6, <2>7
<1> QED BY <1>6, <1>7

\* The two parts of a concatenation, by length.
LEMMA CutCat ==
    ASSUME NEW x \in Seq(Nat), NEW y \in Seq(Nat)
    PROVE  /\ SubSeq(Cat(x, y), 1, Len(x)) = x
           /\ SubSeq(Cat(x, y), Len(x) + 1, Len(Cat(x, y))) = y
           /\ Len(Cat(x, y)) = Len(x) + Len(y)
<1> DEFINE w == x \o y
<1>1. /\ w \in Seq(Nat) /\ Len(w) = Len(x) + Len(y) /\ Len(x) \in Nat /\ Len(y) \in Nat
      /\ \A i \in 1 .. Len(x) + Len(y) : w[i] = IF i <= Len(x) THEN x[i] ELSE y[i - Len(x)]
  OBVIOUS
<1> HIDE DEF w
<1>2. \A i \in 1 .. Len(w) : w[i] \in Nat
  BY <1>1
<1>3. SubSeq(w, 1, Len(x)) = x
  <2> DEFINE u == SubSeq(w, 1, Len(x))
  <2>1. /\ u \in Seq(Nat) /\ Len(u) = IF 1 <= Len(x) THEN Len(x) - 1 + 1 ELSE 0
        /\ \A i \in 1 .. Len(x) - 1 + 1 : u[i] = w[1 + i - 1]
    BY <1>1, <1>2
  <2> HIDE DEF u
  <2>2. Len(u) = Len(x) /\ \A i \in 1 .. Len(u) : u[i] = x[i]
    BY <1>1, <2>1
  <2>3. u = x
    BY <2>1, <2>2
  <2> QED BY <2>3 DEF u
<1>4. SubSeq(w, Len(x) + 1, Len(w)) = y
  <2> DEFINE m == Len(x) + 1
             u == SubSeq(w, m, Len(w))
  <2>1. /\ u \in Seq(Nat) /\ Len(u) = IF m <= Len(w) THEN Len(w) - m + 1 ELSE 0
        /\ \A i \in 1 .. Len(w) - m + 1 : u[i] = w[m + i - 1]
    BY <1>1, <1>2
  <2> HIDE DEF u
  <2>2. Len(u) = Len(y) /\ \A i \in 1 .. Len(u) : u[i] = y[i]
    <3>1. Len(w) - m + 1 = Len(y) /\ m \in Nat
      BY <1>1
    <3>2. Len(u) = Len(y)
      BY <1>1, <2>1, <3>1
    <3>3. ASSUME NEW i \in 1 .. Len(y) PROVE u[i] = y[i]
      <4>0. i \in 1 .. Len(w) - m + 1 /\ m + i - 1 = Len(x) + i
        BY <1>1, <3>1
      <4>1. u[i] = w[Len(x) + i]
        <5>1. u[i] = w[m + i - 1]
          BY <2>1, <4>0
        <5> QED BY <4>0, <5>1
      <4>2. Len(x) + i \in 1 .. Len(x) + Len(y) /\ ~(Len(x) + i <= Len(x)) /\ Len(x) + i - Len(x) = i
        BY <1>1
      <4> QED BY <1>1, <4>1, <4>2
    <3> QED BY <3>2, <3>3
  <2>3. u = y
    BY <2>1, <2>2, SeqEqual, Zenon
  <2> QED BY <2>3 DEF u
<1> QED BY <1>1, <1>3, <1>4 DEF w, Cat

\* A read that leaves a multiple of a packet's length ends between two packets.
LEMMA PacksCut ==
    ASSUME NEW s \in Seq(Packets), NEW a \in 0 .. Len(s), NEW b \in a .. Len(s), NEW w,
           w = Packs(s, a, b), NEW n \in 0 .. Len(w),
           Len(SubSeq(w, n + 1, Len(w))) % INPUT_PKT_LENGTH = 0
    PROVE  \E m \in a .. b :
              /\ SubSeq(w, 1, n) = Packs(s, a, m)
              /\ SubSeq(w, n + 1, Len(w)) = Packs(s, m, b)
              /\ n # 0 => a < m
<1> DEFINE L == INPUT_PKT_LENGTH
           k == Len(SubSeq(w, n + 1, Len(w)))
           q == k \div L
           m == b - q
<1>1. Len(s) \in Nat /\ a \in Nat /\ b \in Nat /\ b \in 0 .. Len(s) /\ a \in 0 .. b /\ L \in Nat \ {0}
  BY PacketLength
<1>2. s \in Seq(Seq(Nat))
  BY PacketsAssumption
<1>3. w \in Seq(Nat) /\ Len(w) \in Nat
  BY <1>1, <1>2, PacksType
<1>4. k = Len(w) - n /\ k \in Nat
  <2>1. \A i \in n + 1 .. Len(w) : w[i] \in Nat
    BY <1>3
  <2>2. k = IF n + 1 <= Len(w) THEN Len(w) - (n + 1) + 1 ELSE 0
    BY <1>3, <2>1
  <2> HIDE DEF k
  <2> QED BY <1>3, <2>2
<1>5. Len(w) = (b - a) * L
  BY <1>1, PacksLength
<1>6. k % L = 0
  OBVIOUS
<1> HIDE DEF L, k
<1>7. q \in Nat /\ k = q * L
  <2>1. q \in Nat
    BY <1>1, <1>4
  <2>2. k = L * q + (k % L)
    BY <1>1, <1>4
  <2> QED BY <1>1, <1>6, <2>1, <2>2
<1> HIDE DEF q
<1>8. m \in a .. b /\ m \in 0 .. Len(s) /\ b \in m .. Len(s)
  <2>1. q * L <= (b - a) * L /\ b - a \in Nat
    <3>1. b - a \in Nat
      BY <1>1
    <3>2. k <= Len(w)
      BY <1>3, <1>4
    <3> QED BY <1>5, <1>7, <3>1, <3>2 DEF L
  <2>2. q <= b - a
    BY <1>1, <1>7, <2>1
  <2> QED BY <1>1, <1>7, <2>2
<1>9. w = Cat(Packs(s, a, m), Packs(s, m, b))
  BY <1>1, <1>2, <1>8, PacksSplit
<1>10. Packs(s, a, m) \in Seq(Nat) /\ Packs(s, m, b) \in Seq(Nat)
  BY <1>1, <1>2, <1>8, PacksType
<1>11. Len(Packs(s, a, m)) = (m - a) * L
  BY <1>1, <1>8, PacksLength DEF L
<1>12. (m - a) * L = n
  <2>1. (m - a) * L = (b - a) * L - q * L
    BY <1>1, <1>7
  <2> QED BY <1>3, <1>4, <1>5, <1>7, <2>1
<1>13. n # 0 => a < m
  BY <1>1, <1>8, <1>12
<1> HIDE DEF m
<1>14. SubSeq(w, 1, n) = Packs(s, a, m) /\ SubSeq(w, n + 1, Len(w)) = Packs(s, m, b)
  <2> DEFINE x == Packs(s, a, m)
             y == Packs(s, m, b)
  <2>1. x \in Seq(Nat) /\ y \in Seq(Nat) /\ Len(x) = n /\ w = Cat(x, y)
    BY <1>9, <1>10, <1>11, <1>12
  <2> HIDE DEF x, y
  <2>2. SubSeq(w, 1, n) = x /\ SubSeq(w, n + 1, Len(w)) = y
    <3>1. /\ SubSeq(Cat(x, y), 1, Len(x)) = x
          /\ SubSeq(Cat(x, y), Len(x) + 1, Len(Cat(x, y))) = y
      BY <2>1, CutCat, Zenon
    <3> QED BY <2>1, <3>1, Zenon
  <2> QED BY <2>2 DEF x, y
<1> QED BY <1>8, <1>13, <1>14

\* A packet sent later changes no earlier run, and ends the last one.
LEMMA PacksAppend ==
    ASSUME NEW s \in Seq(Seq(Nat)), NEW p \in Seq(Nat), NEW a \in 0 .. Len(s)
    PROVE  /\ \A b \in 0 .. Len(s) : Packs(Append(s, p), a, b) = Packs(s, a, b)
           /\ Packs(Append(s, p), a, Len(s) + 1) = Cat(Packs(s, a, Len(s)), p)
<1> DEFINE t == Append(s, p)
           N == Len(s)
<1>1. /\ t \in Seq(Seq(Nat)) /\ Len(t) = N + 1 /\ t[N + 1] = p /\ N \in Nat
      /\ \A i \in 1 .. N : t[i] = s[i] /\ s[i] \in Seq(Nat)
  OBVIOUS
<1> HIDE DEF t, N
<1>2. ASSUME NEW b \in 0 .. N PROVE Packs(t, a, b) = Packs(s, a, b)
  <2> DEFINE u == SubSeq(t, a + 1, b)
             v == SubSeq(s, a + 1, b)
             l == IF a + 1 <= b THEN b - (a + 1) + 1 ELSE 0
  <2>1. a \in Nat /\ b \in Nat /\ \A i \in a + 1 .. b : i \in 1 .. N
    BY <1>1 DEF N
  <2>0. \A i \in a + 1 .. b : t[i] \in Seq(Nat) /\ s[i] \in Seq(Nat) /\ t[i] = s[i]
    BY <1>1, <2>1
  <2>2. u \in Seq(Seq(Nat)) /\ Len(u) = l /\ \A i \in 1 .. b - (a + 1) + 1 : u[i] = t[a + 1 + i - 1]
    BY <2>0, <2>1
  <2>3. v \in Seq(Seq(Nat)) /\ Len(v) = l /\ \A i \in 1 .. b - (a + 1) + 1 : v[i] = s[a + 1 + i - 1]
    BY <2>0, <2>1
  <2> HIDE DEF u, v
  <2>4. ASSUME NEW i \in 1 .. l PROVE u[i] = v[i]
    <3>1. i \in 1 .. b - (a + 1) + 1 /\ a + 1 + i - 1 \in a + 1 .. b
      BY <2>1
    <3> QED BY <2>0, <2>2, <2>3, <3>1
  <2>5. u = v
    <3> HIDE DEF l
    <3> QED BY <2>2, <2>3, <2>4
  <2> QED BY <2>5, Zenon DEF Packs, u, v
<1>3. Packs(t, a, N + 1) = Cat(Packs(t, a, N), Packs(t, N, N + 1))
  <2>1. a \in 0 .. N /\ N \in 0 .. Len(t) /\ N + 1 \in N .. Len(t)
    BY <1>1 DEF N
  <2> QED BY <1>1, <2>1, PacksSplit, Zenon
<1>4. Packs(t, N, N + 1) = p
  <2>1. N \in 0 .. Len(t) /\ N + 1 \in 0 .. Len(t) /\ N < N + 1
    BY <1>1
  <2>2. Packs(t, N, N + 1) = Cat(t[N + 1], Packs(t, N + 1, N + 1))
    BY <1>1, <2>1, PacksHead, Zenon
  <2>3. Packs(t, N + 1, N + 1) = << >>
    BY <1>1, <2>1, PacksEmpty
  <2> QED BY <1>1, <2>2, <2>3, CatBytes
<1>5. N \in 0 .. N
  BY <1>1
<1> QED BY <1>2, <1>3, <1>4, <1>5, Zenon DEF t, N
-----------------------------------------------------------------------------
(* Packets, when no read ends inside one *)

\* The Input thread is alive.
Running == tpc \notin {"exited", "crashed"}

\* A packet of the client is being handled; a chunk is being parsed.
InHand == tpc \in {"event", "settle"} /\ resume # "loop"
InUse == tpc \in {"direct", "copy", "end"} \/ InHand

\* The packets handled are packets of the client, in its order: at gives their
\* places, none after done.
Handled(at, done) ==
    /\ done \in 0 .. Len(sent)
    /\ at \in [1 .. Len(injected) -> 1 .. done]
    /\ \A k \in 1 .. Len(injected) : injected[k] = sent[at[k]]
    /\ \A k, l \in 1 .. Len(injected) : k < l => at[k] < at[l]

\* done is the place of the packet in hand, or else of the last one handled.
Hand(at, done) ==
    /\ InHand => done # 0 /\ event = sent[done] /\ \A k \in 1 .. Len(injected) : at[k] < done
    /\ ~InHand => IF injected = << >> THEN done = 0 ELSE at[Len(injected)] = done

\* Chunk k of the queue is the packets after from[k] up to to[k], and the
\* stream those after lo; chunks are in order and come after what is done.
Chunks(from, to, done, lo) ==
    /\ lo \in done .. Len(sent) /\ stream = Packs(sent, lo, Len(sent))
    /\ from \in [1 .. Len(queue) -> done .. lo] /\ to \in [1 .. Len(queue) -> done .. lo]
    /\ \A k \in 1 .. Len(queue) : from[k] <= to[k] /\ queue[k] = Packs(sent, from[k], to[k])
    /\ \A k, l \in 1 .. Len(queue) : k < l => to[k] <= from[l]

\* Without empty chunks and full queues, the newest packet read is in the last
\* chunk or has been taken.
Newest(from, to, done, lo) ==
    empties = 0 /\ "full" \notin lost =>
        /\ queue = << >> => done = lo
        /\ queue # << >> => to[Len(queue)] = lo
        /\ \A k \in 1 .. Len(queue) : k > 1 \/ ~InUse => from[k] < to[k]
        /\ InUse /\ from[1] = to[1] => done = to[1]

\* Where the packets sent are: handled, in hand, in the queue or in the stream.
Laid(at, done, from, to, lo) ==
    /\ Handled(at, done) /\ Hand(at, done)
    /\ Chunks(from, to, done, lo) /\ Newest(from, to, done, lo)

\* While no read ended inside a packet there is such an account of the packets,
\* and no part of one waits in the buffer.
PacketsInv ==
    ~split =>
        IF Running THEN buffer = << >> /\ \E at, done, from, to, lo : Laid(at, done, from, to, lo)
                   ELSE \E at, done : Handled(at, done)

\* No packet of ps after the k-th is for gamepad i.
NoneAfter(ps, k, i) == \A l \in k + 1 .. Len(ps) : ps[l][1] # i

\* Device i, of state d and with pointer g, shows the last of the packets ps
\* that is for it; without such a packet it is at rest, if it is there.
Shows(ps, g, d, i) ==
    /\ NoneAfter(ps, 0, i) => d \in {Closed, Neutral}
    /\ \A k \in 1 .. Len(ps) :
          ps[k][1] = i /\ NoneAfter(ps, k, i) => g = "open" /\ d = GamepadState(ps[k])

\* Every device shows the last packet handled for it.
ShownInv == Running => \A i \in Indexes : Shows(injected, gamepads[i], device[i], i)

-----------------------------------------------------------------------------
(* Steps and packets *)

\* A step that takes and gives no packet.
LEMMA StillPackets ==
    ASSUME PacketsInv, UNCHANGED <<sent, stream, split, queue, injected, empties, lost>>,
           Running' => /\ Running /\ buffer' = buffer
                       /\ InHand' = InHand /\ (InHand => event' = event)
                       /\ InUse' = InUse
    PROVE  PacketsInv'
<1> SUFFICES ASSUME ~split PROVE PacketsInv'
  BY DEF PacketsInv
<1>1. CASE Running'
  <2>1. buffer = << >>
    BY <1>1 DEF PacketsInv
  <2>2. PICK at, done, from, to, lo : Laid(at, done, from, to, lo)
    BY <1>1 DEF PacketsInv
  <2>3. Handled(at, done)' /\ Hand(at, done)'
    BY <1>1, <2>2 DEF Laid, Handled, Hand
  <2>4. Chunks(from, to, done, lo)'
    BY <2>2 DEF Laid, Chunks
  <2>5. Newest(from, to, done, lo)'
    BY <1>1, <2>2 DEF Laid, Newest
  <2>6. Laid(at, done, from, to, lo)'
    BY <2>3, <2>4, <2>5 DEF Laid
  <2> QED BY <1>1, <2>1, <2>6 DEF PacketsInv
<1>2. CASE ~Running'
  <2>1. PICK at, done : Handled(at, done)
    BY DEF PacketsInv, Laid
  <2>2. Handled(at, done)'
    BY <2>1 DEF Handled
  <2> QED BY <1>2, <2>2 DEF PacketsInv
<1> QED BY <1>1, <1>2

\* The bounds of the runs, and their sequences.
LEMMA RunBounds ==
    ASSUME IInv, NEW at, NEW done, NEW from, NEW to, NEW lo, Laid(at, done, from, to, lo)
    PROVE  /\ sent \in Seq(Seq(Nat)) /\ sent \in Seq(Packets) /\ queue \in Seq(Seq(Nat))
           /\ injected \in Seq(Seq(Nat))
           /\ Len(sent) \in Nat /\ Len(queue) \in Nat /\ Len(injected) \in Nat
           /\ done \in 0 .. Len(sent) /\ lo \in 0 .. Len(sent) /\ done <= lo
           /\ \A k \in 1 .. Len(queue) : from[k] \in done .. lo /\ to[k] \in done .. lo
           /\ \A k \in 1 .. Len(injected) : at[k] \in 1 .. done
<1>1. sent \in Seq(Packets) /\ queue \in Seq(Seq(Nat)) /\ injected \in Seq(Seq(Nat))
  BY DEF IInv, Types, TypeOK
<1>2. sent \in Seq(Seq(Nat))
  BY <1>1, PacketsAssumption
<1>3. Len(sent) \in Nat /\ Len(queue) \in Nat /\ Len(injected) \in Nat
  BY <1>1
<1>4. done \in 0 .. Len(sent) /\ lo \in done .. Len(sent)
  BY DEF Laid, Handled, Chunks
<1>5. \A k \in 1 .. Len(queue) : from[k] \in done .. lo /\ to[k] \in done .. lo
  BY DEF Laid, Chunks
<1>6. \A k \in 1 .. Len(injected) : at[k] \in 1 .. done
  BY DEF Laid, Handled
<1> QED BY <1>1, <1>2, <1>3, <1>4, <1>5, <1>6

\* The one chunk that _rbuf_pop_old has left is taken into use.
LEMMA StartPackets ==
    ASSUME IInv, PacketsInv, PopOld, Len(queue) = 1, UNCHANGED <<queue, lost>>, tpc' = "direct"
    PROVE  PacketsInv'
<1> SUFFICES ASSUME ~split PROVE PacketsInv'
  BY DEF PacketsInv, PopOld, transportVars
<1>1. tpc = "old" /\ UNCHANGED <<sent, stream, empties, split, buffer, event, resume, injected>>
  BY DEF PopOld, transportVars, threadVars
<1>2. Running /\ Running' /\ ~InHand /\ ~InHand' /\ ~InUse
  BY <1>1 DEF Running, InHand, InUse
<1>3. buffer' = << >>
  BY <1>1, <1>2 DEF PacketsInv
<1>4. PICK at, done, from, to, lo : Laid(at, done, from, to, lo)
  BY <1>2 DEF PacketsInv
<1>5. Handled(at, done)' /\ Hand(at, done)' /\ Chunks(from, to, done, lo)'
  BY <1>1, <1>2, <1>4, Zenon DEF Laid, Handled, Hand, Chunks
<1>6. Newest(from, to, done, lo)'
  <2>1. from[1] \in Int /\ to[1] \in Int
    BY <1>4, RunBounds
  <2>2. empties = 0 /\ "full" \notin lost =>
           /\ queue = << >> => done = lo
           /\ queue # << >> => to[Len(queue)] = lo
           /\ \A k \in 1 .. Len(queue) : from[k] < to[k]
    BY <1>2, <1>4 DEF Laid, Newest
  <2>3. empties = 0 /\ "full" \notin lost => from[1] # to[1]
    BY <2>1, <2>2
  <2>4. UNCHANGED <<empties, lost, queue>>
    BY <1>1
  <2> QED BY <2>2, <2>3, <2>4, Zenon DEF Newest
<1>7. Laid(at, done, from, to, lo)'
  BY <1>5, <1>6 DEF Laid
<1> QED BY <1>2, <1>3, <1>7 DEF PacketsInv

\* The client sends one more packet.
LEMMA SendPackets ==
    ASSUME IInv, PacketsInv, NEW p \in Packets, ClientSends(p)
    PROVE  PacketsInv'
<1> SUFFICES ASSUME ~split PROVE PacketsInv'
  BY DEF PacketsInv, ClientSends
<1>1. /\ sent' = Append(sent, p) /\ stream' = Cat(stream, p)
      /\ UNCHANGED <<queue, empties, split, lost, tpc, buffer, event, resume, injected>>
  BY DEF ClientSends, threadVars, Cat
<1>2. p \in Seq(Nat) /\ sent \in Seq(Seq(Nat)) /\ Len(sent) \in Nat
  BY PacketsAssumption, Parts DEF IInv
<1>3. Len(sent') = Len(sent) + 1 /\ \A k \in 1 .. Len(sent) : sent'[k] = sent[k]
  BY <1>1, <1>2
<1>4. ASSUME NEW at, NEW done, Handled(at, done)
      PROVE  Handled(at, done)'
  <2>1. done \in 0 .. Len(sent) /\ \A k \in 1 .. Len(injected) : at[k] \in 1 .. done
    BY <1>4 DEF Handled
  <2>2. done \in 0 .. Len(sent') /\ \A k \in 1 .. Len(injected) : at[k] \in 1 .. Len(sent)
    BY <1>2, <1>3, <2>1
  <2> QED BY <1>1, <1>3, <1>4, <2>2 DEF Handled
<1>5. CASE ~Running
  <2>1. PICK at, done : Handled(at, done)
    BY <1>5 DEF PacketsInv
  <2> QED BY <1>1, <1>4, <1>5, <2>1 DEF PacketsInv, Running
<1>6. CASE Running
  <2>1. PICK at, done, from, to, lo : Laid(at, done, from, to, lo)
    BY <1>6 DEF PacketsInv
  <2>2. /\ done \in 0 .. Len(sent) /\ lo \in 0 .. Len(sent) /\ done <= lo
        /\ \A k \in 1 .. Len(queue) : from[k] \in done .. lo /\ to[k] \in done .. lo
    BY <2>1, RunBounds
  <2>3. Running' /\ InHand' = InHand /\ InUse' = InUse /\ buffer' = << >>
    BY <1>1, <1>6 DEF Running, InHand, InUse, PacketsInv
  <2>4. Handled(at, done)'
    BY <1>4, <2>1 DEF Laid
  <2>5. Hand(at, done)'
    <3>1. done # 0 => done \in 1 .. Len(sent)
      BY <1>2, <2>2
    <3> QED BY <1>1, <1>3, <2>1, <2>3, <3>1 DEF Laid, Hand
  <2>6. stream' = Packs(sent', lo, Len(sent'))
    <3>1. stream = Packs(sent, lo, Len(sent))
      BY <2>1 DEF Laid, Chunks
    <3> QED BY <1>1, <1>2, <1>3, <2>2, <3>1, PacksAppend
  <2>7. \A k \in 1 .. Len(queue) : Packs(sent', from[k], to[k]) = Packs(sent, from[k], to[k])
    <3>1. \A k \in 1 .. Len(queue) : from[k] \in 0 .. Len(sent) /\ to[k] \in 0 .. Len(sent)
      BY <1>2, <2>2
    <3> QED BY <1>1, <1>2, <3>1, PacksAppend
  <2>8. Chunks(from, to, done, lo)'
    <3>1. lo \in done .. Len(sent')
      BY <1>2, <1>3, <2>2
    <3> QED BY <1>1, <2>1, <2>6, <2>7, <3>1 DEF Laid, Chunks
  <2>9. Newest(from, to, done, lo)'
    BY <1>1, <2>1, <2>3 DEF Laid, Newest
  <2>10. Laid(at, done, from, to, lo)'
    BY <2>4, <2>5, <2>8, <2>9 DEF Laid
  <2> QED BY <2>3, <2>10 DEF PacketsInv
<1> QED BY <1>5, <1>6

\* A chunk is queued behind the others.
LEMMA QueueGrows ==
    ASSUME NEW q \in Seq(Seq(Nat)), NEW x \in Seq(Nat)
    PROVE  /\ Len(Append(q, x)) = Len(q) + 1 /\ Append(q, x)[Len(q) + 1] = x
           /\ \A k \in 1 .. Len(q) : Append(q, x)[k] = q[k]
           /\ Append(q, x) # << >>
BY AppendOne

\* OnCanRead takes whole packets out of the stream.
LEMMA ReadPackets ==
    ASSUME IInv, PacketsInv, NEW n \in 0 .. Len(stream), OnCanRead(n)
    PROVE  PacketsInv'
<1> SUFFICES ASSUME ~split' PROVE PacketsInv'
  BY DEF PacketsInv
<1>1. /\ ~split /\ Len(SubSeq(stream, n + 1, Len(stream))) % INPUT_PKT_LENGTH = 0
      /\ stream' = SubSeq(stream, n + 1, Len(stream))
      /\ rbuf_push(SubSeq(stream, 1, n))
      /\ UNCHANGED <<sent, tpc, buffer, event, resume, injected>>
  BY Zenon DEF OnCanRead, threadVars
<1>2. empties' = 0 => n # 0 /\ empties = 0
  BY DEF OnCanRead, IInv, Types, TypeOK
<1>3. CASE ~Running
  <2>1. PICK at, done : Handled(at, done)
    BY <1>1, <1>3 DEF PacketsInv
  <2>2. Handled(at, done)'
    BY <1>1, <2>1 DEF Handled
  <2> QED BY <1>1, <1>3, <2>2 DEF PacketsInv, Running
<1>4. CASE Running
  <2>1. PICK at, done, from, to, lo : Laid(at, done, from, to, lo)
    BY <1>1, <1>4 DEF PacketsInv
  <2> DEFINE N == Len(sent)
             l == Len(queue)
             c == SubSeq(stream, 1, n)
  <2>2. /\ sent \in Seq(Packets) /\ queue \in Seq(Seq(Nat)) /\ N \in Nat /\ l \in Nat
        /\ done \in 0 .. N /\ lo \in 0 .. N /\ done <= lo
        /\ \A k \in 1 .. l : from[k] \in done .. lo /\ to[k] \in done .. lo
    BY <2>1, RunBounds
  <2>3. stream = Packs(sent, lo, N)
    BY <2>1 DEF Laid, Chunks
  <2>4. PICK m \in lo .. N :
          /\ c = Packs(sent, lo, m)
          /\ stream' = Packs(sent, m, N)
          /\ n # 0 => lo < m
    <3>1. N \in lo .. N
      BY <2>2
    <3> QED BY <1>1, <2>2, <2>3, <3>1, PacksCut, Zenon
  <2>5. Running' /\ InHand' = InHand /\ InUse' = InUse /\ buffer' = << >>
    BY <1>1, <1>4 DEF Running, InHand, InUse, PacketsInv
  <2>6. Handled(at, done)' /\ Hand(at, done)'
    BY <1>1, <2>1, <2>5 DEF Laid, Handled, Hand
  <2>7. CASE queue' = queue /\ "full" \in lost'
    <3>1. Chunks(from, to, done, m)'
      <4>1. m \in done .. N /\ \A k \in 1 .. l : from[k] \in done .. m /\ to[k] \in done .. m
        BY <2>2
      <4>2. from \in [1 .. l -> done .. m] /\ to \in [1 .. l -> done .. m]
        BY <2>1, <4>1 DEF Laid, Chunks
      <4>3. /\ \A k \in 1 .. l : from[k] <= to[k] /\ queue[k] = Packs(sent, from[k], to[k])
            /\ \A k, j \in 1 .. l : k < j => to[k] <= from[j]
        BY <2>1 DEF Laid, Chunks
      <4>4. sent' = sent /\ queue' = queue /\ stream' = Packs(sent, m, N)
        BY <1>1, <2>4, <2>7
      <4> QED BY <4>1, <4>2, <4>3, <4>4 DEF Chunks
    <3>2. Newest(from, to, done, m)'
      BY <2>7 DEF Newest
    <3>3. Laid(at, done, from, to, m)'
      BY <2>6, <3>1, <3>2 DEF Laid
    <3> QED BY <2>5, <3>3 DEF PacketsInv
  <2>8. CASE queue' = Append(queue, c) /\ lost' = lost
    <3>1. c \in Seq(Nat)
      BY Pieces, Zenon DEF IInv, Types
    <3>2. /\ Len(queue') = l + 1 /\ queue'[l + 1] = c /\ \A k \in 1 .. l : queue'[k] = queue[k]
          /\ queue' # << >>
      <4>1. /\ Len(Append(queue, c)) = l + 1 /\ Append(queue, c)[l + 1] = c
            /\ \A k \in 1 .. l : Append(queue, c)[k] = queue[k]
            /\ Append(queue, c) # << >>
        BY <2>2, <3>1, QueueGrows, Zenon
      <4> HIDE DEF c
      <4> QED BY <2>8, <4>1
    <3> HIDE DEF c
    <3>3. PICK from2, to2 :
             /\ from2 \in [1 .. l + 1 -> done .. m] /\ to2 \in [1 .. l + 1 -> done .. m]
             /\ \A k \in 1 .. l : from2[k] = from[k] /\ to2[k] = to[k]
             /\ from2[l + 1] = lo /\ to2[l + 1] = m
      <4> DEFINE f == [k \in 1 .. l + 1 |-> IF k <= l THEN from[k] ELSE lo]
                 t == [k \in 1 .. l + 1 |-> IF k <= l THEN to[k] ELSE m]
      <4>1. \A k \in 1 .. l + 1 : k <= l => k \in 1 .. l
        BY <2>2
      <4>2. f \in [1 .. l + 1 -> done .. m] /\ t \in [1 .. l + 1 -> done .. m]
        BY <2>2, <4>1
      <4>3. /\ \A k \in 1 .. l : f[k] = from[k] /\ t[k] = to[k]
            /\ f[l + 1] = lo /\ t[l + 1] = m
        BY <2>2
      <4> HIDE DEF f, t
      <4> QED BY <4>2, <4>3
    <3>4. Chunks(from2, to2, done, m)'
      <4>1. m \in done .. N /\ from2 \in [1 .. l + 1 -> done .. m] /\ to2 \in [1 .. l + 1 -> done .. m]
        BY <2>2, <3>3
      <4>2. ASSUME NEW k \in 1 .. l + 1
            PROVE  from2[k] <= to2[k] /\ queue'[k] = Packs(sent, from2[k], to2[k])
        <5>1. CASE k \in 1 .. l
          BY <2>1, <3>2, <3>3, <5>1 DEF Laid, Chunks
        <5>2. CASE k = l + 1
          <6>1. from2[k] = lo /\ to2[k] = m /\ queue'[k] = c
            BY <3>2, <3>3, <5>2
          <6> QED BY <2>2, <2>4, <6>1
        <5> QED BY <2>2, <5>1, <5>2
      <4>3. ASSUME NEW k \in 1 .. l + 1, NEW j \in 1 .. l + 1, k < j
            PROVE  to2[k] <= from2[j]
        <5>1. k \in 1 .. l
          BY <2>2, <4>3
        <5>2. CASE j \in 1 .. l
          BY <2>1, <3>3, <4>3, <5>1, <5>2 DEF Laid, Chunks
        <5>3. CASE j = l + 1
          <6>1. to2[k] = to[k] /\ from2[j] = lo
            BY <3>3, <5>1, <5>3
          <6> QED BY <2>2, <5>1, <6>1
        <5> QED BY <2>2, <5>2, <5>3
      <4>4. sent' = sent /\ Len(queue') = l + 1 /\ stream' = Packs(sent, m, N)
        BY <1>1, <2>4, <3>2
      <4> QED BY <4>1, <4>2, <4>3, <4>4 DEF Chunks
    <3>5. Newest(from2, to2, done, m)'
      <4> SUFFICES ASSUME empties' = 0, "full" \notin lost
                   PROVE  /\ to2[l + 1] = m
                          /\ \A k \in 1 .. l + 1 : k > 1 \/ ~InUse => from2[k] < to2[k]
                          /\ InUse /\ from2[1] = to2[1] => done = to2[1]
        <5>1. queue' # << >> /\ Len(queue') = l + 1 /\ lost' = lost /\ InUse' = InUse
          BY <2>5, <2>8, <3>2
        <5> QED BY <5>1 DEF Newest
      <4>1. lo < m /\ empties = 0
        <5>1. n # 0 /\ empties = 0
          BY <1>2
        <5> QED BY <2>4, <5>1
      <4>2. /\ \A k \in 1 .. l : k > 1 \/ ~InUse => from[k] < to[k]
            /\ InUse /\ from[1] = to[1] => done = to[1]
        BY <2>1, <4>1 DEF Laid, Newest
      <4>3. ASSUME NEW k \in 1 .. l + 1, k > 1 \/ ~InUse PROVE from2[k] < to2[k]
        <5>1. CASE k \in 1 .. l
          BY <3>3, <4>2, <4>3, <5>1
        <5>2. CASE k = l + 1
          BY <3>3, <4>1, <5>2
        <5> QED BY <2>2, <5>1, <5>2
      <4>4. ASSUME InUse, from2[1] = to2[1] PROVE done = to2[1]
        <5>1. 1 \in 1 .. l
          <6>1. InUse => queue # << >>
            BY DEF IInv, ThreadInv, InUse, InHand
          <6> QED BY <2>2, <4>4, <6>1
        <5> QED BY <3>3, <4>2, <4>4, <5>1
      <4> QED BY <3>3, <4>3, <4>4
    <3>6. Laid(at, done, from2, to2, m)'
      BY <2>6, <3>4, <3>5 DEF Laid
    <3> QED BY <2>5, <3>6 DEF PacketsInv
  <2> QED BY <1>1, <2>7, <2>8 DEF rbuf_push
<1> QED BY <1>3, <1>4

\* from2 and to2 are from and to without their first element.
Shifted(from2, to2, from, to, done, lo) ==
    /\ Chunks(from2, to2, done, lo)'
    /\ Len(queue') = Len(queue) - 1 /\ (queue' = << >> <=> Len(queue) = 1)
    /\ \A k \in 1 .. Len(queue') :
          from2[k] = from[k + 1] /\ to2[k] = to[k + 1] /\ k + 1 \in 2 .. Len(queue)

\* The queue without its first chunk.
LEMMA ShiftChunks ==
    ASSUME IInv, NEW at, NEW done, NEW from, NEW to, NEW lo, Laid(at, done, from, to, lo),
           queue # << >>, queue' = Tail(queue), UNCHANGED <<sent, stream>>
    PROVE  \E from2, to2 : Shifted(from2, to2, from, to, done, lo)
<1> DEFINE l == Len(queue)
<1>1. /\ queue \in Seq(Seq(Nat)) /\ l \in Nat /\ Len(sent) \in Nat
      /\ \A k \in 1 .. l : from[k] \in done .. lo /\ to[k] \in done .. lo
  BY RunBounds
<1>2. l # 0
  BY <1>1
<1>3. /\ Tail(queue) \in Seq(Seq(Nat)) /\ Len(Tail(queue)) = l - 1
      /\ \A i \in 1 .. l - 1 : Tail(queue)[i] = queue[i + 1]
  BY <1>1, WithoutFirst
<1>4. /\ queue' \in Seq(Seq(Nat)) /\ Len(queue') = l - 1
      /\ \A i \in 1 .. l - 1 : queue'[i] = queue[i + 1]
  BY <1>3
<1>5. queue' = << >> <=> l = 1
  <2>1. queue' = << >> <=> Len(queue') = 0
    BY <1>4, EmptySeq, Zenon
  <2>2. Len(queue') = 0 <=> l = 1
    <3>1. l \in Nat /\ Len(queue') = l - 1
      BY <1>1, <1>4
    <3> HIDE DEF l
    <3> QED BY <3>1
  <2> QED BY <2>1, <2>2
<1>6. \A k \in 1 .. l - 1 : k + 1 \in 2 .. l /\ k + 1 \in 1 .. l
  BY <1>1
<1>7. PICK from2, to2 :
         /\ from2 \in [1 .. l - 1 -> done .. lo] /\ to2 \in [1 .. l - 1 -> done .. lo]
         /\ \A k \in 1 .. l - 1 : from2[k] = from[k + 1] /\ to2[k] = to[k + 1]
  <2> DEFINE f == [k \in 1 .. l - 1 |-> from[k + 1]]
             t == [k \in 1 .. l - 1 |-> to[k + 1]]
  <2>1. f \in [1 .. l - 1 -> done .. lo] /\ t \in [1 .. l - 1 -> done .. lo]
    BY <1>1, <1>6
  <2>2. \A k \in 1 .. l - 1 : f[k] = from[k + 1] /\ t[k] = to[k + 1]
    OBVIOUS
  <2> HIDE DEF f, t
  <2> QED BY <2>1, <2>2
<1>8. Chunks(from2, to2, done, lo)'
  <2>1. /\ lo \in done .. Len(sent) /\ stream = Packs(sent, lo, Len(sent))
        /\ \A k \in 1 .. l : from[k] <= to[k] /\ queue[k] = Packs(sent, from[k], to[k])
        /\ \A k, j \in 1 .. l : k < j => to[k] <= from[j]
    BY DEF Laid, Chunks
  <2>2. \A k \in 1 .. l - 1 : from2[k] <= to2[k] /\ queue'[k] = Packs(sent, from2[k], to2[k])
    BY <1>4, <1>6, <1>7, <2>1, Zenon
  <2>3. ASSUME NEW k \in 1 .. l - 1, NEW j \in 1 .. l - 1, k < j
        PROVE  to2[k] <= from2[j]
    <3>1. k + 1 \in 1 .. l /\ j + 1 \in 1 .. l /\ k + 1 < j + 1
      BY <1>6, <2>3
    <3> QED BY <1>7, <2>1, <3>1, Zenon
  <2> QED BY <1>4, <1>7, <2>1, <2>2, <2>3 DEF Chunks
<1>9. \A k \in 1 .. Len(queue') :
         from2[k] = from[k + 1] /\ to2[k] = to[k + 1] /\ k + 1 \in 2 .. Len(queue)
  BY <1>4, <1>6, <1>7
<1>10. Len(queue') = Len(queue) - 1
  BY <1>4
<1>11. Shifted(from2, to2, from, to, done, lo)
  BY <1>5, <1>8, <1>9, <1>10 DEF Shifted
<1> QED BY <1>11

\* _rbuf_pop_old drops a chunk, and a newer one is there.
LEMMA DropPackets ==
    ASSUME IInv, PacketsInv, PopOld, Len(queue) > 1, queue' = Tail(queue),
           lost' = lost \union {"old"}, tpc' = tpc
    PROVE  PacketsInv'
<1> SUFFICES ASSUME ~split PROVE PacketsInv'
  BY DEF PacketsInv, PopOld, transportVars
<1>1. tpc = "old" /\ UNCHANGED <<sent, stream, empties, split, buffer, event, resume, injected>>
  BY DEF PopOld, transportVars, threadVars
<1>2. Running /\ Running' /\ ~InHand /\ ~InHand' /\ ~InUse /\ ~InUse'
  BY <1>1 DEF Running, InHand, InUse
<1>3. buffer' = << >> /\ queue # << >>
  BY <1>1, <1>2 DEF PacketsInv, IInv, ThreadInv
<1>4. PICK at, done, from, to, lo : Laid(at, done, from, to, lo)
  BY <1>2 DEF PacketsInv
<1>5. Handled(at, done)' /\ Hand(at, done)'
  BY <1>1, <1>2, <1>4 DEF Laid, Handled, Hand
<1>5a. PICK from2, to2 : Shifted(from2, to2, from, to, done, lo)
  <2>1. UNCHANGED <<sent, stream>>
    BY <1>1
  <2> QED BY <1>3, <1>4, <2>1, ShiftChunks, Zenon
<1>6. /\ Chunks(from2, to2, done, lo)'
      /\ Len(queue') = Len(queue) - 1 /\ (queue' = << >> <=> Len(queue) = 1)
      /\ \A k \in 1 .. Len(queue') :
            from2[k] = from[k + 1] /\ to2[k] = to[k + 1] /\ k + 1 \in 2 .. Len(queue)
  BY <1>5a, Zenon DEF Shifted
<1>7. Newest(from2, to2, done, lo)'
  <2> SUFFICES ASSUME empties = 0, "full" \notin lost
               PROVE  to2[Len(queue')] = lo /\ \A k \in 1 .. Len(queue') : from2[k] < to2[k]
    <3>1. Len(queue) \in Nat
      BY <1>4, RunBounds
    <3>2. queue' # << >>
      <4>1. Len(queue) # 1
        BY <3>1
      <4> QED BY <1>6, <4>1, Zenon
    <3> QED BY <1>1, <1>2, <3>2 DEF Newest
  <2>1. to[Len(queue)] = lo /\ \A k \in 1 .. Len(queue) : from[k] < to[k]
    BY <1>2, <1>3, <1>4 DEF Laid, Newest
  <2>2. Len(queue) \in Nat
    BY <1>4, RunBounds
  <2>3. Len(queue') \in 1 .. Len(queue') /\ Len(queue') + 1 = Len(queue)
    BY <1>6, <2>2
  <2>4. ASSUME NEW k \in 1 .. Len(queue') PROVE from2[k] < to2[k]
    <3>1. k + 1 \in 1 .. Len(queue)
      BY <1>6, <2>2
    <3> QED BY <1>6, <2>1, <3>1
  <2> QED BY <1>6, <2>1, <2>3, <2>4
<1>8. Laid(at, done, from2, to2, lo)'
  BY <1>5, <1>6, <1>7 DEF Laid
<1> QED BY <1>2, <1>3, <1>8 DEF PacketsInv

\* A run without bytes is one without packets.
LEMMA PacksNone ==
    ASSUME NEW s \in Seq(Packets), NEW b \in 0 .. Len(s), NEW a \in 0 .. b
    PROVE  /\ Packs(s, a, b) = << >> <=> a = b
           /\ Len(Packs(s, a, b)) < INPUT_PKT_LENGTH <=> a = b
<1> DEFINE L == INPUT_PKT_LENGTH
           w == Packs(s, a, b)
<1>1. Len(s) \in Nat /\ L \in Nat \ {0} /\ s \in Seq(Seq(Nat)) /\ a \in 0 .. Len(s)
  BY PacketLength, PacketsAssumption
<1>2. w \in Seq(Nat)
  BY <1>1, PacksType
<1>3. Len(w) = (b - a) * L
  BY PacksLength
<1> HIDE DEF L, w
<1>4. (b - a) * L = 0 <=> a = b
  BY <1>1
<1>5. (b - a) * L < L <=> a = b
  BY <1>1
<1>6. w = << >> <=> Len(w) = 0
  BY <1>2
<1> QED BY <1>3, <1>4, <1>5, <1>6 DEF w, L

\* The chunk in use.
LEMMA UsedChunk ==
    ASSUME IInv, queue # << >>,
           NEW at, NEW done, NEW from, NEW to, NEW lo, Laid(at, done, from, to, lo)
    PROVE  /\ 1 \in 1 .. Len(queue) /\ msg = Packs(sent, from[1], to[1])
           /\ from[1] \in 0 .. to[1] /\ to[1] \in 0 .. Len(sent)
           /\ done <= from[1] /\ to[1] <= lo
           /\ msg = << >> <=> from[1] = to[1]
           /\ Len(msg) < INPUT_PKT_LENGTH <=> from[1] = to[1]
<1>1. /\ sent \in Seq(Packets) /\ queue \in Seq(Seq(Nat))
      /\ Len(sent) \in Nat /\ Len(queue) \in Nat
      /\ done \in 0 .. Len(sent) /\ lo \in 0 .. Len(sent) /\ done <= lo
      /\ \A k \in 1 .. Len(queue) : from[k] \in done .. lo /\ to[k] \in done .. lo
  BY RunBounds
<1>2. 1 \in 1 .. Len(queue)
  BY <1>1
<1>3. from[1] <= to[1] /\ msg = Packs(sent, from[1], to[1])
  BY <1>2 DEF Laid, Chunks, msg
<1>4. from[1] \in 0 .. to[1] /\ to[1] \in 0 .. Len(sent) /\ done <= from[1] /\ to[1] <= lo
  BY <1>1, <1>2, <1>3
<1> QED BY <1>1, <1>2, <1>3, <1>4, PacksNone

\* The chunk that is used up is popped.
LEMMA EndPackets ==
    ASSUME IInv, PacketsInv, RecvEnd, msg = << >>, queue' = Tail(queue), tpc' = "loop"
    PROVE  PacketsInv'
<1> SUFFICES ASSUME ~split PROVE PacketsInv'
  BY DEF PacketsInv, RecvEnd, transportVars
<1>1. tpc = "end" /\ UNCHANGED <<sent, stream, empties, split, lost, buffer, event, resume, injected>>
  BY DEF RecvEnd, transportVars, threadVars
<1>2. Running /\ Running' /\ ~InHand /\ ~InHand' /\ InUse /\ ~InUse'
  BY <1>1 DEF Running, InHand, InUse
<1>3. buffer' = << >> /\ queue # << >>
  BY <1>1, <1>2 DEF PacketsInv, IInv, ThreadInv
<1>4. PICK at, done, from, to, lo : Laid(at, done, from, to, lo)
  BY <1>2 DEF PacketsInv
<1>5. Handled(at, done)' /\ Hand(at, done)'
  BY <1>1, <1>2, <1>4 DEF Laid, Handled, Hand
<1>5a. PICK from2, to2 : Shifted(from2, to2, from, to, done, lo)
  <2>1. UNCHANGED <<sent, stream>>
    BY <1>1
  <2> QED BY <1>3, <1>4, <2>1, ShiftChunks, Zenon
<1>6. /\ Chunks(from2, to2, done, lo)'
      /\ Len(queue') = Len(queue) - 1 /\ (queue' = << >> <=> Len(queue) = 1)
      /\ \A k \in 1 .. Len(queue') :
            from2[k] = from[k + 1] /\ to2[k] = to[k + 1] /\ k + 1 \in 2 .. Len(queue)
  BY <1>5a, Zenon DEF Shifted
<1>7. Newest(from2, to2, done, lo)'
  <2> SUFFICES ASSUME empties = 0, "full" \notin lost
               PROVE  /\ queue' = << >> => done = lo
                      /\ queue' # << >> => to2[Len(queue')] = lo
                      /\ \A k \in 1 .. Len(queue') : from2[k] < to2[k]
    BY <1>1, <1>2 DEF Newest
  <2>1. /\ to[Len(queue)] = lo
        /\ \A k \in 1 .. Len(queue) : k > 1 => from[k] < to[k]
        /\ from[1] = to[1] => done = to[1]
    BY <1>2, <1>3, <1>4 DEF Laid, Newest
  <2>2. Len(queue) \in Nat
    BY <1>4, RunBounds
  <2>3. queue' = << >> => done = lo
    <3>1. from[1] = to[1]
      BY <1>3, <1>4, UsedChunk
    <3> QED BY <1>6, <2>1, <3>1, Zenon
  <2>4. queue' # << >> => to2[Len(queue')] = lo
    <3>1. queue' # << >> => Len(queue) # 1
      BY <1>6, Zenon
    <3>2. Len(queue) # 0
      <4>1. queue \in Seq(Seq(Nat))
        BY DEF IInv, Types
      <4> QED BY <1>3, <4>1
    <3>3. queue' # << >> => Len(queue') \in 1 .. Len(queue') /\ Len(queue') + 1 = Len(queue)
      BY <1>6, <2>2, <3>1, <3>2
    <3> QED BY <1>6, <2>1, <3>3
  <2>5. ASSUME NEW k \in 1 .. Len(queue') PROVE from2[k] < to2[k]
    <3>1. k + 1 \in 1 .. Len(queue) /\ k + 1 > 1
      BY <1>6, <2>2
    <3> QED BY <1>6, <2>1, <3>1
  <2> QED BY <2>3, <2>4, <2>5
<1>8. Laid(at, done, from2, to2, lo)'
  BY <1>5, <1>6, <1>7 DEF Laid
<1> QED BY <1>2, <1>3, <1>8 DEF PacketsInv

\* input_recv_raw takes the first packet of the chunk in use, in place or
\* through its buffer.
LEMMA TakePackets ==
    ASSUME IInv, PacketsInv, tpc \in {"direct", "copy"}, queue # << >>,
           Len(msg) >= INPUT_PKT_LENGTH, Consume(INPUT_PKT_LENGTH),
           event' = SubSeq(msg, 1, INPUT_PKT_LENGTH), tpc' = "event", resume' # "loop",
           buffer' = << >>, UNCHANGED <<sent, stream, empties, split, lost, injected>>
    PROVE  PacketsInv'
<1> SUFFICES ASSUME ~split PROVE PacketsInv'
  BY DEF PacketsInv
<1>1. Running /\ Running' /\ ~InHand /\ InHand' /\ InUse /\ InUse'
  BY DEF Running, InHand, InUse
<1>2. PICK at, done, from, to, lo : Laid(at, done, from, to, lo)
  BY <1>1 DEF PacketsInv
<1> DEFINE l == Len(queue)
           L == INPUT_PKT_LENGTH
<1>3. /\ sent \in Seq(Packets) /\ sent \in Seq(Seq(Nat)) /\ queue \in Seq(Seq(Nat))
      /\ Len(sent) \in Nat /\ l \in Nat
      /\ done \in 0 .. Len(sent) /\ lo \in 0 .. Len(sent) /\ done <= lo
      /\ \A k \in 1 .. l : from[k] \in done .. lo /\ to[k] \in done .. lo
      /\ \A k \in 1 .. Len(injected) : at[k] \in 1 .. done
  BY <1>2, RunBounds
<1>4. /\ 1 \in 1 .. l /\ msg = Packs(sent, from[1], to[1])
      /\ from[1] \in 0 .. to[1] /\ to[1] \in 0 .. Len(sent)
      /\ done <= from[1] /\ to[1] <= lo /\ from[1] # to[1]
  <2>1. ~(Len(msg) < L)
    BY PacketLength, ChunkInUse
  <2> QED BY <1>2, <2>1, UsedChunk
<1>5. PICK next : next = from[1] + 1
  OBVIOUS
<1>6. /\ next \in 1 .. Len(sent) /\ next <= to[1] /\ done < next /\ next <= lo
      /\ from[1] \in 0 .. Len(sent) /\ from[1] < to[1]
  <2>1. from[1] \in Nat /\ to[1] \in Nat /\ from[1] < to[1] /\ to[1] <= Len(sent)
    BY <1>3, <1>4
  <2>2. done \in Nat /\ lo \in Nat /\ Len(sent) \in Nat /\ done <= from[1] /\ to[1] <= lo
    BY <1>3, <1>4
  <2> QED BY <1>5, <2>1, <2>2
<1>7. msg = Cat(sent[next], Packs(sent, next, to[1])) /\ sent[next] \in Seq(Nat)
      /\ Packs(sent, next, to[1]) \in Seq(Nat)
  BY <1>3, <1>4, <1>5, <1>6, PacksHead, Zenon
<1>8. Len(sent[next]) = L
  <2>1. sent[next] \in Packets
    BY <1>3, <1>6
  <2> QED BY <2>1, PacketsAssumption
<1>9. event' = sent[next] /\ SubSeq(msg, L + 1, Len(msg)) = Packs(sent, next, to[1])
  <2> DEFINE x == sent[next]
             y == Packs(sent, next, to[1])
  <2>1. SubSeq(Cat(x, y), 1, Len(x)) = x /\ SubSeq(Cat(x, y), Len(x) + 1, Len(Cat(x, y))) = y
    BY <1>7, CutCat, Zenon
  <2>2. Len(x) = L /\ msg = Cat(x, y) /\ event' = SubSeq(msg, 1, L)
    BY <1>7, <1>8
  <2> HIDE DEF x, y, L
  <2>3. event' = x /\ SubSeq(msg, L + 1, Len(msg)) = y
    BY <2>1, <2>2, Zenon
  <2> QED BY <2>3, Zenon DEF x, y
<1>10. /\ Len(queue') = l /\ queue' # << >>
       /\ \A k \in 1 .. l : queue'[k] = IF k = 1 THEN Packs(sent, next, to[1]) ELSE queue[k]
  <2> DEFINE r == Packs(sent, next, to[1])
  <2>1. queue' = [queue EXCEPT ![1] = r]
    BY <1>9, Zenon DEF Consume, msg
  <2>2. r \in Seq(Nat)
    BY <1>7
  <2> HIDE DEF r
  <2>3. Len(queue') = l /\ \A k \in 1 .. l : queue'[k] = IF k = 1 THEN r ELSE queue[k]
    BY <1>3, <1>4, <2>1, <2>2
  <2>4. queue' # << >>
    BY <1>3, <1>4, <2>3
  <2> QED BY <2>3, <2>4 DEF r
<1>11. PICK from2 : /\ from2 \in [1 .. l -> next .. lo] /\ from2[1] = next
                    /\ \A k \in 1 .. l : k # 1 => from2[k] = from[k]
  <2> DEFINE f == [k \in 1 .. l |-> IF k = 1 THEN next ELSE from[k]]
  <2>1. ASSUME NEW k \in 1 .. l, k # 1 PROVE from[k] \in next .. lo
    <3>1. to[1] <= from[k]
      <4>1. 1 < k
        BY <1>3, <2>1
      <4> QED BY <1>2, <1>4, <2>1, <4>1 DEF Laid, Chunks
    <3> QED BY <1>3, <1>4, <1>6, <3>1
  <2>2. next \in next .. lo
    BY <1>3, <1>6
  <2>3. f \in [1 .. l -> next .. lo] /\ f[1] = next /\ \A k \in 1 .. l : k # 1 => f[k] = from[k]
    BY <1>4, <2>1, <2>2
  <2> HIDE DEF f
  <2> QED BY <2>3
<1>12. Handled(at, next)'
  <2>1. at \in [1 .. Len(injected) -> 1 .. next] /\ next \in 0 .. Len(sent)
    <3>1. at \in [1 .. Len(injected) -> 1 .. done]
      BY <1>2 DEF Laid, Handled
    <3> QED BY <1>3, <1>6, <3>1
  <2> QED BY <1>2, <2>1 DEF Laid, Handled
<1>13. Hand(at, next)'
  <2>1. next # 0 /\ \A k \in 1 .. Len(injected) : at[k] < next
    BY <1>3, <1>6
  <2> QED BY <1>1, <1>9, <2>1, Zenon DEF Hand
<1>14. Chunks(from2, to, next, lo)'
  <2>1. /\ lo \in done .. Len(sent) /\ stream = Packs(sent, lo, Len(sent))
        /\ to \in [1 .. l -> done .. lo]
        /\ \A k \in 1 .. l : from[k] <= to[k] /\ queue[k] = Packs(sent, from[k], to[k])
        /\ \A k, j \in 1 .. l : k < j => to[k] <= from[j]
    BY <1>2 DEF Laid, Chunks
  <2>2. lo \in next .. Len(sent)
    BY <1>3, <1>6
  <2>3. \A k \in 1 .. l : from2[k] <= to[k] /\ queue'[k] = Packs(sent, from2[k], to[k])
    BY <1>6, <1>10, <1>11, <2>1
  <2>4. to \in [1 .. l -> next .. lo]
    BY <1>3, <1>6, <1>11, <2>1, <2>3
  <2>5. ASSUME NEW k \in 1 .. l, NEW j \in 1 .. l, k < j PROVE to[k] <= from2[j]
    <3>1. j # 1
      BY <1>3, <2>5
    <3> QED BY <1>11, <2>1, <2>5, <3>1
  <2> QED BY <1>10, <1>11, <2>1, <2>2, <2>3, <2>4, <2>5 DEF Chunks
<1>15. Newest(from2, to, next, lo)'
  <2> SUFFICES ASSUME empties = 0, "full" \notin lost
               PROVE  /\ to[l] = lo
                      /\ \A k \in 1 .. l : k > 1 => from2[k] < to[k]
                      /\ from2[1] = to[1] => next = to[1]
    BY <1>1, <1>10 DEF Newest
  <2>1. /\ to[l] = lo
        /\ \A k \in 1 .. l : k > 1 => from[k] < to[k]
    BY <1>1, <1>2 DEF Laid, Newest
  <2>2. ASSUME NEW k \in 1 .. l, k > 1 PROVE from2[k] < to[k]
    <3>1. k # 1
      BY <2>2
    <3> QED BY <1>11, <2>1, <2>2, <3>1
  <2> QED BY <1>11, <2>1, <2>2
<1>16. Laid(at, next, from2, to, lo)'
  BY <1>12, <1>13, <1>14, <1>15 DEF Laid
<1> QED BY <1>1, <1>16 DEF PacketsInv

\* The packet in hand has been handled.
LEMMA EventPackets ==
    ASSUME IInv, PacketsInv, tpc = "event", EventDone,
           UNCHANGED <<transportVars, queue, lost, buffer, resume>>
    PROVE  PacketsInv'
<1> SUFFICES ASSUME ~split PROVE PacketsInv'
  BY DEF PacketsInv, transportVars
<1>1. resume \in {"copy", "end"} /\ tpc' = resume /\ injected' = Append(injected, event)
      /\ UNCHANGED <<sent, stream, empties, split>>
  BY DEF IInv, Types, TypeOK, ThreadInv, EventDone, transportVars
<1>2. Running /\ Running' /\ InHand /\ ~InHand' /\ InUse /\ InUse'
  BY <1>1 DEF Running, InHand, InUse
<1>3. buffer' = << >>
  BY <1>2 DEF PacketsInv
<1>4. PICK at, done, from, to, lo : Laid(at, done, from, to, lo)
  BY <1>2 DEF PacketsInv
<1> DEFINE n == Len(injected)
<1>5. /\ injected \in Seq(Seq(Nat)) /\ n \in Nat /\ Len(sent) \in Nat
      /\ done \in 0 .. Len(sent) /\ \A k \in 1 .. n : at[k] \in 1 .. done
  BY <1>4, RunBounds
<1>6. done # 0 /\ event = sent[done] /\ \A k \in 1 .. n : at[k] < done
  BY <1>2, <1>4 DEF Laid, Hand
<1>7. event \in Seq(Nat)
  BY DEF IInv, Types
<1>8. /\ Len(injected') = n + 1 /\ injected'[n + 1] = event /\ injected' # << >>
      /\ \A k \in 1 .. n : injected'[k] = injected[k]
  BY <1>1, <1>5, <1>7, QueueGrows, Zenon
<1>9. PICK at2 : /\ at2 \in [1 .. n + 1 -> 1 .. done] /\ at2[n + 1] = done
                 /\ \A k \in 1 .. n : at2[k] = at[k]
  <2> DEFINE f == [k \in 1 .. n + 1 |-> IF k = n + 1 THEN done ELSE at[k]]
  <2>1. done \in 1 .. done /\ \A k \in 1 .. n + 1 : k # n + 1 => k \in 1 .. n
    <3>1. done \in 1 .. done
      BY <1>5, <1>6
    <3> HIDE DEF n
    <3>2. \A k \in 1 .. n + 1 : k # n + 1 => k \in 1 .. n
      BY <1>5
    <3> QED BY <3>1, <3>2
  <2>2. f \in [1 .. n + 1 -> 1 .. done] /\ f[n + 1] = done /\ \A k \in 1 .. n : f[k] = at[k]
    BY <1>5, <2>1
  <2> HIDE DEF f
  <2> QED BY <2>2
<1>10. Handled(at2, done)'
  <2>1. /\ \A k \in 1 .. n : injected[k] = sent[at[k]]
        /\ \A k, l \in 1 .. n : k < l => at[k] < at[l]
    BY <1>4 DEF Laid, Handled
  <2>2. ASSUME NEW k \in 1 .. n + 1 PROVE injected'[k] = sent[at2[k]]
    <3>1. CASE k \in 1 .. n
      BY <1>8, <1>9, <2>1, <3>1
    <3>2. CASE k = n + 1
      BY <1>6, <1>8, <1>9, <3>2
    <3> QED BY <1>5, <3>1, <3>2
  <2>3. ASSUME NEW k \in 1 .. n + 1, NEW l \in 1 .. n + 1, k < l PROVE at2[k] < at2[l]
    <3>1. k \in 1 .. n
      BY <1>5, <2>3
    <3>2. CASE l \in 1 .. n
      BY <1>9, <2>1, <2>3, <3>1, <3>2
    <3>3. CASE l = n + 1
      BY <1>6, <1>9, <3>1, <3>3
    <3> QED BY <1>5, <3>2, <3>3
  <2>4. sent' = sent /\ Len(injected') = n + 1
    BY <1>1, <1>8
  <2> QED BY <1>5, <1>9, <2>2, <2>3, <2>4 DEF Handled
<1>11. Hand(at2, done)'
  BY <1>2, <1>8, <1>9 DEF Hand
<1>12. Chunks(from, to, done, lo)' /\ Newest(from, to, done, lo)'
  BY <1>1, <1>2, <1>4 DEF Laid, Chunks, Newest
<1>13. Laid(at2, done, from, to, lo)'
  BY <1>10, <1>11, <1>12 DEF Laid
<1> QED BY <1>2, <1>3, <1>13 DEF PacketsInv

\* Every step keeps the packets in order.
LEMMA NextPackets == ASSUME IInv, PacketsInv, [Next]_vars PROVE PacketsInv'
<1>1. CASE \E p \in Packets : ClientSends(p)
  BY <1>1, SendPackets
<1>2. CASE \E n \in 0 .. Len(stream) : OnCanRead(n)
  BY <1>2, ReadPackets
<1>3. CASE StopSession
  <2>1. UNCHANGED <<sent, stream, split, queue, injected, empties, lost, tpc, buffer, event, resume>>
    BY <1>3 DEF StopSession, transportVars, threadVars
  <2> QED BY <2>1, StillPackets DEF Running, InHand, InUse
<1>4. CASE input_main \/ GamepadReady \/ LoopTest \/ WaitChunk \/ CreateGamepad \/ UpdateWild
  <2>1. UNCHANGED <<sent, stream, split, queue, injected, empties, lost, buffer>>
    BY <1>4 DEF input_main, GamepadReady, LoopTest, WaitChunk, CreateGamepad, UpdateWild,
                transportVars, threadVars
  <2>2. CASE tpc' = "crashed"
    BY <2>1, <2>2, StillPackets DEF Running
  <2>3. CASE input_main
    <3>1. tpc = "start" /\ tpc' = "settle" /\ resume' = "loop"
      BY <2>3 DEF input_main, gamepad_init
    <3> QED BY <2>1, <3>1, StillPackets DEF Running, InHand, InUse
  <2>4. CASE GamepadReady
    <3>1. /\ tpc = "settle" /\ resume' = resume
          /\ \/ resume = "loop" /\ tpc' = "loop"
             \/ resume # "loop" /\ tpc' = "event" /\ event' = event
      BY <2>4 DEF GamepadReady
    <3> QED BY <2>1, <3>1, StillPackets DEF Running, InHand, InUse
  <2>5. CASE LoopTest \/ WaitChunk
    <3>1. tpc \in {"loop", "wait"} /\ tpc' \in {"wait", "done", "old"}
      BY <2>5 DEF LoopTest, WaitChunk
    <3> QED BY <2>1, <3>1, StillPackets DEF Running, InHand, InUse
  <2>6. CASE CreateGamepad
    <3>1. tpc = "event" /\ tpc' = "settle" /\ UNCHANGED <<event, resume>>
      BY <2>6 DEF CreateGamepad, gamepad_init
    <3> QED BY <2>1, <3>1, StillPackets DEF Running, InHand, InUse
  <2> QED BY <1>4, <2>2, <2>3, <2>4, <2>5, <2>6 DEF UpdateWild
<1>5. CASE PopOld
  BY <1>5, DropPackets, StartPackets DEF PopOld
<1>6. CASE RecvDirect
  <2>1. tpc = "direct" /\ UNCHANGED <<sent, stream, split, empties, lost, buffer, injected>>
    BY <1>6 DEF RecvDirect, transportVars
  <2>2. CASE buffer = << >> /\ Len(msg) >= INPUT_PKT_LENGTH /\ event' = SubSeq(msg, 1, INPUT_PKT_LENGTH)
             /\ Consume(INPUT_PKT_LENGTH) /\ resume' = "copy" /\ tpc' = "event"
    <3>1. queue # << >>
      BY <2>1 DEF IInv, ThreadInv
    <3> QED BY <2>1, <2>2, <3>1, TakePackets
  <2>3. CASE tpc' = "copy" /\ UNCHANGED <<queue, event, resume>>
    BY <2>1, <2>3, StillPackets DEF Running, InHand, InUse
  <2> QED BY <1>6, <2>2, <2>3 DEF RecvDirect
<1>7. CASE RecvCopy
  <2> DEFINE room == INPUT_PKT_LENGTH - Len(buffer)
             n == IF Len(msg) < room THEN Len(msg) ELSE room
             filled == buffer \o SubSeq(msg, 1, n)
  <2>1. /\ tpc = "copy" /\ UNCHANGED <<sent, stream, split, empties, lost, injected>>
        /\ Consume(n) /\ resume' = "end"
        /\ \/ n = room /\ event' = filled /\ buffer' = << >> /\ tpc' = "event"
           \/ n < room /\ event' = event /\ buffer' = filled /\ tpc' = "end"
    BY <1>7, Zenon DEF RecvCopy, transportVars
  <2>2. queue # << >> /\ Running /\ InUse /\ ~InHand
    BY <2>1 DEF IInv, ThreadInv, Running, InUse, InHand
  <2>3. CASE split
    BY <2>1, <2>3 DEF PacketsInv
  <2>4. CASE ~split
    <3>1. buffer = << >> /\ Len(buffer) = 0
      BY <2>2, <2>4 DEF PacketsInv
    <3>2. room = INPUT_PKT_LENGTH /\ Len(msg) \in Nat /\ msg \in Seq(Nat)
      BY <2>2, <3>1, PacketLength, ChunkInUse
    <3>3. filled = SubSeq(msg, 1, n)
      <4>1. n \in 0 .. Len(msg)
        BY <3>2, PacketLength
      <4> HIDE DEF n
      <4>2. SubSeq(msg, 1, n) \in Seq(Nat)
        BY <3>2, <4>1, Pieces
      <4> QED BY <3>1, <4>2
    <3>4. CASE Len(msg) >= INPUT_PKT_LENGTH
      <4>1. n = INPUT_PKT_LENGTH /\ ~(n < room)
        BY <3>2, <3>4, PacketLength
      <4>2. /\ Consume(INPUT_PKT_LENGTH) /\ event' = SubSeq(msg, 1, INPUT_PKT_LENGTH)
            /\ buffer' = << >> /\ tpc' = "event"
        BY <2>1, <3>3, <4>1, Zenon
      <4> QED BY <2>1, <2>2, <3>4, <4>2, TakePackets
    <3>5. CASE ~(Len(msg) >= INPUT_PKT_LENGTH)
      <4>1. msg = << >>
        <5>1. PICK at, done, from, to, lo : Laid(at, done, from, to, lo)
          BY <2>2, <2>4 DEF PacketsInv
        <5>2. Len(msg) < INPUT_PKT_LENGTH
          BY <3>2, <3>5, PacketLength
        <5> QED BY <2>2, <5>1, <5>2, UsedChunk
      <4>2. n = 0 /\ n # room
        BY <3>2, <4>1, PacketLength
      <4>3. SubSeq(msg, 1, 0) = << >> /\ SubSeq(msg, 0 + 1, Len(msg)) = << >>
        BY <4>1
      <4>4. buffer' = << >> /\ tpc' = "end" /\ event' = event
        BY <2>1, <3>3, <4>2, <4>3
      <4>5. queue' = queue
        <5>1. queue' = [queue EXCEPT ![1] = << >>] /\ queue[1] = << >>
          <6>1. Consume(0)
            BY <2>1, <4>2
          <6> QED BY <4>1, <4>3, <6>1, Zenon DEF Consume, msg
        <5>2. queue \in Seq(Seq(Nat))
          BY DEF IInv, Types
        <5> QED BY <5>1, <5>2
      <4> QED BY <2>1, <2>2, <3>1, <4>4, <4>5, StillPackets DEF Running, InHand, InUse
    <3> QED BY <3>4, <3>5
  <2> QED BY <2>3, <2>4
<1>8. CASE RecvEnd
  <2>1. tpc = "end" /\ UNCHANGED <<sent, stream, split, empties, lost, buffer, injected, event, resume>>
    BY <1>8 DEF RecvEnd, transportVars, threadVars
  <2>2. CASE msg = << >> /\ queue' = Tail(queue) /\ tpc' = "loop"
    BY <1>8, <2>2, EndPackets
  <2>3. CASE tpc' = "direct" /\ UNCHANGED queue
    BY <2>1, <2>3, StillPackets DEF Running, InHand, InUse
  <2> QED BY <1>8, <2>2, <2>3 DEF RecvEnd
<1>9. CASE DropIllegal \/ UpdateGamepad
  BY <1>9, EventPackets DEF DropIllegal, UpdateGamepad
<1>10. CASE Failure \/ Cancel
  <2>1. UNCHANGED <<sent, stream, split, queue, injected, empties, lost>> /\ tpc' \in {"exited", "crashed"}
    BY <1>10 DEF Failure, Cancel, EventFails, input_destroy, input_main_malloc_fails,
                 input_main_init_fails, transportVars, threadVars
  <2> QED BY <2>1, StillPackets DEF Running
<1>11. CASE UNCHANGED vars
  <2>1. UNCHANGED <<sent, stream, split, queue, injected, empties, lost, tpc, buffer, event, resume>>
    BY <1>11 DEF vars, transportVars, threadVars
  <2> QED BY <2>1, StillPackets DEF Running, InHand, InUse
<1> QED BY <1>1, <1>2, <1>3, <1>4, <1>5, <1>6, <1>7, <1>8, <1>9, <1>10, <1>11 DEF Next, ThreadStep

-----------------------------------------------------------------------------
(* Steps and devices *)

\* A device keeps its state when its pointer is set.
LEMMA ShowsOpen ==
    ASSUME NEW ps, NEW g, NEW d, NEW i, Shows(ps, g, d, i)
    PROVE  Shows(ps, "open", d, i)
BY DEF Shows

\* A step that handles no packet and changes no device.
LEMMA StillShown ==
    ASSUME ShownInv, UNCHANGED injected, Running' => Running /\ UNCHANGED device,
           \A i \in Indexes : gamepads'[i] \in {gamepads[i], "open"}
    PROVE  ShownInv'
<1> SUFFICES ASSUME Running', NEW i \in Indexes
             PROVE  Shows(injected, gamepads'[i], device[i], i)
  BY DEF ShownInv
<1>1. Shows(injected, gamepads[i], device[i], i)
  BY DEF ShownInv
<1>2. Shows(injected, "open", device[i], i)
  BY <1>1, ShowsOpen, Zenon
<1> QED BY <1>1, <1>2

\* gamepad_init makes a device that no packet was handled for.
LEMMA CreateShown ==
    ASSUME IInv, ShownInv, Running, NEW i \in Indexes, gamepads[i] # "open",
           gamepad_init(i), UNCHANGED <<gamepads, injected>>
    PROVE  ShownInv'
<1>1. device' = [k \in Indexes |-> IF k = i THEN Neutral ELSE device[k]]
  <2>1. device = [k \in Indexes |-> device[k]]
    BY DEF IInv, Types
  <2> QED BY <2>1 DEF gamepad_init
<1>2. \A j \in Indexes : Shows(injected, gamepads[j], device[j], j)
  BY DEF ShownInv
<1> SUFFICES ASSUME NEW j \in Indexes
             PROVE  Shows(injected, gamepads[j], device'[j], j)
  BY DEF ShownInv
<1>3. CASE j = i
  <2>1. device'[j] = Neutral
    BY <1>1, <1>3
  <2>2. Shows(injected, gamepads[i], device[i], i)
    BY <1>2
  <2> QED BY <1>3, <2>1, <2>2, Zenon DEF Shows
<1>4. CASE j # i
  <2>1. device'[j] = device[j]
    BY <1>1, <1>4
  <2> QED BY <1>2, <2>1
<1> QED BY <1>3, <1>4

\* gamepad_update leaves out what is released and was released: the device
\* then shows the packet.
LEMMA UpdateShows ==
    ASSUME NEW old, NEW p
    PROVE  gamepad_update(old, GamepadState(p)) = GamepadState(p)
<1> DEFINE new == GamepadState(p)
<1>1. new = [k \in DOMAIN Neutral |-> new[k]]
  BY DEF GamepadState
<1> HIDE DEF new
<1>2. \A k : (IF new[k] # 0 \/ old[k] # 0 THEN new[k] ELSE old[k]) = new[k]
  OBVIOUS
<1>3. gamepad_update(old, new) = [k \in DOMAIN Neutral |-> new[k]]
  BY <1>2 DEF gamepad_update
<1> QED BY <1>1, <1>3 DEF new

\* A packet for another device, and a packet for this one.
LEMMA ShowsAppend ==
    ASSUME NEW ps \in Seq(Seq(Nat)), NEW e \in Seq(Nat), NEW i
    PROVE  /\ \A g, d : e[1] # i /\ Shows(ps, g, d, i) => Shows(Append(ps, e), g, d, i)
           /\ e[1] = i => Shows(Append(ps, e), "open", GamepadState(e), i)
<1> DEFINE qs == Append(ps, e)
           n == Len(ps)
<1>1. n \in Nat /\ Len(qs) = n + 1 /\ qs[n + 1] = e /\ \A k \in 1 .. n : qs[k] = ps[k]
  BY AppendOne
<1> HIDE DEF qs, n
<1>2. ASSUME NEW g, NEW d, e[1] # i, Shows(ps, g, d, i) PROVE Shows(qs, g, d, i)
  <2>1. ASSUME NEW k \in 0 .. n, NoneAfter(qs, k, i) PROVE NoneAfter(ps, k, i)
    BY <1>1, <2>1 DEF NoneAfter, n
  <2>2. NoneAfter(qs, 0, i) => d \in {Closed, Neutral}
    BY <1>1, <1>2, <2>1 DEF Shows
  <2>3. ASSUME NEW k \in 1 .. n + 1, qs[k][1] = i, NoneAfter(qs, k, i)
        PROVE  g = "open" /\ d = GamepadState(qs[k])
    <3>1. k \in 1 .. n /\ k \in 0 .. n
      BY <1>1, <1>2, <2>3
    <3>2. NoneAfter(ps, k, i) /\ qs[k] = ps[k]
      BY <1>1, <2>1, <2>3, <3>1
    <3> QED BY <1>2, <2>3, <3>1, <3>2 DEF Shows, n
  <2> QED BY <1>1, <2>2, <2>3 DEF Shows
<1>3. ASSUME e[1] = i PROVE Shows(qs, "open", GamepadState(e), i)
  <2>1. ASSUME NEW k \in 0 .. n PROVE ~NoneAfter(qs, k, i)
    <3>1. n + 1 \in k + 1 .. n + 1
      BY <1>1
    <3> QED BY <1>1, <1>3, <3>1 DEF NoneAfter
  <2>2. ASSUME NEW k \in 1 .. n + 1, NoneAfter(qs, k, i) PROVE k = n + 1
    <3>1. k \notin 0 .. n
      BY <2>1, <2>2
    <3> QED BY <1>1, <3>1
  <2>3. ~NoneAfter(qs, 0, i)
    BY <1>1, <2>1
  <2> QED BY <1>1, <2>2, <2>3 DEF Shows
<1> QED BY <1>2, <1>3 DEF qs

\* A packet is handled: only its device changes, to what the packet says.
LEMMA EventShown ==
    ASSUME IInv, ShownInv, DropIllegal \/ UpdateGamepad
    PROVE  ShownInv'
<1>1. /\ tpc = "event" /\ injected' = Append(injected, event) /\ UNCHANGED gamepads
      /\ event \in Seq(Nat) /\ event # << >> /\ injected \in Seq(Seq(Nat))
  BY DEF DropIllegal, UpdateGamepad, EventDone, IInv, Types, ThreadInv
<1>2. \A i \in Indexes : Shows(injected, gamepads[i], device[i], i)
  BY <1>1 DEF ShownInv, Running
<1>3. /\ \A i \in Indexes : i # event[1] => device'[i] = device[i]
      /\ event[1] \in Indexes => gamepads[event[1]] = "open" /\ device'[event[1]] = GamepadState(event)
  <2>1. CASE DropIllegal
    <3>1. event[1] \notin Indexes
      BY <2>1, MaxGamepadsAssumption DEF DropIllegal, Legal, Indexes
    <3> QED BY <2>1, <3>1 DEF DropIllegal
  <2>2. CASE UpdateGamepad
    <3> DEFINE w == GamepadState(event)
    <3>1. idx \in Indexes /\ gamepads[idx] = "open" /\ device' = [device EXCEPT ![idx] = w]
      BY <2>2, LegalIndex, UpdateShows, Zenon DEF UpdateGamepad
    <3> HIDE DEF w
    <3>2. device = [i \in Indexes |-> device[i]]
      BY DEF IInv, Types
    <3>3. device' = [i \in Indexes |-> IF i = idx THEN w ELSE device[i]]
      BY <3>1, <3>2
    <3> QED BY <3>1, <3>3 DEF idx, w
  <2> QED BY <2>1, <2>2
<1> SUFFICES ASSUME NEW i \in Indexes
             PROVE  Shows(Append(injected, event), gamepads[i], device'[i], i)
  BY <1>1 DEF ShownInv
<1>4. CASE i = event[1]
  <2>1. gamepads[i] = "open" /\ device'[i] = GamepadState(event)
    BY <1>3, <1>4
  <2> QED BY <1>1, <1>4, <2>1, ShowsAppend, Zenon
<1>5. CASE i # event[1]
  <2>1. device'[i] = device[i]
    BY <1>3, <1>5
  <2> QED BY <1>1, <1>2, <1>5, <2>1, ShowsAppend, Zenon
<1> QED BY <1>4, <1>5

\* Every step keeps the devices at the last packet handled for them.
LEMMA NextShown == ASSUME IInv, ShownInv, [Next]_vars PROVE ShownInv'
<1>1. CASE UNCHANGED <<injected, device, gamepads>> /\ (tpc' \in {"exited", "crashed"} \/ Running)
  BY <1>1, StillShown DEF Running
<1>2. CASE UNCHANGED vars \/ (\E p \in Packets : ClientSends(p))
           \/ (\E k \in 0 .. Len(stream) : OnCanRead(k)) \/ StopSession
  <2>1. UNCHANGED <<injected, device, gamepads, tpc>>
    BY <1>2 DEF vars, threadVars, ClientSends, OnCanRead, StopSession
  <2> QED BY <2>1, StillShown DEF Running
<1>3. CASE input_main
  <2>1. 0 \in Indexes /\ Running /\ gamepads[0] # "open"
    BY <1>3, MaxGamepadsAssumption DEF input_main, IInv, DevicesInv, Indexes, Running
  <2> QED BY <1>3, <2>1, CreateShown DEF input_main
<1>4. CASE GamepadReady
  <2>1. /\ UNCHANGED <<injected, device>> /\ Running
        /\ \A i \in Indexes : gamepads'[i] \in {gamepads[i], "open"}
    BY <1>4 DEF GamepadReady, Running, IInv, Types, TypeOK
  <2> QED BY <2>1, StillShown
<1>5. CASE LoopTest \/ WaitChunk \/ PopOld \/ RecvDirect \/ RecvCopy \/ RecvEnd \/ UpdateWild
  <2>1. UNCHANGED <<injected, device, gamepads>> /\ Running
    BY <1>5 DEF LoopTest, WaitChunk, PopOld, RecvDirect, RecvCopy, RecvEnd, UpdateWild,
                threadVars, Running
  <2> QED BY <1>1, <2>1
<1>6. CASE DropIllegal \/ UpdateGamepad
  BY <1>6, EventShown
<1>7. CASE CreateGamepad
  <2>1. idx \in Indexes /\ Running /\ gamepads[idx] # "open"
    BY <1>7, LegalIndex DEF CreateGamepad, Running
  <2> QED BY <1>7, <2>1, CreateShown DEF CreateGamepad
<1>8. CASE Failure \/ Cancel
  <2>1. ~Running'
    BY <1>8 DEF Failure, Cancel, EventFails, input_destroy, input_main_malloc_fails,
                input_main_init_fails, Running
  <2> QED BY <2>1, Zenon DEF ShownInv
<1> QED BY <1>2, <1>3, <1>4, <1>5, <1>6, <1>7, <1>8 DEF Next, ThreadStep

\* In the beginning nothing is sent, and there is no device.
LEMMA InitPackets == ASSUME Init PROVE PacketsInv /\ ShownInv
<1>1. /\ sent = << >> /\ stream = << >> /\ queue = << >> /\ injected = << >> /\ buffer = << >>
      /\ tpc = "start" /\ device = [i \in Indexes |-> Closed]
  BY DEF Init
<1>2. Len(sent) = 0 /\ Len(queue) = 0 /\ Len(injected) = 0
  BY <1>1
<1> DEFINE none == [k \in 1 .. 0 |-> 0]
<1>3. \A k \in 1 .. 0 : FALSE
  OBVIOUS
<1>4. ~InHand /\ ~InUse /\ Running
  BY <1>1 DEF InHand, InUse, Running
<1>5. Handled(none, 0) /\ Hand(none, 0)
  BY <1>1, <1>2, <1>4 DEF Handled, Hand
<1>6. Packs(sent, 0, 0) = << >>
  <2>1. sent \in Seq(Seq(Nat)) /\ 0 \in 0 .. Len(sent)
    BY <1>1, <1>2
  <2> QED BY <2>1, PacksEmpty
<1>7. Chunks(none, none, 0, 0)
  BY <1>1, <1>2, <1>6 DEF Chunks
<1>8. Newest(none, none, 0, 0)
  BY <1>1, <1>2, <1>4 DEF Newest
<1>9. Laid(none, 0, none, none, 0)
  BY <1>5, <1>7, <1>8 DEF Laid
<1>10. PacketsInv
  <2> HIDE DEF none
  <2> QED BY <1>1, <1>4, <1>9 DEF PacketsInv
<1>11. ShownInv
  BY <1>1, <1>2, <1>3 DEF ShownInv, Shows
<1> QED BY <1>10, <1>11

\* What the invariants say when the thread waits and all is read.
LEMMA ShowsLast ==
    ASSUME IInv, PacketsInv, ShownInv
    PROVE  LastPacketShows
<1> SUFFICES ASSUME ~split PROVE LastPacketShows
  BY DEF LastPacketShows
<1>1. PICK at, done : Handled(at, done)
  BY DEF PacketsInv, Laid
<1>2. /\ sent \in Seq(Packets) /\ sent \in Seq(Seq(Nat)) /\ injected \in Seq(Seq(Nat))
      /\ Len(sent) \in Nat /\ Len(injected) \in Nat
      /\ DOMAIN sent = 1 .. Len(sent) /\ DOMAIN injected = 1 .. Len(injected)
  BY PacketsAssumption DEF IInv, Types, TypeOK
<1>3. \E a \in [DOMAIN injected -> DOMAIN sent] :
         /\ \A k \in DOMAIN injected : injected[k] = sent[a[k]]
         /\ \A k, l \in DOMAIN injected : k < l => a[k] < a[l]
  <2>1. at \in [DOMAIN injected -> DOMAIN sent]
    BY <1>1, <1>2 DEF Handled
  <2> QED BY <1>1, <1>2, <2>1, Zenon DEF Handled
<1> DEFINE N == Len(sent)
           n == Len(injected)
           last == sent[N]
<1>4. ASSUME Quiet, empties = 0, "full" \notin lost, sent # << >>, Legal(last)
      PROVE  device[last[1]] = GamepadState(last)
  <2>1. Running /\ ~InHand /\ ~InUse /\ queue = << >> /\ stream = << >>
    BY <1>4 DEF Quiet, Running, InHand, InUse
  <2>2. PICK t, d, from, to, lo : Laid(t, d, from, to, lo)
    BY <2>1 DEF PacketsInv
  <2>3. d = lo /\ lo \in 0 .. N /\ stream = Packs(sent, lo, N)
    <3>1. lo \in 0 .. N
      BY <2>2, RunBounds, Zenon
    <3>2. Chunks(from, to, d, lo) /\ Newest(from, to, d, lo)
      BY <2>2 DEF Laid
    <3>3. d = lo
      BY <1>4, <2>1, <3>2 DEF Newest
    <3> QED BY <3>1, <3>2, <3>3 DEF Chunks
  <2>4. N \in Nat \ {0}
    BY <1>2, <1>4
  <2>5. lo = N
    <3>1. N \in 0 .. N /\ Packs(sent, lo, N) = << >>
      BY <2>1, <2>3, <2>4
    <3> QED BY <1>2, <2>3, <3>1, PacksNone, Zenon
  <2>6. injected # << >> /\ t[n] = N /\ Handled(t, d)
    BY <2>1, <2>2, <2>3, <2>4, <2>5 DEF Laid, Hand
  <2>7. n \in 1 .. n
    BY <1>2, <2>6
  <2>8. injected[n] = last
    BY <2>6, <2>7 DEF Handled
  <2>9. last[1] \in Indexes
    <3>1. last \in Packets
      BY <1>2, <2>4
    <3>2. last \in Seq(Nat) /\ Len(last) = INPUT_PKT_LENGTH
      BY <3>1, PacketsAssumption
    <3> HIDE DEF last
    <3>3. last[1] \in Nat
      BY <3>2, PacketLength
    <3> QED BY <1>4, <3>3, MaxGamepadsAssumption DEF Legal, Indexes
  <2>10. NoneAfter(injected, n, last[1])
    BY <1>2 DEF NoneAfter
  <2> QED BY <2>1, <2>7, <2>8, <2>9, <2>10 DEF ShownInv, Shows
<1> QED BY <1>3, <1>4 DEF LastPacketShows

\* The packets handled are packets of the client in its order, as long as no
\* read ends inside one, and when all is read the last packet sent is what its
\* device shows: rbuf_wait_peak_latest throws away chunks, never the newest.
\* For any number of packets, any queue size and any packet length.
THEOREM LastPacketIsShown == Spec => []LastPacketShows
<1> DEFINE PInv == IInv /\ PacketsInv /\ ShownInv
<1>1. Init => PInv
  BY InitInv, InitPackets
<1>2. PInv /\ [Next]_vars => PInv'
  BY NextInv, NextPackets, NextShown
<1>3. PInv => LastPacketShows
  BY ShowsLast
<1> QED BY <1>1, <1>2, <1>3, PTL DEF Spec

=============================================================================
