---------------------------- MODULE AudioProofs ----------------------------
(***************************************************************************)
(* What Audio's run checks on one small ring, for every Capacity,          *)
(* FrameSize, MaxChunk and MaxFrames: the ring of ringBuffer.c keeps the   *)
(* newest frames, the encoder hands them on in order, and no wake-up is    *)
(* lost.                                                                   *)
(*                                                                         *)
(* RingOK says what the ring holds after w frames; every function of       *)
(* ringBuffer.c keeps it.  IInv adds who may still use the ring and what   *)
(* has left it.                                                            *)
(***************************************************************************)
EXTENDS Audio, SequenceTheorems, TLAPS

-----------------------------------------------------------------------------
(* Sequences *)

\* A part of a sequence, element by element.
LEMMA SubSeqElements ==
    ASSUME NEW S, NEW s \in Seq(S), NEW m \in 1 .. Len(s) + 1, NEW n \in m - 1 .. Len(s)
    PROVE  /\ SubSeq(s, m, n) \in Seq(S)
           /\ Len(SubSeq(s, m, n)) = n - m + 1
           /\ \A i \in 1 .. n - m + 1 : SubSeq(s, m, n)[i] = s[m + i - 1]
<1>1. Len(s) \in Nat /\ DOMAIN s = 1 .. Len(s) /\ m \in Int /\ n \in Int
  BY LenProperties
<1>2. \A i \in m .. n : s[i] \in S
  BY <1>1, ElementOfSeq
<1>3. /\ SubSeq(s, m, n) \in Seq(S)
      /\ Len(SubSeq(s, m, n)) = IF m <= n THEN n - m + 1 ELSE 0
      /\ \A i \in 1 .. n - m + 1 : SubSeq(s, m, n)[i] = s[m + i - 1]
  BY <1>1, <1>2, SubSeqProperties
<1>4. (IF m <= n THEN n - m + 1 ELSE 0) = n - m + 1
  BY <1>1
<1> QED BY <1>3, <1>4

-----------------------------------------------------------------------------
(* The ring *)

\* The remainder of a number below Capacity is the number itself.
LEMMA ModLow ==
    ASSUME NEW x \in Nat, x < Capacity
    PROVE  x % Capacity = x
BY CapacityAssumption

\* One wrap-around subtracts Capacity once.
LEMMA ModHigh ==
    ASSUME NEW x \in Nat, x >= Capacity, x < 2 * Capacity
    PROVE  x % Capacity = x - Capacity
BY CapacityAssumption

\* The position n items after r.
LEMMA Advance ==
    ASSUME NEW r \in Positions, NEW n \in 0 .. Capacity
    PROVE  /\ (r + n) % Capacity = IF r + n < Capacity THEN r + n ELSE r + n - Capacity
           /\ (r + n) % Capacity \in Positions
<1>1. CASE r + n < Capacity
  BY <1>1, ModLow, CapacityAssumption DEF Positions
<1>2. CASE ~(r + n < Capacity)
  BY <1>2, ModHigh, CapacityAssumption DEF Positions
<1> QED BY <1>1, <1>2

\* How far position p is from r, going round.
Behind(r, p) == IF p >= r THEN p - r ELSE p - r + Capacity

\* The ring after w frames: the unread ones are the newest, in their order.
RingOK(r, w) ==
    /\ r \in [buffer : [Positions -> 0 .. w], read_pos : Positions,
              write_pos : Positions, items_available : 0 .. Capacity, closed : BOOLEAN]
    /\ r.items_available <= w
    /\ r.write_pos = (r.read_pos + r.items_available) % Capacity
    /\ \A p \in Positions :
          Behind(r.read_pos, p) < r.items_available =>
              r.buffer[p] = w - r.items_available + Behind(r.read_pos, p) + 1

\* ring_buffer_init: an empty ring holds what it should after any number of
\* frames.
LEMMA InitOK == \A w \in Nat : RingOK(ring_buffer_init, w)
<1> TAKE w \in Nat
<1>1. 0 \in Positions /\ 0 % Capacity = 0
  BY ModLow, CapacityAssumption DEF Positions
<1>2. \A p \in Positions : Behind(0, p) \in Nat
  BY CapacityAssumption DEF Positions, Behind
<1> QED BY <1>1, <1>2, CapacityAssumption DEF RingOK, ring_buffer_init

\* ring_buffer_close leaves the frames where they are.
LEMMA CloseOK ==
    ASSUME NEW r, NEW w \in Nat, RingOK(r, w)
    PROVE  /\ RingOK(ring_buffer_close(r), w)
           /\ ring_buffer_close(r).items_available = r.items_available
           /\ ring_buffer_close(r).closed
BY DEF RingOK, ring_buffer_close

\* drop_oldest gives up the oldest unread frames and keeps the others.
LEMMA DropOK ==
    ASSUME NEW r, NEW w \in Nat, RingOK(r, w), NEW n \in 0 .. Capacity
    PROVE  /\ RingOK(drop_oldest(r, n), w)
           /\ drop_oldest(r, n).items_available = r.items_available - Least(n, r.items_available)
           /\ drop_oldest(r, n).write_pos = r.write_pos
           /\ drop_oldest(r, n).buffer = r.buffer
           /\ drop_oldest(r, n).closed = r.closed
<1> DEFINE a == r.items_available
           m == Least(n, a)
           d == drop_oldest(r, n)
<1>1. a \in 0 .. Capacity /\ m \in 0 .. a /\ m \in 0 .. Capacity /\ r.read_pos \in Positions
  BY CapacityAssumption DEF RingOK, Least
<1>2. d = [r EXCEPT !.read_pos = (@ + m) % Capacity, !.items_available = @ - m]
  BY DEF drop_oldest
<1>3. /\ d.read_pos = (r.read_pos + m) % Capacity /\ d.items_available = a - m
      /\ d.write_pos = r.write_pos /\ d.buffer = r.buffer /\ d.closed = r.closed
  BY <1>2 DEF RingOK
<1> a - m \in 0 .. Capacity
  BY <1>1, CapacityAssumption
<1> HIDE DEF a, m, d
<1>4. /\ d.read_pos = IF r.read_pos + m < Capacity THEN r.read_pos + m
                                                   ELSE r.read_pos + m - Capacity
      /\ d.read_pos \in Positions
  BY <1>1, <1>3, Advance
<1>5. d \in [buffer : [Positions -> 0 .. w], read_pos : Positions,
             write_pos : Positions, items_available : 0 .. Capacity, closed : BOOLEAN]
  <2>1. (r.read_pos + m) % Capacity \in Positions
    BY <1>3, <1>4
  <2> QED BY <1>2, <2>1 DEF RingOK, a
<1>6. d.write_pos = (d.read_pos + d.items_available) % Capacity
  <2>1. r.write_pos = IF r.read_pos + a < Capacity THEN r.read_pos + a
                                                   ELSE r.read_pos + a - Capacity
    BY <1>1, Advance DEF RingOK, a
  <2>2. (d.read_pos + (a - m)) % Capacity =
            IF d.read_pos + (a - m) < Capacity THEN d.read_pos + (a - m)
                                               ELSE d.read_pos + (a - m) - Capacity
    BY <1>1, <1>4, Advance
  <2> QED BY <1>1, <1>3, <1>4, <2>1, <2>2, CapacityAssumption DEF Positions
<1>7. ASSUME NEW p \in Positions, Behind(d.read_pos, p) < a - m
      PROVE  r.buffer[p] = w - (a - m) + Behind(d.read_pos, p) + 1
  <2>1. Behind(r.read_pos, p) = Behind(d.read_pos, p) + m
    BY <1>1, <1>4, <1>7, CapacityAssumption DEF Behind, Positions
  <2>2. Behind(r.read_pos, p) < a
    BY <1>1, <1>4, <1>7, <2>1, CapacityAssumption DEF Behind, Positions
  <2>3. r.buffer[p] = w - a + Behind(r.read_pos, p) + 1
    BY <2>2 DEF RingOK, a
  <2>4. Behind(d.read_pos, p) \in Int
    BY <1>4, CapacityAssumption DEF Behind, Positions
  <2> QED BY <1>1, <2>1, <2>3, <2>4
<1> QED BY <1>1, <1>3, <1>5, <1>6, <1>7 DEF RingOK, d, m, a

\* The buffer after a block has been copied to position pos.
LEMMA CopyInValue ==
    ASSUME NEW B, NEW pos \in Int, NEW S, NEW s \in Seq(S), NEW p \in Positions
    PROVE  CopyIn(B, pos, s)[p] =
               IF pos <= p /\ p < pos + Len(s) THEN s[p - pos + 1] ELSE B[p]
<1>1. Len(s) \in Nat /\ p \in Int
  BY LenProperties, CapacityAssumption DEF Positions
<1>2. p \in pos .. pos + Len(s) - 1 <=> pos <= p /\ p < pos + Len(s)
  BY <1>1
<1> QED BY <1>2 DEF CopyIn

\* ring_buffer_write of the next n frames.
LEMMA WriteOK ==
    ASSUME NEW r, NEW w \in Nat, RingOK(r, w), NEW n \in Nat \ {0},
           NEW data, data = [k \in 1 .. n |-> w + k]
    PROVE  /\ RingOK(ring_buffer_write(r, data), w + n)
           /\ ring_buffer_write(r, data).items_available \in 1 .. r.items_available + n
           /\ ring_buffer_write(r, data).closed = r.closed
<1> DEFINE items == ItemsToWrite(data)
           src   == SubSeq(data, Len(data) - items + 1, Len(data))
           room  == IF items > items_free(r)
                    THEN drop_oldest(r, items - items_free(r)) ELSE r
           first == Least(Capacity - room.write_pos, items)
           s1    == SubSeq(src, 1, first)
           s2    == SubSeq(src, first + 1, items)
           wp    == room.write_pos
           old   == room.buffer
           buf   == CopyIn(old, wp, s1)
           new   == CopyIn(buf, 0, s2)
           rp    == room.read_pos
           a     == room.items_available
<1>0. Capacity \in Nat /\ Capacity > 0
  BY CapacityAssumption
<1>1. data \in Seq(Int) /\ Len(data) = n
  BY IsASeq
<1>2. items \in Nat /\ items > 0 /\ items <= n /\ items <= Capacity
  BY <1>0, <1>1 DEF ItemsToWrite, Least
<1>3. /\ src \in Seq(Int) /\ Len(src) = items
      /\ \A k \in 1 .. items : src[k] = w + n - items + k
  <2> DEFINE m == n - items + 1
  <2>1. m \in 1 .. Len(data) + 1 /\ n \in m - 1 .. Len(data) /\ n - m + 1 = items
    BY <1>1, <1>2
  <2>2. src = SubSeq(data, m, n)
    BY <1>1
  <2> HIDE DEF src, items, m
  <2>3. /\ src \in Seq(Int) /\ Len(src) = n - m + 1
        /\ \A k \in 1 .. n - m + 1 : src[k] = data[m + k - 1]
    BY <1>1, <2>1, <2>2, SubSeqElements
  <2>4. ASSUME NEW k \in 1 .. items PROVE data[m + k - 1] = w + n - items + k
    BY <1>2 DEF m
  <2> QED BY <2>1, <2>3, <2>4
<1>4. r.items_available \in 0 .. Capacity
  BY DEF RingOK
<1>5. /\ RingOK(room, w) /\ a <= Capacity - items /\ a <= r.items_available
      /\ room.closed = r.closed
  <2>1. CASE items > items_free(r)
    <3>1. items - items_free(r) \in 0 .. Capacity /\ items - items_free(r) <= r.items_available
      BY <1>0, <1>2, <1>4, <2>1 DEF items_free
    <3>2. Least(items - items_free(r), r.items_available) = items - items_free(r)
      BY <1>0, <1>2, <1>4, <3>1 DEF items_free, Least
    <3>3. a = r.items_available - (items - items_free(r))
      BY <2>1, <3>1, <3>2, DropOK
    <3>4. RingOK(room, w) /\ room.closed = r.closed
      BY <2>1, <3>1, DropOK
    <3> HIDE DEF items, room
    <3> QED BY <1>0, <1>2, <1>4, <3>1, <3>3, <3>4 DEF items_free
  <2>2. CASE ~(items > items_free(r))
    BY <1>0, <1>2, <1>4, <2>2 DEF items_free
  <2> QED BY <2>1, <2>2
<1>6. /\ a \in 0 .. Capacity /\ wp \in Positions /\ rp \in Positions
      /\ old \in [Positions -> 0 .. w] /\ a <= w
      /\ wp = IF rp + a < Capacity THEN rp + a ELSE rp + a - Capacity
  BY <1>5, Advance DEF RingOK
<1>7. ring_buffer_write(r, data) =
          [room EXCEPT !.buffer = new, !.write_pos = (@ + items) % Capacity,
                       !.items_available = @ + items]
  BY DEF ring_buffer_write
<1> HIDE DEF items, src, room, a, wp, rp, old
<1> /\ a \in Int /\ 0 <= a /\ a <= Capacity
    /\ wp \in Int /\ 0 <= wp /\ wp < Capacity
    /\ rp \in Int /\ 0 <= rp /\ rp < Capacity
  BY <1>0, <1>6 DEF Positions
<1> a > 0 => items = n
  BY <1>0, <1>1, <1>2, <1>5 DEF items, ItemsToWrite, Least
<1>8. first \in 0 .. items /\ first <= Capacity - wp /\ (first < items => first = Capacity - wp)
  BY <1>0, <1>2 DEF Least, wp
<1> HIDE DEF first
<1>9. /\ s1 \in Seq(Int) /\ Len(s1) = first
      /\ \A k \in 1 .. first : s1[k] = w + n - items + k
  BY <1>2, <1>3, <1>8, SubSeqElements
<1>10. /\ s2 \in Seq(Int) /\ Len(s2) = items - first
       /\ \A k \in 1 .. items - first : s2[k] = w + n - items + first + k
  <2> DEFINE m == first + 1
  <2>1. m \in 1 .. Len(src) + 1 /\ items \in m - 1 .. Len(src)
    BY <1>2, <1>3, <1>8
  <2> HIDE DEF m
  <2>2. /\ SubSeq(src, m, items) \in Seq(Int) /\ Len(SubSeq(src, m, items)) = items - m + 1
        /\ \A k \in 1 .. items - m + 1 : SubSeq(src, m, items)[k] = src[m + k - 1]
    BY <1>3, <2>1, SubSeqElements
  <2>3. ASSUME NEW k \in 1 .. items - first PROVE s2[k] = w + n - items + first + k
    <3>1. s2[k] = src[m + k - 1] /\ m + k - 1 = first + k /\ first + k \in 1 .. items
      BY <1>2, <1>8, <2>2 DEF m
    <3> QED BY <1>2, <1>3, <1>8, <3>1
  <2>4. s2 \in Seq(Int) /\ Len(s2) = items - first
    BY <1>2, <1>8, <2>2 DEF m
  <2> QED BY <2>3, <2>4
<1>11. ASSUME NEW p \in Positions
       PROVE  new[p] = IF Behind(wp, p) < items
                       THEN w + n - items + Behind(wp, p) + 1 ELSE old[p]
  <2> HIDE DEF s1, s2
  <2>1. p \in Int /\ 0 <= p /\ p < Capacity
    BY <1>0 DEF Positions
  <2>2. new[p] = IF 0 <= p /\ p < 0 + Len(s2) THEN s2[p - 0 + 1] ELSE buf[p]
    BY <1>10, CopyInValue
  <2> wp \in Int
    OBVIOUS
  <2>3. buf[p] = IF wp <= p /\ p < wp + Len(s1) THEN s1[p - wp + 1] ELSE old[p]
    BY <1>9, CopyInValue
  <2> HIDE DEF new, buf
  <2>4. CASE p < items - first
    <3>1. new[p] = w + n - items + first + (p + 1)
      BY <1>2, <1>8, <1>10, <2>1, <2>2, <2>4
    <3>2. first = Capacity - wp /\ p < wp
      BY <1>0, <1>2, <1>8, <2>1, <2>4
    <3> QED BY <1>0, <1>2, <1>8, <2>1, <2>4, <3>1, <3>2 DEF Behind
  <2>5. CASE ~(p < items - first)
    <3>1. new[p] = buf[p]
      BY <1>2, <1>8, <1>10, <2>1, <2>2, <2>5
    <3>2. CASE wp <= p /\ p < wp + first
      <4>1. buf[p] = w + n - items + (p - wp + 1)
        BY <1>8, <1>9, <2>1, <2>3, <3>2
      <4> QED BY <1>2, <1>8, <2>1, <3>1, <3>2, <4>1 DEF Behind
    <3>3. CASE ~(wp <= p /\ p < wp + first)
      <4>1. buf[p] = old[p]
        BY <1>8, <1>9, <2>1, <2>3, <3>3
      <4>2. ~(Behind(wp, p) < items)
        BY <1>0, <1>2, <1>8, <2>1, <2>5, <3>3 DEF Behind
      <4> QED BY <3>1, <4>1, <4>2
    <3> QED BY <3>2, <3>3
  <2> QED BY <2>4, <2>5
<1>12. new \in [Positions -> 0 .. w + n]
  <2>1. new = [p \in Positions |-> new[p]]
    BY DEF CopyIn
  <2>2. ASSUME NEW p \in Positions PROVE new[p] \in 0 .. w + n
    <3>1. Behind(wp, p) \in Nat
      BY <1>0 DEF Behind, Positions
    <3>2. old[p] \in 0 .. w
      BY <1>6
    <3>3. CASE Behind(wp, p) < items
      <4>1. new[p] = w + n - items + Behind(wp, p) + 1
        BY <1>11, <3>3
      <4> HIDE DEF new
      <4> QED BY <1>2, <3>1, <3>3, <4>1
    <3>4. CASE ~(Behind(wp, p) < items)
      BY <1>11, <3>2, <3>4
    <3> QED BY <3>3, <3>4
  <2> QED BY <2>1, <2>2
<1> HIDE DEF new
<1> DEFINE res == ring_buffer_write(r, data)
<1>13. /\ res.buffer = new /\ res.write_pos = (wp + items) % Capacity
       /\ res.items_available = a + items /\ res.read_pos = rp
       /\ res.closed = r.closed
  BY <1>5, <1>7 DEF RingOK, a, wp, rp
<1>14. /\ (wp + items) % Capacity = IF wp + items < Capacity THEN wp + items
                                                            ELSE wp + items - Capacity
       /\ (wp + items) % Capacity \in Positions
  <2>1. items \in 0 .. Capacity
    BY <1>0, <1>2
  <2> QED BY <1>6, <2>1, Advance
<1>15. a + items \in 0 .. Capacity
  BY <1>0, <1>2, <1>5, <1>6
<1>16. res \in [buffer : [Positions -> 0 .. w + n], read_pos : Positions,
                write_pos : Positions, items_available : 0 .. Capacity, closed : BOOLEAN]
  BY <1>5, <1>7, <1>12, <1>14, <1>15 DEF RingOK, a, wp
<1> HIDE DEF res
<1>17. (rp + (a + items)) % Capacity = (wp + items) % Capacity
  <2>1. (rp + (a + items)) % Capacity =
          IF rp + (a + items) < Capacity THEN rp + (a + items)
                                                    ELSE rp + (a + items) - Capacity
    BY <1>6, <1>15, Advance
  <2> QED BY <1>0, <1>2, <1>5, <1>6, <1>14, <1>15, <2>1
<1>18. ASSUME NEW p \in Positions, Behind(rp, p) < a + items
       PROVE  new[p] = w + n - (a + items) + Behind(rp, p) + 1
  <2>1. Behind(rp, p) \in Nat /\ Behind(wp, p) \in Nat
    BY <1>0 DEF Behind, Positions
  <2>2. CASE Behind(rp, p) < a
    <3>1. ~(Behind(wp, p) < items)
      <4>1. p \in Int /\ 0 <= p /\ p < Capacity /\ a <= Capacity - items
        BY <1>0, <1>5 DEF Positions
      <4>2. wp = IF rp + a < Capacity THEN rp + a ELSE rp + a - Capacity
        BY <1>6
      <4> QED BY <1>0, <1>2, <2>2, <4>1, <4>2 DEF Behind
    <3>2. old[p] = w - a + Behind(rp, p) + 1
      BY <1>5, <2>2 DEF RingOK, a, rp, old
    <3>3. new[p] = w - a + Behind(rp, p) + 1 /\ items = n
      BY <1>11, <2>1, <2>2, <3>1, <3>2
    <3> QED BY <2>1, <3>3
  <2>3. CASE ~(Behind(rp, p) < a)
    <3>1. Behind(wp, p) = Behind(rp, p) - a
      BY <1>0, <1>2, <1>5, <1>6, <1>18, <2>3 DEF Behind, Positions
    <3>2. Behind(wp, p) < items
      BY <1>2, <1>18, <2>1, <3>1
    <3>3. new[p] = w + n - items + Behind(wp, p) + 1
      BY <1>11, <3>2
    <3> QED BY <1>2, <2>1, <3>1, <3>3
  <2> QED BY <2>2, <2>3
<1>19. a + items <= w + n /\ a + items >= 1 /\ a + items <= r.items_available + n
  BY <1>2, <1>4, <1>5, <1>6
<1> DEFINE W == w + n
<1>20. RingOK(res, W)
  <2>1. res.items_available <= w + n
    BY <1>13, <1>19
  <2>2. res.write_pos = (res.read_pos + res.items_available) % Capacity
    BY <1>13, <1>17 DEF rp
  <2>3. \A p \in Positions : Behind(res.read_pos, p) < res.items_available =>
            res.buffer[p] = W - res.items_available + Behind(res.read_pos, p) + 1
    <3>1. \A p \in Positions : Behind(rp, p) < a + items =>
              new[p] = W - (a + items) + Behind(rp, p) + 1
      BY <1>2, <1>18
    <3> HIDE DEF W
    <3> QED BY <1>13, <3>1, Zenon
  <2>4. res \in [buffer : [Positions -> 0 .. W], read_pos : Positions,
                  write_pos : Positions, items_available : 0 .. Capacity, closed : BOOLEAN]
    BY <1>16
  <2>5. res.items_available <= W
    BY <2>1
  <2> HIDE DEF W
  <2> QED BY <2>2, <2>3, <2>4, <2>5 DEF RingOK
<1>21. a + items \in 1 .. r.items_available + n
  BY <1>2, <1>4, <1>19
<1> QED BY <1>13, <1>20, <1>21 DEF res

\* What a reader of the whole ring gets, and the ring it leaves.
LEMMA ReadOK ==
    ASSUME NEW r, NEW w \in Nat, RingOK(r, w)
    PROVE  /\ ItemsRead(r, Capacity) = [k \in 1 .. r.items_available |-> w - r.items_available + k]
           /\ RingOK(AfterRead(r, Capacity), w)
           /\ AfterRead(r, Capacity).items_available = 0
<1> DEFINE a     == r.items_available
           rp    == r.read_pos
           first == Least(Capacity - rp, a)
           s     == CopyOut(r.buffer, rp, first)
           t     == CopyOut(r.buffer, 0, a - first)
           u     == [k \in 1 .. a |-> w - a + k]
<1>0. Capacity \in Nat /\ Capacity > 0
  BY CapacityAssumption
<1>1. a \in 0 .. Capacity /\ rp \in Positions /\ a <= w
  BY DEF RingOK
<1>2. a \in Int /\ 0 <= a /\ a <= Capacity /\ rp \in Int /\ 0 <= rp /\ rp < Capacity
  BY <1>0, <1>1 DEF Positions
<1>3. Least(Capacity, a) = a
  BY <1>0, <1>2 DEF Least
<1>4. ItemsRead(r, Capacity) = s \o t
  BY <1>3 DEF ItemsRead, ItemsToRead
<1>5. ASSUME NEW p \in Positions, Behind(rp, p) < a
      PROVE  r.buffer[p] = w - a + Behind(rp, p) + 1
  BY <1>5 DEF RingOK
<1>6. AfterRead(r, Capacity) = drop_oldest(r, Capacity)
  BY DEF AfterRead, drop_oldest, ItemsToRead
<1>7. /\ RingOK(drop_oldest(r, Capacity), w)
      /\ drop_oldest(r, Capacity).items_available = a - a
  BY <1>0, <1>3, DropOK
<1>8. first \in 0 .. a /\ first <= Capacity - rp /\ (first < a => first = Capacity - rp)
  BY <1>0, <1>2 DEF Least
<1> HIDE DEF a, rp, first
<1>9. ASSUME NEW k \in 1 .. first PROVE s[k] = w - a + k
  <2> DEFINE p == rp + k - 1
  <2>1. p \in Positions /\ Behind(rp, p) = k - 1 /\ k - 1 < a /\ k \in Int
    BY <1>0, <1>2, <1>8 DEF Positions, Behind
  <2>2. s[k] = r.buffer[p]
    BY DEF CopyOut
  <2> HIDE DEF p, s
  <2>3. r.buffer[p] = w - a + Behind(rp, p) + 1
    BY <1>5, <2>1
  <2> QED BY <1>2, <2>1, <2>2, <2>3
<1>10. ASSUME NEW k \in 1 .. a - first PROVE t[k] = w - a + (first + k)
  <2> DEFINE p == 0 + k - 1
  <2>1. p \in Positions /\ Behind(rp, p) = first + k - 1 /\ first + k - 1 < a
        /\ k \in Int /\ first \in Int
    BY <1>0, <1>2, <1>8 DEF Positions, Behind
  <2>2. t[k] = r.buffer[p]
    BY DEF CopyOut
  <2> HIDE DEF p, t
  <2>3. r.buffer[p] = w - a + Behind(rp, p) + 1
    BY <1>5, <2>1
  <2> QED BY <1>2, <2>1, <2>2, <2>3
<1>11. s \in Seq(Int) /\ Len(s) = first
  <2>1. s = [k \in 1 .. first |-> w - a + k]
    BY <1>9 DEF CopyOut
  <2> HIDE DEF s
  <2>2. \A k \in 1 .. first : w - a + k \in Int
    BY <1>2
  <2> QED BY <1>2, <1>8, <2>1, <2>2, IsASeq
<1>12. t \in Seq(Int) /\ Len(t) = a - first
  <2>1. t = [k \in 1 .. a - first |-> w - a + (first + k)]
    BY <1>10 DEF CopyOut
  <2> HIDE DEF t
  <2>2. \A k \in 1 .. a - first : w - a + (first + k) \in Int
    BY <1>2, <1>8
  <2>3. a - first \in Nat
    BY <1>2, <1>8
  <2> QED BY <2>1, <2>2, <2>3, IsASeq
<1> HIDE DEF s, t
<1>13. u \in Seq(Int) /\ Len(u) = a
  BY <1>2, IsASeq
<1>14. /\ s \o t \in Seq(Int) /\ Len(s \o t) = first + (a - first)
       /\ \A i \in 1 .. first + (a - first) :
             (s \o t)[i] = IF i <= first THEN s[i] ELSE t[i - first]
  <2>1. /\ s \o t \in Seq(Int) /\ Len(s \o t) = Len(s) + Len(t)
        /\ \A i \in 1 .. Len(s) + Len(t) :
             (s \o t)[i] = IF i <= Len(s) THEN s[i] ELSE t[i - Len(s)]
    BY <1>11, <1>12, ConcatProperties
  <2> QED BY <1>11, <1>12, <2>1, Zenon
<1>15. first + (a - first) = a
  BY <1>2, <1>8
<1>16. ASSUME NEW i \in 1 .. a PROVE (s \o t)[i] = u[i]
  <2>1. (s \o t)[i] = IF i <= first THEN s[i] ELSE t[i - first]
    BY <1>14, <1>15
  <2>2. u[i] = w - a + i
    OBVIOUS
  <2> HIDE DEF u
  <2>3. CASE i <= first
    BY <1>2, <1>8, <1>9, <2>1, <2>2, <2>3
  <2>4. CASE ~(i <= first)
    <3>1. i - first \in 1 .. a - first /\ first + (i - first) = i
      BY <1>2, <1>8, <2>4
    <3> QED BY <1>10, <2>1, <2>2, <2>4, <3>1
  <2> QED BY <2>3, <2>4
<1> HIDE DEF u
<1>17. s \o t = u
  BY <1>13, <1>14, <1>15, <1>16, SeqEqual
<1>18. a - a = 0
  BY <1>2
<1> QED BY <1>4, <1>6, <1>7, <1>17, <1>18 DEF u, a

-----------------------------------------------------------------------------
(* The stream *)

\* The numbers of s increase, and none is above b.
Increasing(s) == \A j, k \in 1 .. Len(s) : j < k => s[j] < s[k]
AtMost(s, b) == \A k \in 1 .. Len(s) : s[k] <= b

\* Every frame number that has left the ring is at most this.
TakenUpTo == IF ring = NoRing THEN written ELSE written - ring.items_available

\* Numbers up to b followed by numbers above b.
LEMMA ConcatIncreasing ==
    ASSUME NEW s \in Seq(Int), NEW t \in Seq(Int), NEW b \in Int,
           Increasing(s), Increasing(t), AtMost(s, b),
           \A k \in 1 .. Len(t) : t[k] > b
    PROVE  Increasing(s \o t)
<1>1. /\ s \o t \in Seq(Int) /\ Len(s \o t) = Len(s) + Len(t)
      /\ \A i \in 1 .. Len(s) + Len(t) :
            (s \o t)[i] = IF i <= Len(s) THEN s[i] ELSE t[i - Len(s)]
  BY ConcatProperties
<1>2. Len(s) \in Nat /\ Len(t) \in Nat
  BY LenProperties
<1>3. ASSUME NEW j \in 1 .. Len(s) + Len(t), NEW k \in 1 .. Len(s) + Len(t), j < k
      PROVE  (s \o t)[j] < (s \o t)[k]
  <2>1. CASE k <= Len(s)
    BY <1>1, <1>2, <1>3, <2>1 DEF Increasing
  <2>2. CASE j <= Len(s) /\ ~(k <= Len(s))
    <3>1. s[j] <= b /\ t[k - Len(s)] > b /\ s[j] \in Int /\ t[k - Len(s)] \in Int
      BY <1>2, <2>2, ElementOfSeq DEF AtMost
    <3> QED BY <1>1, <2>2, <3>1
  <2>3. CASE ~(j <= Len(s))
    <3>1. /\ j - Len(s) \in 1 .. Len(t) /\ k - Len(s) \in 1 .. Len(t)
          /\ j - Len(s) < k - Len(s) /\ ~(k <= Len(s))
      BY <1>2, <1>3, <2>3
    <3>2. t[j - Len(s)] < t[k - Len(s)]
      BY <3>1 DEF Increasing
    <3> QED BY <1>1, <2>3, <3>1, <3>2
  <2> QED BY <1>2, <1>3, <2>1, <2>2, <2>3
<1> QED BY <1>1, <1>3 DEF Increasing

\* Two sequences of numbers up to b, one after the other.
LEMMA ConcatAtMost ==
    ASSUME NEW s \in Seq(Int), NEW t \in Seq(Int), NEW b \in Int,
           AtMost(s, b), AtMost(t, b)
    PROVE  AtMost(s \o t, b)
<1>1. /\ s \o t \in Seq(Int) /\ Len(s \o t) = Len(s) + Len(t)
      /\ \A i \in 1 .. Len(s) + Len(t) :
            (s \o t)[i] = IF i <= Len(s) THEN s[i] ELSE t[i - Len(s)]
  BY ConcatProperties
<1>2. Len(s) \in Nat /\ Len(t) \in Nat
  BY LenProperties
<1> QED BY <1>1, <1>2 DEF AtMost

\* A bound may be raised.
LEMMA AtMostMore ==
    ASSUME NEW s \in Seq(Int), NEW b \in Int, NEW c \in Int, b <= c, AtMost(s, b)
    PROVE  AtMost(s, c)
BY ElementOfSeq DEF AtMost

\* A lost Opus frame leaves the others in order.
LEMMA DropMiddle ==
    ASSUME NEW s \in Seq(Int), NEW m \in Seq(Int), NEW t \in Seq(Int), NEW b \in Int,
           Increasing((s \o m) \o t), AtMost((s \o m) \o t, b)
    PROVE  Increasing(s \o t) /\ AtMost(s \o t, b)
<1> DEFINE sm == s \o m
           all == sm \o t
           l == Len(m)
<1>1. /\ sm \in Seq(Int) /\ Len(sm) = Len(s) + Len(m)
      /\ \A i \in 1 .. Len(s) + Len(m) :
            sm[i] = IF i <= Len(s) THEN s[i] ELSE m[i - Len(s)]
  BY ConcatProperties
<1>2. Len(s) \in Nat /\ Len(t) \in Nat /\ l \in Nat
  BY LenProperties
<1> HIDE DEF sm
<1>3. /\ all \in Seq(Int) /\ Len(all) = Len(sm) + Len(t)
      /\ \A i \in 1 .. Len(sm) + Len(t) :
            all[i] = IF i <= Len(sm) THEN sm[i] ELSE t[i - Len(sm)]
  <2>1. sm \in Seq(Int)
    BY <1>1
  <2> QED BY <2>1, ConcatProperties
<1> Increasing(all) /\ AtMost(all, b)
  BY DEF sm
<1> HIDE DEF all, l
<1>4. /\ s \o t \in Seq(Int) /\ Len(s \o t) = Len(s) + Len(t)
      /\ \A i \in 1 .. Len(s) + Len(t) :
            (s \o t)[i] = IF i <= Len(s) THEN s[i] ELSE t[i - Len(s)]
  BY ConcatProperties
<1> DEFINE At(i) == IF i <= Len(s) THEN i ELSE i + l
<1>5. Len(all) = Len(s) + l + Len(t) /\ Len(sm) = Len(s) + l
  BY <1>1, <1>3 DEF l
<1>6. ASSUME NEW i \in 1 .. Len(s) + Len(t)
      PROVE  At(i) \in 1 .. Len(all) /\ (s \o t)[i] = all[At(i)]
  <2>1. CASE i <= Len(s)
    <3>1. i \in 1 .. Len(sm) + Len(t) /\ i \in 1 .. Len(s) + Len(m) /\ i <= Len(sm)
      BY <1>1, <1>2, <2>1 DEF l
    <3>2. all[i] = sm[i] /\ sm[i] = s[i] /\ i \in 1 .. Len(all)
      BY <1>1, <1>3, <2>1, <3>1
    <3> QED BY <1>4, <2>1, <3>2
  <2>2. CASE ~(i <= Len(s))
    <3>1. i + l \in 1 .. Len(all) /\ ~(i + l <= Len(sm)) /\ (i + l) - Len(sm) = i - Len(s)
      BY <1>2, <1>5, <2>2
    <3> DEFINE j == i + l
    <3>2. j \in 1 .. Len(sm) + Len(t)
      BY <1>3, <3>1
    <3> HIDE DEF j
    <3>3. all[j] = IF j <= Len(sm) THEN sm[j] ELSE t[j - Len(sm)]
      BY <1>3, <3>2
    <3>4. ~(j <= Len(sm)) /\ j - Len(sm) = i - Len(s)
      BY <3>1 DEF j
    <3>5. all[j] = t[i - Len(s)]
      BY <3>3, <3>4
    <3> QED BY <1>4, <2>2, <3>1, <3>5 DEF j
  <2> QED BY <2>1, <2>2
<1>7. ASSUME NEW j \in 1 .. Len(s) + Len(t), NEW k \in 1 .. Len(s) + Len(t), j < k
      PROVE  At(j) < At(k)
  BY <1>2, <1>7
<1> HIDE DEF At
<1>8. Increasing(s \o t)
  BY <1>4, <1>6, <1>7 DEF Increasing
<1>9. AtMost(s \o t, b)
  BY <1>4, <1>6 DEF AtMost
<1> QED BY <1>8, <1>9

\* The quotient and the remainder.
LEMMA DivMod ==
    ASSUME NEW d \in Nat \ {0}, NEW x \in Nat
    PROVE  x = d * (x \div d) + (x % d) /\ x \div d \in Int /\ x % d \in 0 .. d - 1
OBVIOUS

\* The only multiple of d in the d numbers up to zero.
LEMMA OnlyMultiple ==
    ASSUME NEW d \in Nat \ {0}, NEW k \in Int, d * k <= 0, d * k > 0 - d
    PROVE  k = 0
<1>1. CASE k >= 1
  BY <1>1
<1>2. CASE k <= -1
  <2>1. d * k <= d * (-1)
    BY <1>2
  <2> QED BY <2>1
<1> QED BY <1>1, <1>2

\* One more Opus frame is still a whole number of them.
LEMMA WholeFrames ==
    ASSUME NEW x \in Nat, x % FrameSize = 0
    PROVE  (x + FrameSize) % FrameSize = 0
<1> DEFINE d == FrameSize
           y == x + d
           a == x \div d
           b == y \div d
           r == y % d
<1>0. d \in Nat \ {0}
  BY AudioAssumption
<1>1. x = d * a /\ a \in Int
  BY <1>0, DivMod
<1>2. y \in Nat /\ y = x + d
  BY <1>0
<1>3. y = d * b + r /\ b \in Int /\ r \in 0 .. d - 1
  BY <1>0, <1>2, DivMod
<1> HIDE DEF d, y, a, b, r
<1>4. d * (b - a - 1) = d * b - d * a - d
  BY <1>0, <1>1, <1>3
<1>5. d * (b - a - 1) = 0 - r
  BY <1>0, <1>1, <1>2, <1>3, <1>4
<1>6. b - a - 1 = 0
  BY <1>0, <1>1, <1>3, <1>5, OnlyMultiple
<1>7. d * (b - a - 1) = 0
  BY <1>0, <1>6
<1>8. r = 0
  BY <1>3, <1>5, <1>7
<1> QED BY <1>8 DEF r, y, d

-----------------------------------------------------------------------------
(* The inductive invariant *)

\* session_teardown joins capture before encoder, and destroys the ring when
\* both have exited.
Teardown ==
    /\ is_active <=> tpc = "run"
    /\ tpc \in {"run", "notify", "sleep"} => nth = 1
    /\ tpc = "join" /\ nth = 2 => cpc = "exited"
    /\ tpc \in {"destroy", "done"} => cpc = "exited" /\ epc = "exited"

\* Who uses the ring finds it there.
RingThere ==
    /\ cpc = "publish" => ring # NoRing
    /\ format_ready => ring # NoRing \/ tpc = "done"
    /\ epc \in {"read", "read_wait", "read_woken", "copy"} => ring # NoRing

\* What was taken from the ring, in its three places.
Stream ==
    /\ Increasing(encoded \o pending_frame \o frame_data)
    /\ AtMost(encoded \o pending_frame \o frame_data, TakenUpTo)
    /\ epc \notin {"copy", "exited"} => frame_data = << >>
    /\ Len(encoded) % FrameSize = 0 /\ Len(pending_frame) < FrameSize

IInv ==
    /\ TypeOK
    /\ dropped_frames <= delivered /\ written <= delivered
    /\ ring # NoRing => RingOK(ring, written)
    /\ Teardown
    /\ RingThere
    /\ NoLostWakeup
    /\ Stream

\* A ring is not NoRing, and has the type that TypeOK states.
LEMMA RingType ==
    ASSUME NEW r, NEW w \in Nat, w <= MaxFrames, RingOK(r, w)
    PROVE  /\ r # NoRing
           /\ r \in [buffer : [Positions -> 0 .. MaxFrames], read_pos : Positions,
                     write_pos : Positions, items_available : 0 .. Capacity, closed : BOOLEAN]
<1>1. r \in [buffer : [Positions -> 0 .. w], read_pos : Positions,
             write_pos : Positions, items_available : 0 .. Capacity, closed : BOOLEAN]
  BY DEF RingOK
<1>2. [Positions -> 0 .. w] \subseteq [Positions -> 0 .. MaxFrames]
  BY AudioAssumption
<1>3. DOMAIN r # DOMAIN NoRing
  BY <1>1 DEF NoRing
<1> QED BY <1>1, <1>2, <1>3

\* The invariant holds when the two threads start.
LEMMA InitIInv == Init => IInv
<1> SUFFICES ASSUME Init PROVE IInv
  OBVIOUS
<1>1. TypeOK
  <2>1. << >> \in Seq(1 .. MaxFrames)
    BY EmptySeq
  <2>2. 0 \in 0 .. MaxFrames /\ 1 \in 1 .. 2 /\ {} \subseteq {"format", "ring"}
    BY AudioAssumption
  <2> QED BY <2>1, <2>2 DEF Init, TypeOK
<1>2. Stream
  <2>1. encoded \o pending_frame \o frame_data = << >> /\ Len(<< >>) = 0
    BY DEF Init
  <2>2. 0 % FrameSize = 0
    BY AudioAssumption
  <2> QED BY <2>1, <2>2, AudioAssumption DEF Init, Stream, Increasing, AtMost
<1>3. Teardown /\ RingThere /\ NoLostWakeup
  BY DEF Init, Teardown, RingThere, NoLostWakeup
<1> QED BY <1>1, <1>2, <1>3 DEF Init, IInv

\* Steps that touch neither the ring nor the frames.
Quiet == UNCHANGED <<ring, written, delivered, dropped_frames,
                     frame_data, pending_frame, encoded>>

\* Such a step keeps the invariant if it keeps the parts about the threads.
LEMMA QuietStep ==
    ASSUME IInv, Quiet, TypeOK', Teardown', RingThere', NoLostWakeup',
           epc' \notin {"copy", "exited"} => frame_data = << >>
    PROVE  IInv'
<1>1. Stream'
  BY DEF IInv, Stream, Quiet, TakenUpTo
<1> QED BY <1>1 DEF IInv, Quiet

\* Transport setting client_connected.
LEMMA ConnectsStep == IInv /\ ClientConnects => IInv'
<1> SUFFICES ASSUME IInv, ClientConnects PROVE IInv'
  OBVIOUS
<1>1. Quiet
  BY DEF ClientConnects, captureVars, encoderVars, Quiet
<1>2. TypeOK'
  BY DEF IInv, TypeOK, ClientConnects, sessionVars, captureVars, encoderVars
<1>3. Teardown' /\ RingThere' /\ NoLostWakeup'
  BY DEF IInv, Teardown, RingThere, NoLostWakeup, ClientConnects,
         sessionVars, captureVars, encoderVars
<1>4. epc' \notin {"copy", "exited"} => frame_data = << >>
  BY DEF IInv, Stream, ClientConnects, encoderVars
<1> QED BY <1>1, <1>2, <1>3, <1>4, QuietStep

\* capture_pw_main up to its loop.
LEMMA MainStep == IInv /\ capture_pw_main => IInv'
<1> SUFFICES ASSUME IInv, capture_pw_main PROVE IInv'
  OBVIOUS
<1>1. Quiet
  BY DEF capture_pw_main, sessionVars, captureVars, encoderVars, Quiet
<1>2. TypeOK'
  <2>1. running' \in BOOLEAN
    BY Zenon DEF IInv, TypeOK, capture_pw_main
  <2>2. cpc' \in {"start", "run", "publish", "quit", "exited"}
    BY DEF capture_pw_main
  <2>3. UNCHANGED <<is_active, client_connected, ring, format_ready, epc, tpc, nth,
                    dropped_frames, delivered, written, frame_data, pending_frame,
                    encoded, deadlocked>>
    BY DEF capture_pw_main, sessionVars, encoderVars
  <2> QED BY <2>1, <2>2, <2>3 DEF IInv, TypeOK
<1>3. Teardown'
  BY DEF IInv, TypeOK, Teardown, capture_pw_main, sessionVars, captureVars, encoderVars
<1>4. RingThere'
  BY DEF IInv, Teardown, RingThere, capture_pw_main, sessionVars, captureVars, encoderVars
<1>5. NoLostWakeup'
  BY DEF IInv, Teardown, NoLostWakeup, capture_pw_main, sessionVars, captureVars, encoderVars
<1>6. epc' \notin {"copy", "exited"} => frame_data = << >>
  BY DEF IInv, Stream, capture_pw_main, sessionVars, captureVars, encoderVars
<1> QED BY <1>1, <1>2, <1>3, <1>4, <1>5, <1>6, QuietStep

\* The second half of on_stream_param_changed.
LEMMA PublishStep == IInv /\ publish_format => IInv'
<1> SUFFICES ASSUME IInv, publish_format PROVE IInv'
  OBVIOUS
<1>1. Quiet
  BY DEF publish_format, sessionVars, captureVars, encoderVars, WakeFormat, Quiet
<1>2. TypeOK'
  BY DEF IInv, TypeOK, publish_format, sessionVars, captureVars, encoderVars, WakeFormat
<1>3. Teardown'
  BY DEF IInv, TypeOK, Teardown, publish_format, sessionVars, captureVars, encoderVars, WakeFormat
<1>4. RingThere'
  BY DEF IInv, Teardown, RingThere, publish_format, sessionVars, captureVars, encoderVars, WakeFormat
<1>5. NoLostWakeup'
  BY DEF IInv, Teardown, NoLostWakeup, publish_format, sessionVars, captureVars, encoderVars, WakeFormat
<1>6. epc' \notin {"copy", "exited"} => frame_data = << >>
  BY DEF IInv, Stream, publish_format, sessionVars, captureVars, encoderVars, WakeFormat
<1> QED BY <1>1, <1>2, <1>3, <1>4, <1>5, <1>6, QuietStep

\* The encoder waiting for the format.
LEMMA FormatStep == IInv /\ wait_format => IInv'
<1> SUFFICES ASSUME IInv, wait_format PROVE IInv'
  OBVIOUS
<1>1. Quiet
  BY DEF wait_format, sessionVars, captureVars, encoderVars, EncoderStep, audio_encoder_startup, Quiet
<1>2. TypeOK'
  BY DEF IInv, TypeOK, wait_format, sessionVars, captureVars, encoderVars, EncoderStep, audio_encoder_startup
<1>3. Teardown'
  BY DEF IInv, TypeOK, Teardown, wait_format, sessionVars, captureVars, encoderVars, EncoderStep, audio_encoder_startup
<1>4. RingThere'
  BY DEF IInv, Teardown, RingThere, wait_format, sessionVars, captureVars, encoderVars, EncoderStep, audio_encoder_startup
<1>5. NoLostWakeup'
  BY DEF IInv, Teardown, NoLostWakeup, wait_format, sessionVars, captureVars, encoderVars, EncoderStep, audio_encoder_startup
<1>6. epc' \notin {"copy", "exited"} => frame_data = << >>
  BY DEF IInv, Stream, wait_format, sessionVars, captureVars, encoderVars, EncoderStep, audio_encoder_startup
<1> QED BY <1>1, <1>2, <1>3, <1>4, <1>5, <1>6, QuietStep

\* A return of pthread_cond_wait without a signal.
LEMMA SpuriousStep == IInv /\ SpuriousWakeup => IInv'
<1> SUFFICES ASSUME IInv, SpuriousWakeup PROVE IInv'
  OBVIOUS
<1>1. Quiet
  BY DEF SpuriousWakeup, sessionVars, captureVars, encoderVars, EncoderStep, Quiet
<1>2. TypeOK'
  BY DEF IInv, TypeOK, SpuriousWakeup, sessionVars, captureVars, encoderVars, EncoderStep
<1>3. Teardown'
  BY DEF IInv, TypeOK, Teardown, SpuriousWakeup, sessionVars, captureVars, encoderVars, EncoderStep
<1>4. RingThere'
  BY DEF IInv, Teardown, RingThere, SpuriousWakeup, sessionVars, captureVars, encoderVars, EncoderStep
<1>5. NoLostWakeup'
  BY DEF IInv, Teardown, NoLostWakeup, SpuriousWakeup, sessionVars, captureVars, encoderVars, EncoderStep
<1>6. epc' \notin {"copy", "exited"} => frame_data = << >>
  BY DEF IInv, Stream, SpuriousWakeup, sessionVars, captureVars, encoderVars, EncoderStep
<1> QED BY <1>1, <1>2, <1>3, <1>4, <1>5, <1>6, QuietStep

\* The encoder cancelled.
LEMMA CancelStep == IInv /\ cancel_encoder => IInv'
<1> SUFFICES ASSUME IInv, cancel_encoder PROVE IInv'
  OBVIOUS
<1>1. Quiet
  BY DEF cancel_encoder, sessionVars, captureVars, encoderVars, EncoderStep, Cancelled, ThreadOrder, Quiet
<1>2. TypeOK'
  BY DEF IInv, TypeOK, cancel_encoder, sessionVars, captureVars, encoderVars, EncoderStep, Cancelled, ThreadOrder
<1>3. Teardown'
  BY DEF IInv, TypeOK, Teardown, cancel_encoder, sessionVars, captureVars, encoderVars, EncoderStep, Cancelled, ThreadOrder
<1>4. RingThere'
  BY DEF IInv, Teardown, RingThere, cancel_encoder, sessionVars, captureVars, encoderVars, EncoderStep, Cancelled, ThreadOrder
<1>5. NoLostWakeup'
  BY DEF IInv, Teardown, NoLostWakeup, cancel_encoder, sessionVars, captureVars, encoderVars, EncoderStep, Cancelled, ThreadOrder
<1>6. epc' \notin {"copy", "exited"} => frame_data = << >>
  BY DEF IInv, Stream, cancel_encoder, sessionVars, captureVars, encoderVars, EncoderStep, Cancelled, ThreadOrder
<1> QED BY <1>1, <1>2, <1>3, <1>4, <1>5, <1>6, QuietStep

\* session_teardown clearing is_active.
LEMMA DeactivateStep == IInv /\ deactivate => IInv'
<1> SUFFICES ASSUME IInv, deactivate PROVE IInv'
  OBVIOUS
<1>1. Quiet
  BY DEF deactivate, sessionVars, captureVars, encoderVars, Quiet
<1>2. TypeOK'
  BY DEF IInv, TypeOK, deactivate, sessionVars, captureVars, encoderVars
<1>3. Teardown'
  BY DEF IInv, TypeOK, Teardown, deactivate, sessionVars, captureVars, encoderVars
<1>4. RingThere'
  BY DEF IInv, Teardown, RingThere, deactivate, sessionVars, captureVars, encoderVars
<1>5. NoLostWakeup'
  BY DEF IInv, Teardown, NoLostWakeup, deactivate, sessionVars, captureVars, encoderVars
<1>6. epc' \notin {"copy", "exited"} => frame_data = << >>
  BY DEF IInv, Stream, deactivate, sessionVars, captureVars, encoderVars
<1> QED BY <1>1, <1>2, <1>3, <1>4, <1>5, <1>6, QuietStep

\* session_teardown waking the wait for the format.
LEMMA NotifyStep == IInv /\ notify_format => IInv'
<1> SUFFICES ASSUME IInv, notify_format PROVE IInv'
  OBVIOUS
<1>1. Quiet
  BY DEF notify_format, sessionVars, captureVars, encoderVars, WakeFormat, Quiet
<1>2. TypeOK'
  BY DEF IInv, TypeOK, notify_format, sessionVars, captureVars, encoderVars, WakeFormat
<1>3. Teardown'
  BY DEF IInv, TypeOK, Teardown, notify_format, sessionVars, captureVars, encoderVars, WakeFormat
<1>4. RingThere'
  BY DEF IInv, Teardown, RingThere, notify_format, sessionVars, captureVars, encoderVars, WakeFormat
<1>5. NoLostWakeup'
  BY DEF IInv, Teardown, NoLostWakeup, notify_format, sessionVars, captureVars, encoderVars, WakeFormat
<1>6. epc' \notin {"copy", "exited"} => frame_data = << >>
  BY DEF IInv, Stream, notify_format, sessionVars, captureVars, encoderVars, WakeFormat
<1> QED BY <1>1, <1>2, <1>3, <1>4, <1>5, <1>6, QuietStep

\* session_teardown joining a thread.
LEMMA JoinStep == IInv /\ join => IInv'
<1> SUFFICES ASSUME IInv, join PROVE IInv'
  OBVIOUS
<1>1. Quiet
  BY DEF join, sessionVars, captureVars, encoderVars, Exited, ThreadOrder, Quiet
<1>2. TypeOK'
  BY DEF IInv, TypeOK, join, sessionVars, captureVars, encoderVars, Exited, ThreadOrder
<1>3. Teardown'
  BY DEF IInv, TypeOK, Teardown, join, sessionVars, captureVars, encoderVars, Exited, ThreadOrder
<1>4. RingThere'
  BY DEF IInv, Teardown, RingThere, join, sessionVars, captureVars, encoderVars, Exited, ThreadOrder
<1>5. NoLostWakeup'
  BY DEF IInv, Teardown, NoLostWakeup, join, sessionVars, captureVars, encoderVars, Exited, ThreadOrder
<1>6. epc' \notin {"copy", "exited"} => frame_data = << >>
  BY DEF IInv, Stream, join, sessionVars, captureVars, encoderVars, Exited, ThreadOrder
<1> QED BY <1>1, <1>2, <1>3, <1>4, <1>5, <1>6, QuietStep

\* The three buffers of frames hold integers.
LEMMA IntSeqs ==
    IInv => encoded \in Seq(Int) /\ pending_frame \in Seq(Int) /\ frame_data \in Seq(Int)
<1> SUFFICES ASSUME TypeOK
             PROVE  encoded \in Seq(Int) /\ pending_frame \in Seq(Int) /\ frame_data \in Seq(Int)
  BY DEF IInv
<1> DEFINE F == 1 .. MaxFrames
<1>1. F \subseteq Int /\ encoded \in Seq(F) /\ pending_frame \in Seq(F) /\ frame_data \in Seq(F)
  BY DEF TypeOK
<1> HIDE DEF F
<1> QED BY <1>1, SeqMonotonic

\* The frames that have left the ring, while the ring only moves on.
LEMMA StreamKept ==
    ASSUME IInv, UNCHANGED <<frame_data, pending_frame, encoded>>,
           TakenUpTo \in Int, TakenUpTo' \in Int, TakenUpTo <= TakenUpTo',
           epc' \notin {"copy", "exited"} => frame_data = << >>
    PROVE  Stream'
<1> DEFINE all == encoded \o pending_frame \o frame_data
<1>1. all \in Seq(Int)
  <2>1. encoded \in Seq(Int) /\ pending_frame \in Seq(Int) /\ frame_data \in Seq(Int)
    BY IntSeqs
  <2> QED BY <2>1, ConcatProperties
<1>2. Increasing(all) /\ AtMost(all, TakenUpTo)
  BY DEF IInv, Stream
<1>3. AtMost(all, TakenUpTo')
  <2> DEFINE b == TakenUpTo
             c == TakenUpTo'
  <2> HIDE DEF all
  <2>1. b \in Int /\ c \in Int /\ b <= c /\ AtMost(all, b)
    BY <1>2
  <2> HIDE DEF b, c
  <2>2. AtMost(all, c)
    BY <1>1, <2>1, AtMostMore
  <2> QED BY <2>2 DEF c
<1>4. all' = all
  OBVIOUS
<1> HIDE DEF all
<1>5. Increasing(all)' /\ AtMost(all, TakenUpTo)'
  BY <1>2, <1>3, <1>4
<1> QED BY <1>5 DEF IInv, Stream, all

\* The ring never holds more frames than were written.
LEMMA TakenType == IInv => TakenUpTo \in 0 .. written /\ written \in Nat /\ written <= MaxFrames
<1> SUFFICES ASSUME IInv PROVE TakenUpTo \in 0 .. written /\ written \in Nat /\ written <= MaxFrames
  OBVIOUS
<1>1. written \in Nat /\ written <= MaxFrames
  BY AudioAssumption DEF IInv, TypeOK
<1>2. CASE ring = NoRing
  BY <1>1, <1>2 DEF TakenUpTo
<1>3. CASE ring # NoRing
  <2>1. RingOK(ring, written)
    BY <1>3 DEF IInv
  <2>2. ring.items_available \in 0 .. Capacity /\ ring.items_available <= written
    BY <2>1 DEF RingOK
  <2> QED BY <1>1, <1>3, <2>2, CapacityAssumption DEF TakenUpTo
<1> QED BY <1>1, <1>2, <1>3

\* on_stream_param_changed creating the ring, or finding it.
LEMMA ParamStep == IInv /\ on_stream_param_changed => IInv'
<1> SUFFICES ASSUME IInv, on_stream_param_changed PROVE IInv'
  OBVIOUS
<1> USE DEF on_stream_param_changed, sessionVars, encoderVars
<1>1. written \in Nat /\ written <= MaxFrames /\ TakenUpTo \in Int
  BY TakenType
<1>2. /\ RingOK(ring', written) /\ ring' # NoRing
      /\ ring' = NoRing \/ ring' \in
          [buffer : [Positions -> 0 .. MaxFrames], read_pos : Positions,
           write_pos : Positions, items_available : 0 .. Capacity, closed : BOOLEAN]
  <2>1. RingOK(ring_buffer_init, written)
    BY <1>1, InitOK
  <2>2. RingOK(ring', written)
    BY <2>1 DEF IInv
  <2> QED BY <1>1, <2>2, RingType
<1>3. TakenUpTo' = TakenUpTo
  <2>1. CASE ring = NoRing
    BY <1>1, <1>2, <2>1 DEF TakenUpTo, ring_buffer_init
  <2>2. CASE ring # NoRing
    BY <2>2 DEF TakenUpTo
  <2> QED BY <2>1, <2>2
<1>4. TypeOK'
  BY <1>2 DEF IInv, TypeOK
<1>5. Teardown' /\ RingThere' /\ NoLostWakeup'
  BY <1>2 DEF IInv, Teardown, RingThere, NoLostWakeup
<1>6. Stream'
  <2>1. epc' \notin {"copy", "exited"} => frame_data = << >>
    BY DEF IInv, Stream
  <2> QED BY <1>1, <1>3, <2>1, StreamKept
<1> QED BY <1>2, <1>4, <1>5, <1>6 DEF IInv

\* Closing the ring leaves its frames and wakes the reader.
LEMMA CloseRing ==
    ASSUME IInv, close_ring, written' = written
    PROVE  /\ ring' = NoRing <=> ring = NoRing
           /\ ring # NoRing => RingOK(ring', written) /\ epc' # "read_wait"
           /\ ring' = NoRing \/ ring' \in
                [buffer : [Positions -> 0 .. MaxFrames], read_pos : Positions,
                 write_pos : Positions, items_available : 0 .. Capacity, closed : BOOLEAN]
           /\ epc' = epc \/ (epc = "read_wait" /\ epc' = "read_woken")
           /\ TakenUpTo' = TakenUpTo
<1>1. written \in Nat /\ written <= MaxFrames
  BY TakenType
<1>2. CASE ring = NoRing
  BY <1>2 DEF close_ring, TakenUpTo
<1>3. CASE ring # NoRing
  <2>1. ring' = ring_buffer_close(ring) /\ Wake
    BY <1>3 DEF close_ring
  <2>2. RingOK(ring, written)
    BY <1>3 DEF IInv
  <2>3. RingOK(ring', written) /\ ring'.items_available = ring.items_available
    BY <1>1, <2>1, <2>2, CloseOK
  <2>4. /\ ring' # NoRing
        /\ ring' \in [buffer : [Positions -> 0 .. MaxFrames], read_pos : Positions,
                 write_pos : Positions, items_available : 0 .. Capacity, closed : BOOLEAN]
    BY <1>1, <2>3, RingType
  <2>5. TakenUpTo' = TakenUpTo
    BY <1>3, <2>3, <2>4 DEF TakenUpTo
  <2> QED BY <1>3, <2>1, <2>3, <2>4, <2>5 DEF Wake
<1> QED BY <1>2, <1>3

\* do_quit.
LEMMA QuitStep == IInv /\ do_quit => IInv'
<1> SUFFICES ASSUME IInv, do_quit PROVE IInv'
  OBVIOUS
<1> USE DEF do_quit, sessionVars, captureVars
<1>1. /\ ring' = NoRing <=> ring = NoRing
      /\ ring # NoRing => RingOK(ring', written) /\ epc' # "read_wait"
      /\ ring' = NoRing \/ ring' \in
           [buffer : [Positions -> 0 .. MaxFrames], read_pos : Positions,
            write_pos : Positions, items_available : 0 .. Capacity, closed : BOOLEAN]
      /\ epc' = epc \/ (epc = "read_wait" /\ epc' = "read_woken")
      /\ TakenUpTo' = TakenUpTo
  BY CloseRing
<1>2. TypeOK'
  BY <1>1 DEF IInv, TypeOK
<1>3. Teardown'
  BY <1>1 DEF IInv, TypeOK, Teardown
<1>4. RingThere'
  BY <1>1 DEF IInv, Teardown, RingThere
<1>5. NoLostWakeup'
  BY <1>1 DEF IInv, Teardown, RingThere, NoLostWakeup
<1>6. Stream'
  <2>1. epc' \notin {"copy", "exited"} => frame_data = << >>
    BY <1>1 DEF IInv, Stream
  <2>2. TakenUpTo \in Int
    BY TakenType
  <2> QED BY <1>1, <2>1, <2>2, StreamKept
<1> QED BY <1>1, <1>2, <1>3, <1>4, <1>5, <1>6 DEF IInv

\* capture_pw_destroy.
LEMMA DestroyCaptureStep == IInv /\ capture_pw_destroy => IInv'
<1> SUFFICES ASSUME IInv, capture_pw_destroy PROVE IInv'
  OBVIOUS
<1> USE DEF capture_pw_destroy, sessionVars, captureVars
<1>1. /\ ring' = NoRing <=> ring = NoRing
      /\ ring # NoRing => RingOK(ring', written) /\ epc' # "read_wait"
      /\ ring' = NoRing \/ ring' \in
           [buffer : [Positions -> 0 .. MaxFrames], read_pos : Positions,
            write_pos : Positions, items_available : 0 .. Capacity, closed : BOOLEAN]
      /\ epc' = epc \/ (epc = "read_wait" /\ epc' = "read_woken")
      /\ TakenUpTo' = TakenUpTo
  BY CloseRing
<1>2. TypeOK'
  BY <1>1 DEF IInv, TypeOK
<1>3. Teardown'
  BY <1>1 DEF IInv, TypeOK, Teardown, Cancelled, ThreadOrder
<1>4. RingThere'
  BY <1>1 DEF IInv, Teardown, RingThere
<1>5. NoLostWakeup'
  BY <1>1 DEF IInv, Teardown, RingThere, NoLostWakeup
<1>6. Stream'
  <2>1. epc' \notin {"copy", "exited"} => frame_data = << >>
    BY <1>1 DEF IInv, Stream
  <2>2. TakenUpTo \in Int
    BY TakenType
  <2> QED BY <1>1, <2>1, <2>2, StreamKept
<1> QED BY <1>1, <1>2, <1>3, <1>4, <1>5, <1>6 DEF IInv

\* session_teardown closing the ring.
LEMMA CloseStep == IInv /\ close_audio => IInv'
<1> SUFFICES ASSUME IInv, close_audio PROVE IInv'
  OBVIOUS
<1> USE DEF close_audio, sessionVars, captureVars
<1>1. /\ ring' = NoRing <=> ring = NoRing
      /\ ring # NoRing => RingOK(ring', written) /\ epc' # "read_wait"
      /\ ring' = NoRing \/ ring' \in
           [buffer : [Positions -> 0 .. MaxFrames], read_pos : Positions,
            write_pos : Positions, items_available : 0 .. Capacity, closed : BOOLEAN]
      /\ epc' = epc \/ (epc = "read_wait" /\ epc' = "read_woken")
      /\ TakenUpTo' = TakenUpTo
  BY CloseRing
<1>2. TypeOK'
  BY <1>1 DEF IInv, TypeOK
<1>3. Teardown'
  BY <1>1 DEF IInv, TypeOK, Teardown
<1>4. RingThere'
  BY <1>1 DEF IInv, Teardown, RingThere
<1>5. NoLostWakeup'
  BY <1>1 DEF IInv, Teardown, RingThere, NoLostWakeup
<1>6. Stream'
  <2>1. epc' \notin {"copy", "exited"} => frame_data = << >>
    BY <1>1 DEF IInv, Stream
  <2>2. TakenUpTo \in Int
    BY TakenType
  <2> QED BY <1>1, <2>1, <2>2, StreamKept
<1> QED BY <1>1, <1>2, <1>3, <1>4, <1>5, <1>6 DEF IInv

\* on_process with n frames.
LEMMA ProcessStep == ASSUME NEW n \in 1 .. MaxChunk PROVE IInv /\ on_process(n) => IInv'
<1> SUFFICES ASSUME IInv, on_process(n) PROVE IInv'
  OBVIOUS
<1> DEFINE data == [k \in 1 .. n |-> written + k]
           took == IF ring.closed THEN 0 ELSE ItemsToWrite(data)
<1>0. n \in Nat \ {0}
  BY AudioAssumption
<1>1. /\ written \in Nat /\ written <= MaxFrames /\ TakenUpTo \in Int /\ MaxFrames \in Nat
      /\ delivered \in Nat /\ dropped_frames \in Nat
      /\ dropped_frames <= delivered /\ written <= delivered /\ delivered + n <= MaxFrames
  <2>1. TakenUpTo \in Int /\ MaxFrames \in Nat
    BY TakenType, AudioAssumption
  <2>2. /\ written \in 0 .. MaxFrames /\ delivered \in Nat /\ dropped_frames \in Nat
        /\ dropped_frames <= delivered /\ written <= delivered
    BY DEF IInv, TypeOK
  <2>3. delivered + n <= MaxFrames
    BY DEF on_process
  <2> QED BY <2>1, <2>2, <2>3
<1>2. ring # NoRing /\ RingOK(ring, written)
  BY DEF on_process, IInv
<1>3. /\ delivered' = delivered + n
      /\ UNCHANGED <<is_active, tpc, nth, client_connected, format_ready, cpc, running,
                     frame_data, pending_frame, encoded, deadlocked>>
      /\ dropped_frames' = IF took < n /\ running THEN dropped_frames + n - took
                                                  ELSE dropped_frames
      /\ \/ ring' = ring /\ written' = written /\ epc' = epc
         \/ /\ ring' = ring_buffer_write(ring, data)
            /\ written' = written + n /\ Wake
  BY DEF on_process, sessionVars
<1>4. took \in Nat
  <2>1. Len(data) = n
    BY <1>0, <1>1, IsASeq
  <2> QED BY <1>0, <2>1, CapacityAssumption DEF ItemsToWrite, Least
<1> HIDE DEF took
<1>5. dropped_frames' \in 0 .. MaxFrames /\ delivered' \in 0 .. MaxFrames
      /\ dropped_frames' <= delivered'
  BY <1>0, <1>1, <1>3, <1>4
<1>6. /\ written' \in 0 .. MaxFrames /\ written' <= delivered'
      /\ RingOK(ring', written') /\ TakenUpTo' \in Int /\ TakenUpTo <= TakenUpTo'
      /\ ring' # NoRing
      /\ epc' = epc \/ (epc = "read_wait" /\ epc' = "read_woken")
      /\ epc' = "read_wait" => ring' = ring
  <2>1. CASE ring' = ring /\ written' = written /\ epc' = epc
    BY <1>0, <1>1, <1>2, <1>3, <2>1 DEF TakenUpTo
  <2>2. CASE ring' = ring_buffer_write(ring, data) /\ written' = written + n /\ Wake
    <3>1. /\ RingOK(ring', written + n)
          /\ ring'.items_available \in 1 .. ring.items_available + n
      BY <1>0, <1>1, <1>2, <2>2, WriteOK
    <3>2. ring.items_available \in Nat
      BY <1>2, CapacityAssumption DEF RingOK
    <3>3. ring' # NoRing
      BY <1>0, <1>1, <3>1, RingType
    <3>4. written' \in 0 .. MaxFrames /\ written' <= delivered' /\ RingOK(ring', written')
      BY <1>0, <1>1, <1>3, <2>2, <3>1
    <3>5. TakenUpTo = written - ring.items_available
          /\ TakenUpTo' = written + n - ring'.items_available
      BY <1>0, <1>1, <1>2, <2>2, <3>1, <3>3 DEF TakenUpTo
    <3>6. TakenUpTo' \in Int /\ TakenUpTo <= TakenUpTo'
      BY <1>0, <1>1, <3>1, <3>2, <3>5
    <3> QED BY <2>2, <3>3, <3>4, <3>6 DEF Wake
  <2> QED BY <1>3, <2>1, <2>2
<1>7. ring' \in [buffer : [Positions -> 0 .. MaxFrames], read_pos : Positions,
                 write_pos : Positions, items_available : 0 .. Capacity, closed : BOOLEAN]
  <2>1. written' \in Nat /\ written' <= MaxFrames
    BY <1>1, <1>6
  <2> QED BY <1>6, <2>1, RingType
<1>8. TypeOK'
  <2>1. epc' \in {"format", "format_wait", "format_woken", "read", "read_wait",
                  "read_woken", "copy", "exited"}
    BY <1>6 DEF IInv, TypeOK
  <2> QED BY <1>3, <1>5, <1>6, <1>7, <2>1 DEF IInv, TypeOK
<1>9. Teardown'
  BY <1>3, <1>6 DEF IInv, Teardown
<1>10. RingThere'
  BY <1>3, <1>6 DEF IInv, RingThere
<1>11. NoLostWakeup'
  BY <1>3, <1>6 DEF IInv, NoLostWakeup
<1>12. Stream'
  <2>1. epc' \notin {"copy", "exited"} => frame_data = << >>
    BY <1>6 DEF IInv, Stream
  <2> QED BY <1>1, <1>3, <1>6, <2>1, StreamKept
<1> QED BY <1>5, <1>6, <1>8, <1>9, <1>10, <1>11, <1>12 DEF IInv

\* session_teardown destroying the ring.
LEMMA DestroyStep == IInv /\ destroy => IInv'
<1> SUFFICES ASSUME IInv, destroy PROVE IInv'
  OBVIOUS
<1> USE DEF destroy, captureVars, encoderVars
<1>1. TypeOK' /\ Teardown' /\ RingThere' /\ NoLostWakeup'
  BY DEF IInv, TypeOK, Teardown, RingThere, NoLostWakeup
<1>2. TakenUpTo \in Int /\ TakenUpTo' = written /\ TakenUpTo <= written /\ written \in Int
  BY TakenType DEF TakenUpTo
<1>3. Stream'
  <2>1. epc' \notin {"copy", "exited"} => frame_data = << >>
    BY DEF IInv, Stream
  <2> QED BY <1>2, <2>1, StreamKept
<1> QED BY <1>1, <1>3 DEF IInv

\* ring_buffer_wait_read: sleep, or take everything unread.
LEMMA ReadStep == IInv /\ wait_read => IInv'
<1> SUFFICES ASSUME IInv, wait_read PROVE IInv'
  OBVIOUS
<1> USE DEF EncoderStep, sessionVars, captureVars
<1>1. /\ epc \in {"read", "read_woken"} /\ ring # NoRing /\ RingOK(ring, written)
      /\ frame_data = << >> /\ written \in Nat /\ written <= MaxFrames /\ MaxFrames \in Nat
      /\ TakenUpTo = written - ring.items_available
  BY TakenType, AudioAssumption DEF wait_read, IInv, RingThere, Stream, TakenUpTo
<1>2. CASE ~Readable(ring) /\ epc' = "read_wait" /\ UNCHANGED <<ring, frame_data>>
  <2>1. Quiet /\ (epc' \notin {"copy", "exited"} => frame_data = << >>)
    BY <1>1, <1>2 DEF wait_read, Quiet
  <2>2. TypeOK'
    BY <1>2 DEF IInv, TypeOK, wait_read
  <2>3. Teardown' /\ RingThere' /\ NoLostWakeup'
    BY <1>1, <1>2 DEF IInv, Teardown, RingThere, NoLostWakeup, wait_read
  <2> QED BY <2>1, <2>2, <2>3, QuietStep
<1>3. CASE /\ frame_data' = ItemsRead(ring, Capacity) /\ ring' = AfterRead(ring, Capacity)
           /\ epc' = IF frame_data' = << >> THEN "exited" ELSE "copy"
  <2> DEFINE a == ring.items_available
             all == encoded \o pending_frame
             b == TakenUpTo
  <2>1. /\ frame_data' = [k \in 1 .. a |-> written - a + k]
        /\ RingOK(ring', written) /\ ring'.items_available = 0
    BY <1>1, <1>3, ReadOK
  <2>2. /\ UNCHANGED <<is_active, tpc, nth, client_connected, format_ready, cpc, running,
                       dropped_frames, delivered, written, pending_frame, encoded, deadlocked>>
        /\ epc' \in {"exited", "copy"}
    BY <1>3 DEF wait_read
  <2>3. a \in Nat /\ a <= written
    BY <1>1, CapacityAssumption DEF RingOK
  <2>4. ring' # NoRing /\ ring' \in
            [buffer : [Positions -> 0 .. MaxFrames], read_pos : Positions,
             write_pos : Positions, items_available : 0 .. Capacity, closed : BOOLEAN]
    BY <1>1, <2>1, RingType
  <2>5. /\ frame_data' \in Seq(1 .. MaxFrames) /\ Len(frame_data') = a
        /\ \A k \in 1 .. a : frame_data'[k] = written - a + k
    <3> HIDE DEF a
    <3>1. \A k \in 1 .. a : written - a + k \in 1 .. MaxFrames
      BY <1>1, <2>3
    <3> QED BY <2>1, <2>3, <3>1, IsASeq
  <2>6. TypeOK'
    BY <2>2, <2>4, <2>5 DEF IInv, TypeOK
  <2>7. Teardown'
    BY <1>1, <2>2 DEF IInv, Teardown
  <2>8. RingThere' /\ NoLostWakeup'
    BY <2>2, <2>4 DEF IInv, RingThere, NoLostWakeup
  <2>9. TakenUpTo' = written
    BY <1>1, <2>1, <2>2, <2>4 DEF TakenUpTo
  <2>10. all \in Seq(Int) /\ Increasing(all) /\ AtMost(all, b) /\ b \in Int /\ b <= written
    <3>1. encoded \in Seq(Int) /\ pending_frame \in Seq(Int)
      BY IntSeqs
    <3>2. all \in Seq(Int)
      BY <3>1, ConcatProperties
    <3>3. all \o frame_data = all
      BY <1>1, <3>2, ConcatEmptySeq
    <3> QED BY <1>1, <2>3, <3>2, <3>3 DEF IInv, Stream
  <2>11. /\ frame_data' \in Seq(Int) /\ Increasing(frame_data')
         /\ AtMost(frame_data', written) /\ \A k \in 1 .. Len(frame_data') : frame_data'[k] > b
    <3> HIDE DEF a, b
    <3>1. 1 .. MaxFrames \subseteq Int
      OBVIOUS
    <3>2. frame_data' \in Seq(Int)
      BY <2>5, <3>1, SeqMonotonic
    <3>3. b = written - a
      BY <1>1 DEF a, b
    <3> QED BY <1>1, <2>3, <2>5, <3>2, <3>3 DEF Increasing, AtMost
  <2>12. Increasing(all \o frame_data') /\ AtMost(all \o frame_data', written)
    <3> DEFINE f == frame_data'
    <3> HIDE DEF all, b
    <3>1. /\ f \in Seq(Int) /\ Increasing(f) /\ AtMost(f, written)
          /\ \A k \in 1 .. Len(f) : f[k] > b
      BY <2>11
    <3> HIDE DEF f
    <3>2. Increasing(all \o f)
      BY <2>10, <3>1, ConcatIncreasing
    <3>3. AtMost(all, written)
      BY <1>1, <2>10, AtMostMore
    <3>4. AtMost(all \o f, written)
      BY <1>1, <2>10, <3>1, <3>3, ConcatAtMost
    <3> QED BY <3>2, <3>4 DEF f
  <2>13. Stream'
    BY <2>2, <2>9, <2>12 DEF IInv, Stream
  <2> QED BY <2>1, <2>2, <2>4, <2>6, <2>7, <2>8, <2>13 DEF IInv
<1> QED BY <1>2, <1>3 DEF wait_read

\* One turn of the loop that fills Opus frames.
LEMMA CopyStep == IInv /\ copy_frames => IInv'
<1> SUFFICES ASSUME IInv, copy_frames PROVE IInv'
  OBVIOUS
<1> DEFINE n == Least(Len(frame_data), FrameSize - Len(pending_frame))
           first == SubSeq(frame_data, 1, n)
           rest == SubSeq(frame_data, n + 1, Len(frame_data))
           filled == pending_frame \o first
           F == 1 .. MaxFrames
<1>1. /\ epc = "copy"
      /\ \/ /\ Len(filled) # FrameSize /\ pending_frame' = filled /\ encoded' = encoded
         \/ /\ Len(filled) = FrameSize /\ pending_frame' = << >>
            /\ encoded' = encoded \/ encoded' = encoded \o filled
      /\ frame_data' = rest
      /\ epc' = IF rest = << >> THEN "read" ELSE "copy"
      /\ UNCHANGED <<is_active, tpc, nth, client_connected, format_ready, cpc, running, ring,
                     dropped_frames, delivered, written, deadlocked>>
  BY DEF copy_frames, encode_audio_frame, EncoderStep, sessionVars, captureVars
<1>2. /\ frame_data \in Seq(F) /\ pending_frame \in Seq(F) /\ encoded \in Seq(F)
      /\ F \subseteq Int /\ Len(pending_frame) < FrameSize /\ Len(encoded) % FrameSize = 0
      /\ Len(frame_data) \in Nat /\ Len(pending_frame) \in Nat /\ Len(encoded) \in Nat
      /\ FrameSize \in Nat
  BY LenProperties, AudioAssumption DEF IInv, TypeOK, Stream
<1>3. n \in 0 .. Len(frame_data) /\ n <= FrameSize - Len(pending_frame)
  BY <1>2 DEF Least
<1> HIDE DEF n, F
<1>4. first \in Seq(F) /\ Len(first) = n /\ rest \in Seq(F) /\ first \o rest = frame_data
  <2> DEFINE f == frame_data
             l == Len(frame_data)
  <2>0. f \in Seq(F) /\ l = Len(f)
    BY <1>2
  <2>1. first \in Seq(F) /\ Len(first) = n - 1 + 1
    BY <1>2, <1>3, SubSeqElements
  <2>2. rest \in Seq(F)
    BY <1>2, <1>3, SubSeqElements
  <2>3. first \o rest = f
    <3>1. 1 \in 1 .. Len(f) + 1 /\ n \in 1 - 1 .. Len(f) /\ Len(f) \in n .. Len(f)
      BY <1>2, <1>3
    <3>2. SubSeq(f, 1, n) \o SubSeq(f, n + 1, Len(f)) = SubSeq(f, 1, Len(f))
      <4> HIDE DEF f
      <4> QED BY <2>0, <3>1, ConcatAdjacentSubSeq
    <3>3. SubSeq(f, 1, Len(f)) = f
      BY <1>2, SubSeqFull
    <3> QED BY <3>2, <3>3
  <2>4. n - 1 + 1 = n
    BY <1>2, <1>3
  <2> HIDE DEF first, rest
  <2> QED BY <2>1, <2>2, <2>3, <2>4
<1> HIDE DEF first, rest
<1>5. filled \in Seq(F) /\ Len(filled) = Len(pending_frame) + n
  BY <1>2, <1>4, ConcatProperties
<1> HIDE DEF filled
<1>6. << >> \in Seq(F) /\ Len(<< >>) = 0
  BY EmptySeq
<1>7. /\ pending_frame' \in Seq(F) /\ encoded' \in Seq(F) /\ frame_data' \in Seq(F)
      /\ Len(pending_frame') < FrameSize
  <2>1. encoded \o filled \in Seq(F)
    BY <1>2, <1>5, ConcatProperties
  <2>2. Len(filled) # FrameSize => Len(filled) < FrameSize
    <3> DEFINE x == Len(pending_frame)
               y == Len(filled)
    <3>1. x \in Nat /\ y = x + n /\ n \in Nat /\ n <= FrameSize - x /\ FrameSize \in Nat
      BY <1>2, <1>3, <1>5
    <3> HIDE DEF x, y
    <3>2. y # FrameSize => y < FrameSize
      BY <3>1
    <3> QED BY <3>2 DEF y
  <2>3. 0 < FrameSize
    BY AudioAssumption
  <2> QED BY <1>1, <1>2, <1>4, <1>5, <1>6, <2>1, <2>2, <2>3
<1>8. TypeOK'
  BY <1>1, <1>7 DEF IInv, TypeOK, F
<1>9. Teardown' /\ RingThere' /\ NoLostWakeup'
  BY <1>1 DEF IInv, Teardown, RingThere, NoLostWakeup
<1>10. epc' \notin {"copy", "exited"} => frame_data' = << >>
  BY <1>1
<1>11. Len(encoded') % FrameSize = 0
  <2>1. Len(encoded \o filled) = Len(encoded) + Len(filled)
    BY <1>2, <1>5, ConcatProperties
  <2>2. (Len(encoded) + FrameSize) % FrameSize = 0
    BY <1>2, WholeFrames
  <2> QED BY <1>1, <1>2, <2>1, <2>2
<1> DEFINE all == (encoded \o pending_frame) \o frame_data
<1>12. all = (encoded \o filled) \o rest
  <2>1. all = (encoded \o pending_frame) \o (first \o rest)
    BY <1>4
  <2>2. (encoded \o pending_frame) \o (first \o rest) =
            ((encoded \o pending_frame) \o first) \o rest
    <3>1. encoded \o pending_frame \in Seq(F)
      BY <1>2, ConcatProperties
    <3> DEFINE e == encoded \o pending_frame
    <3> HIDE DEF e
    <3>2. e \in Seq(F) /\ first \in Seq(F) /\ rest \in Seq(F)
      BY <1>4, <3>1 DEF e
    <3>3. (e \o first) \o rest = e \o (first \o rest)
      BY <3>2, ConcatAssociative
    <3> QED BY <3>3 DEF e
  <2>3. (encoded \o pending_frame) \o first = encoded \o (pending_frame \o first)
    <3>1. encoded \in Seq(F) /\ pending_frame \in Seq(F) /\ first \in Seq(F)
      BY <1>2, <1>4
    <3> QED BY <3>1, ConcatAssociative
  <2> QED BY <2>1, <2>2, <2>3 DEF filled
<1> DEFINE b == TakenUpTo
<1>13. Increasing(all) /\ AtMost(all, b) /\ b \in Int /\ TakenUpTo' = b
  BY <1>1, TakenType DEF IInv, Stream, TakenUpTo
<1> HIDE DEF b, all
<1>14. Increasing((encoded' \o pending_frame') \o frame_data')
       /\ AtMost((encoded' \o pending_frame') \o frame_data', b)
  <2>1. CASE pending_frame' = filled /\ encoded' = encoded
    BY <1>1, <1>12, <1>13, <2>1
  <2>2. CASE pending_frame' = << >> /\ encoded' = encoded \o filled
    <3>1. encoded \o filled \in Seq(F)
      BY <1>2, <1>5, ConcatProperties
    <3>2. (encoded \o filled) \o << >> = encoded \o filled
      BY <3>1, ConcatEmptySeq
    <3> QED BY <1>1, <1>12, <1>13, <2>2, <3>2
  <2>3. CASE pending_frame' = << >> /\ encoded' = encoded
    <3>1. encoded \o << >> = encoded
      BY <1>2, ConcatEmptySeq
    <3>2. encoded \in Seq(Int) /\ filled \in Seq(Int) /\ rest \in Seq(Int)
      BY <1>2, <1>4, <1>5, SeqMonotonic
    <3>3. Increasing(encoded \o rest) /\ AtMost(encoded \o rest, b)
      BY <1>12, <1>13, <3>2, DropMiddle
    <3> QED BY <1>1, <2>3, <3>1, <3>3
  <2> QED BY <1>1, <2>1, <2>2, <2>3
<1>15. Stream'
  BY <1>7, <1>10, <1>11, <1>13, <1>14 DEF Stream
<1> QED BY <1>1, <1>8, <1>9, <1>15 DEF IInv

\* Every step keeps the invariant.
LEMMA NextIInv == IInv /\ [Next]_vars => IInv'
<1> SUFFICES ASSUME IInv, [Next]_vars PROVE IInv'
  OBVIOUS
<1>1. CASE UNCHANGED vars
  <2>1. Quiet
    BY <1>1 DEF vars, captureVars, encoderVars, Quiet
  <2>2. TypeOK'
    BY <1>1 DEF IInv, TypeOK, vars, sessionVars, captureVars, encoderVars
  <2>3. Teardown' /\ RingThere' /\ NoLostWakeup'
    BY <1>1 DEF IInv, Teardown, RingThere, NoLostWakeup, vars, sessionVars, captureVars, encoderVars
  <2>4. epc' \notin {"copy", "exited"} => frame_data = << >>
    BY <1>1 DEF IInv, Stream, vars, encoderVars
  <2> QED BY <2>1, <2>2, <2>3, <2>4, QuietStep
<1>2. CASE ClientConnects
  BY <1>2, ConnectsStep
<1>3. CASE Capture
  BY <1>3, MainStep, ParamStep, PublishStep, ProcessStep, QuitStep, DestroyCaptureStep
     DEF Capture
<1>4. CASE Encoder
  BY <1>4, FormatStep, ReadStep, CopyStep, CancelStep DEF Encoder
<1>5. CASE SpuriousWakeup
  BY <1>5, SpuriousStep
<1>6. CASE Session
  BY <1>6, DeactivateStep, NotifyStep, CloseStep, JoinStep, DestroyStep DEF Session
<1> QED BY <1>1, <1>2, <1>3, <1>4, <1>5, <1>6 DEF Next

\* The audio path keeps the invariant: ring, threads, wake-ups and stream.
THEOREM Invariant == Spec => []IInv
BY InitIInv, NextIInv, PTL DEF Spec

-----------------------------------------------------------------------------
(* What follows *)

\* The invariant gives what a reader of the whole ring would get.
LEMMA KeepsNewest == IInv => RingKeepsNewest
<1> SUFFICES ASSUME IInv, ring # NoRing
             PROVE  Unread(ring) = [k \in 1 .. ring.items_available |->
                                       written - ring.items_available + k]
  BY DEF IInv, RingKeepsNewest
<1> QED BY ReadOK, TakenType DEF IInv, Unread

\* The newest frames are always retained: what is unread in the ring is an
\* unbroken run that ends with the newest frame ring_buffer_write took.
THEOREM NewestRetained == Spec => []RingKeepsNewest
BY Invariant, KeepsNewest, PTL

\* The invariant gives the order of everything from the packets to the ring.
LEMMA InOrder == IInv => StreamInOrder
<1> SUFFICES ASSUME IInv PROVE StreamInOrder
  OBVIOUS
<1> DEFINE all == (encoded \o pending_frame) \o frame_data
           u == IF ring = NoRing THEN << >> ELSE Unread(ring)
           b == TakenUpTo
<1>1. all \in Seq(Int) /\ Increasing(all) /\ AtMost(all, b) /\ b \in Int
  <2>1. encoded \in Seq(Int) /\ pending_frame \in Seq(Int) /\ frame_data \in Seq(Int)
    BY IntSeqs
  <2>2. all \in Seq(Int)
    BY <2>1, ConcatProperties
  <2> QED BY <2>2, TakenType DEF IInv, Stream
<1>2. u \in Seq(Int) /\ Increasing(u) /\ \A k \in 1 .. Len(u) : u[k] > b
  <2>1. CASE ring = NoRing
    <3>1. u = << >> /\ Len(u) = 0 /\ u \in Seq(Int)
      BY <2>1, EmptySeq
    <3> QED BY <3>1 DEF Increasing
  <2>2. CASE ring # NoRing
    <3> DEFINE a == ring.items_available
    <3>1. /\ u = [k \in 1 .. a |-> written - a + k] /\ b = written - a
          /\ a \in Nat /\ written \in Nat
      <4>1. a \in Nat /\ written \in Nat
        <5>1. RingOK(ring, written)
          BY <2>2 DEF IInv
        <5>2. a \in Nat
          BY <5>1, CapacityAssumption DEF RingOK
        <5> QED BY <5>2, TakenType
      <4>2. TakenUpTo = written - a /\ u = [k \in 1 .. a |-> written - a + k]
        BY <2>2, KeepsNewest DEF RingKeepsNewest, TakenUpTo
      <4> QED BY <4>1, <4>2
    <3> HIDE DEF a, b, u
    <3>2. \A k \in 1 .. a : written - a + k \in Int
      BY <3>1
    <3>3. u \in Seq(Int) /\ Len(u) = a
      BY <3>1, <3>2, IsASeq
    <3> QED BY <3>1, <3>3 DEF Increasing
  <2> QED BY <2>1, <2>2
<1> HIDE DEF all, u, b
<1>3. Increasing(all \o u)
  BY <1>1, <1>2, ConcatIncreasing
<1>4. Len(encoded) % FrameSize = 0 /\ Len(pending_frame) < FrameSize
  BY DEF IInv, Stream
<1> QED BY <1>3, <1>4 DEF StreamInOrder, Increasing, all, u

\* Frames neither swap places nor double between the ring and Transport, and
\* Transport gets whole Opus frames (encode_audio_frame and its caller).
THEOREM FramesInOrder == Spec => []StreamInOrder
BY Invariant, InOrder, PTL

\* The encoder never sleeps on something that has already happened: a frame,
\* a close, the format or the end of the session.
THEOREM WakeupsArrive == Spec => []NoLostWakeup
<1>1. IInv => NoLostWakeup
  BY DEF IInv
<1> QED BY <1>1, Invariant, PTL
=============================================================================
