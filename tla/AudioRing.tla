----------------------------- MODULE AudioRing -----------------------------
(***************************************************************************)
(* The ring of stratusd/Common/src/ringBuffer.c, which carries audio       *)
(* frames from CapturePw to AudioEncode.  A writer never waits: it         *)
(* overwrites the oldest unread frames.                                    *)
(*                                                                         *)
(* Every function runs under ring->lock, so each is an operator from a     *)
(* ring (a record with the fields of struct ring_buffer) to the ring it    *)
(* leaves.  An item is a natural number.                                   *)
(***************************************************************************)
EXTENDS Integers, Sequences

CONSTANT Capacity   \* ring->capacity, in frames

ASSUME CapacityAssumption == Capacity \in Nat \ {0}

Positions == 0 .. Capacity - 1
Least(a, b) == IF a < b THEN a ELSE b

\* memcpy of a block of items into and out of the buffer.
CopyIn(buffer, pos, src) ==
    [p \in Positions |-> IF p \in pos .. pos + Len(src) - 1
                         THEN src[p - pos + 1] ELSE buffer[p]]
CopyOut(buffer, pos, items) == [k \in 1 .. items |-> buffer[pos + k - 1]]

ring_buffer_init ==
    [buffer |-> [p \in Positions |-> 0], read_pos |-> 0, write_pos |-> 0,
     items_available |-> 0, closed |-> FALSE]

items_free(ring) == Capacity - ring.items_available

drop_oldest(ring, items) ==
    LET n == Least(items, ring.items_available)
    IN  [ring EXCEPT !.read_pos = (@ + n) % Capacity, !.items_available = @ - n]

\* How many of the input's items are stored.
ItemsToWrite(data) == Least(Len(data), Capacity)

\* Mutant: an input larger than the ring keeps its first items.
ring_buffer_write_prefix(ring, data) ==
    LET items == ItemsToWrite(data)
        src   == SubSeq(data, 1, items)
        room  == IF items > items_free(ring)
                 THEN drop_oldest(ring, items - items_free(ring)) ELSE ring
        first == Least(Capacity - room.write_pos, items)
        buf   == CopyIn(room.buffer, room.write_pos, SubSeq(src, 1, first))
    IN  [room EXCEPT
           !.buffer = CopyIn(buf, 0, SubSeq(src, first + 1, items)),
           !.write_pos = (@ + items) % Capacity,
           !.items_available = @ + items]

\* ring_buffer_write on an open ring: skip what does not fit, drop what must
\* make room, copy in at most two chunks.
ring_buffer_write(ring, data) ==
    LET items == ItemsToWrite(data)
        src   == SubSeq(data, Len(data) - items + 1, Len(data))
        room  == IF items > items_free(ring)
                 THEN drop_oldest(ring, items - items_free(ring)) ELSE ring
        first == Least(Capacity - room.write_pos, items)
        buf   == CopyIn(room.buffer, room.write_pos, SubSeq(src, 1, first))
    IN  [room EXCEPT
           !.buffer = CopyIn(buf, 0, SubSeq(src, first + 1, items)),
           !.write_pos = (@ + items) % Capacity,
           !.items_available = @ + items]

ItemsToRead(ring, items) == Least(items, ring.items_available)

\* The items ring_buffer_read_locked hands out, in at most two chunks ...
ItemsRead(ring, items) ==
    LET n     == ItemsToRead(ring, items)
        first == Least(Capacity - ring.read_pos, n)
    IN  CopyOut(ring.buffer, ring.read_pos, first)
            \o CopyOut(ring.buffer, 0, n - first)

\* ... and the ring it leaves.
AfterRead(ring, items) ==
    LET n == ItemsToRead(ring, items)
    IN  [ring EXCEPT !.read_pos = (@ + n) % Capacity, !.items_available = @ - n]

ring_buffer_close(ring) == [ring EXCEPT !.closed = TRUE]

\* The test of ring_buffer_wait_read: it sleeps while this is false.
Readable(ring) == ring.items_available > 0 \/ ring.closed

\* What a reader of the whole ring would get.
Unread(ring) == ItemsRead(ring, Capacity)
=============================================================================
