--------------------------- MODULE WlConnection ---------------------------
(***************************************************************************)
(* The connections of the patched libwayland (libs/wayland/src/            *)
(* connection.c): ring buffers for bytes and for descriptors, sendmsg and  *)
(* recvmsg on a stream socket that may be full, and closures, the messages *)
(* taken apart into arguments and put together again.                      *)
(*                                                                         *)
(* Every operator maps one value of a record x to the next.  x has         *)
(*   conn[s]   the struct wl_connection of side s                          *)
(*   inb[s]    the bytes its peer has sent and it has not received, out[s] *)
(*             those it has sent: elements [u, files], a byte and the      *)
(*             files that travel with it                                   *)
(*   room      the bytes a socket holds                                    *)
(*   closed[s] whether the peer has closed, reset[s] with bytes unread     *)
(*   tab       the descriptor table: number -> file, or 0                  *)
(*   err       how the last call failed, ""                                *)
(*                                                                         *)
(* A byte is a number, a word WORD bytes; the code has WORD = 4.  Both      *)
(* rings are unbounded (max_buffer_size 0), as the proxy makes them.       *)
(***************************************************************************)
EXTENDS Integers, FiniteSets, SequencesExt

CONSTANTS
    WORD,                        \* sizeof(uint32_t)
    WL_BUFFER_DEFAULT_SIZE_POT,  \* log2 of the least size of a byte ring
    FDS_POT,                     \* the same for a ring of descriptors
    MAX_FDS_OUT,                 \* descriptors in one sendmsg: 28
    MAX_FD                       \* the largest descriptor number

Sides == {"client", "server"}

-----------------------------------------------------------------------------
(* struct wl_ring_buffer.                                                  *)

NewRing(pot) ==
    [pot |-> pot, bits |-> pot, data |-> [i \in 0..(2^pot - 1) |-> 0],
     head |-> 0, tail |-> 0]

ring_buffer_size(b) == b.head - b.tail
ring_buffer_capacity(b) == 2^b.bits
ring_buffer_mask(b, i) == i % ring_buffer_capacity(b)

ring_buffer_put(b, s) ==
    [b EXCEPT
        !.data = [i \in DOMAIN @ |->
                    LET k == 1 + ((i - b.head) % ring_buffer_capacity(b))
                    IN  IF k <= Len(s) THEN s[k] ELSE @[i]],
        !.head = @ + Len(s)]

ring_buffer_copy(b, n) == [k \in 1..n |-> b.data[ring_buffer_mask(b, b.tail + k - 1)]]

\* What the two iovecs of ring_buffer_put_iov and ring_buffer_get_iov span.
ring_buffer_put_iov(b) == ring_buffer_capacity(b) - ring_buffer_size(b)
ring_buffer_get_iov(b) == ring_buffer_size(b)

ring_buffer_get_bits_for_size(b, n) ==
    CHOOSE k \in b.pot..30 : 2^k >= n /\ (k > b.pot => 2^(k - 1) < n)

ring_buffer_allocate(b, bits) ==
    LET n == ring_buffer_size(b)
        old == ring_buffer_copy(b, n)
    IN  [b EXCEPT !.data = [i \in 0..(2^bits - 1) |-> IF i < n THEN old[i + 1] ELSE 0],
                  !.bits = bits, !.head = n, !.tail = 0]

ring_buffer_is_max_size_reached(b) ==
    LET n == ring_buffer_size(b) + 1
    IN  n >= 2^ring_buffer_get_bits_for_size(b, n)

\* The ring grows, and shrinks, to the least size that holds count more.
ring_buffer_ensure_space(b, count) ==
    LET bits == ring_buffer_get_bits_for_size(b, ring_buffer_size(b) + count)
    IN  IF bits = b.bits THEN b ELSE ring_buffer_allocate(b, bits)

-----------------------------------------------------------------------------
(* struct wl_connection.                                                   *)

wl_connection_create ==
    [in |-> NewRing(WL_BUFFER_DEFAULT_SIZE_POT),
     out |-> NewRing(WL_BUFFER_DEFAULT_SIZE_POT),
     fds_in |-> NewRing(FDS_POT), fds_out |-> NewRing(FDS_POT),
     want_flush |-> FALSE]

Close(x, fds) == [x EXCEPT !.tab = [i \in DOMAIN @ |-> IF i \in fds THEN 0 ELSE @[i]]]

\* The descriptors left in both rings.
wl_connection_destroy(x, s) ==
    LET c == x.conn[s]
        left == ring_buffer_copy(c.fds_in, ring_buffer_size(c.fds_in))
                \o ring_buffer_copy(c.fds_out, ring_buffer_size(c.fds_out))
    IN  Close([x EXCEPT !.conn[s] = wl_connection_create], ToSet(left))

wl_connection_consume(c, size) == [c EXCEPT !.in.tail = @ + size]

\* Mutant: the bytes go out whole with the first descriptors.
SendAllBytes(c, fds) == ring_buffer_get_iov(c.out)

\* A full set of descriptors leaves with one byte only, so that the others
\* are sent before the bytes run out.
BytesToSend(c, fds) ==
    IF Len(fds) = MAX_FDS_OUT THEN 1 ELSE ring_buffer_get_iov(c.out)

build_cmsg(c) ==
    ring_buffer_copy(c.fds_out, Min({MAX_FDS_OUT, ring_buffer_size(c.fds_out)}))

SendWith(x, s, fds) ==
    LET len == Min({BytesToSend(x.conn[s], fds), x.room - Len(x.out[s])})
        bytes == ring_buffer_copy(x.conn[s].out, len)
        files == [k \in 1..Len(fds) |-> x.tab[fds[k]]]
    IN  IF x.closed[s] THEN [x EXCEPT !.err = "EPIPE"]
        ELSE IF len = 0 THEN [x EXCEPT !.err = "EAGAIN"]
        ELSE Close([x EXCEPT
                !.out[s] = @ \o [k \in 1..len |->
                    [u |-> bytes[k], files |-> IF k = 1 THEN files ELSE << >>]],
                !.conn[s].out.tail = @ + len,
                !.conn[s].fds_out.tail = @ + Len(fds)], ToSet(fds))

\* One round of wl_connection_flush: a sendmsg, which takes what the socket
\* has room for, and the close of the descriptors that went with it.
SendMsg(x, s) == SendWith(x, s, build_cmsg(x.conn[s]))

RECURSIVE wl_connection_flush(_, _)
wl_connection_flush(x, s) ==
    LET c == x.conn[s] IN
    IF ~c.want_flush \/ x.err # "" THEN x
    ELSE IF ring_buffer_size(c.out) = 0 THEN [x EXCEPT !.conn[s].want_flush = FALSE]
    ELSE wl_connection_flush(SendMsg(x, s), s)

\* A flush on the way, which may find the socket full.
FullIsFine(x) == IF x.err = "EAGAIN" THEN [x EXCEPT !.err = ""] ELSE x
TryFlush(x, s) ==
    FullIsFine(wl_connection_flush([x EXCEPT !.conn[s].want_flush = TRUE], s))

\* Puts elements in a ring that has been flushed if it was full.
PutIn(x, s, r, elements) ==
    IF x.err # "" THEN x
    ELSE [x EXCEPT !.conn[s][r] =
             ring_buffer_put(ring_buffer_ensure_space(@, Len(elements)), elements)]

wl_connection_queue(x, s, bytes) ==
    PutIn(IF ring_buffer_size(x.conn[s].out) + Len(bytes) > 2^WL_BUFFER_DEFAULT_SIZE_POT
          THEN TryFlush(x, s) ELSE x, s, "out", bytes)

\* Mutant: only a ring that was full asks for a flush.
WriteWithoutFlush(x, s, bytes) == wl_connection_queue(x, s, bytes)

WantFlush(x, s) == IF x.err # "" THEN x ELSE [x EXCEPT !.conn[s].want_flush = TRUE]
wl_connection_write(x, s, bytes) == WantFlush(wl_connection_queue(x, s, bytes), s)

wl_connection_put_fd(x, s, fd) ==
    PutIn(IF ring_buffer_size(x.conn[s].fds_out) >= MAX_FDS_OUT
          THEN TryFlush(x, s) ELSE x, s, "fds_out", <<fd>>)

\* The kernel puts each file that arrives at the lowest free number.
RECURSIVE Install(_, _)
Install(tab, files) ==
    IF files = << >> THEN [tab |-> tab, fds |-> << >>]
    ELSE LET fd == Min({i \in DOMAIN tab : tab[i] = 0})
             r == Install([tab EXCEPT ![fd] = Head(files)], Tail(files))
         IN  [r EXCEPT !.fds = <<fd>> \o @]

decode_cmsg(x, s, files) ==
    LET new == Install(x.tab, files) IN
    [x EXCEPT !.tab = new.tab,
              !.conn[s].fds_in = ring_buffer_put(
                  ring_buffer_ensure_space(@, Len(files)), new.fds)]

\* Receives until the socket is empty; len is what it returns.
RECURSIVE wl_connection_read(_, _)
wl_connection_read(x, s) ==
    LET size == ring_buffer_size(x.conn[s].in)
        y == [x EXCEPT !.conn[s].in = ring_buffer_ensure_space(@, 1)]
        n == Min({Len(x.inb[s]), ring_buffer_put_iov(y.conn[s].in)})
        got == SubSeq(x.inb[s], 1, n)
        files == FlattenSeq([k \in 1..n |-> got[k].files])
        bytes == [k \in 1..n |-> got[k].u]
    IN  IF ring_buffer_is_max_size_reached(x.conn[s].in) THEN [x EXCEPT !.len = size]
        ELSE IF n > 0
        THEN wl_connection_read(
                 [decode_cmsg(y, s, files) EXCEPT
                     !.inb[s] = SubSeq(@, n + 1, Len(@)),
                     !.conn[s].in = ring_buffer_put(@, bytes)], s)
        ELSE [y EXCEPT !.len = IF x.reset[s] \/ (size = 0 /\ ~x.closed[s])
                               THEN -1 ELSE size]

-----------------------------------------------------------------------------
(* struct wl_closure.  A signature is a sequence of argument types: "u"    *)
(* for any plain number, "o" an object, "n" a new id, "s" a string, "?s"   *)
(* one that may be NULL, "a" an array, "h" a descriptor.  A string or an   *)
(* array is [len, text]: its length in bytes, NUL included, and what it    *)
(* says, a number; a NULL string has length 0.                             *)

div_roundup(n, a) == (n + a - 1) \div a
Words(len) == div_roundup(len, WORD)

Bytes(words) == [k \in 1..(WORD * Len(words)) |->
                    words[Words(k)] * WORD + (k % WORD)]
Decode(bytes) == [i \in 1..(Len(bytes) \div WORD) |-> bytes[WORD * i] \div WORD]

\* The header: the object, and the size with the opcode.
HEADER == 2 * WORD
OPCODES == 16
SizeOf(words) == words[2] \div OPCODES
OpcodeOf(words) == words[2] % OPCODES

Text(len, text) == [len |-> len, text |-> text]
Found(arg, r) == [r EXCEPT !.args = <<arg>> \o @]
Stop(ok) == [ok |-> ok, args |-> << >>]

\* The arguments of the words w, with descriptors taken from fds; those
\* before the first one that is refused.  A string is its length and one
\* number, so that its NUL is always where it should be.
RECURSIVE Arguments(_, _, _)
Arguments(sig, w, fds) ==
    IF sig = << >> THEN Stop(TRUE)
    ELSE IF Head(sig) = "h"
    THEN IF fds = << >> THEN Stop(FALSE)
         ELSE Found(Head(fds), Arguments(Tail(sig), w, Tail(fds)))
    ELSE IF w = << >> THEN Stop(FALSE)
    ELSE IF Head(sig) \in {"u", "o", "n"}
    THEN IF Head(w) = 0 /\ Head(sig) # "u" THEN Stop(FALSE)
         ELSE Found(Head(w), Arguments(Tail(sig), Tail(w), fds))
    ELSE LET len == Head(w)
             next == 2 + Words(len)
         IN  IF (len = 0 /\ Head(sig) = "s") \/ Words(len) >= Len(w) THEN Stop(FALSE)
             ELSE Found(Text(len, IF len = 0 THEN 0 ELSE w[2] \div OPCODES),
                        Arguments(Tail(sig), SubSeq(w, next, Len(w)), fds))

FdsOf(closure) == {closure.args[i] : i \in {j \in DOMAIN closure.args : closure.sig[j] = "h"}} \ {-1}

\* How far fds_in.tail has advanced.
CountFds(args, sig) == Cardinality({i \in DOMAIN args : sig[i] = "h"})

wl_closure_destroy(x, closure) == Close(x, FdsOf(closure))

Demarshalled(x, s, size, w, sig, r) ==
    LET closure == [id |-> w[1], op |-> OpcodeOf(w), sig |-> sig, args |-> r.args]
        y == [x EXCEPT !.conn[s] = wl_connection_consume(
                 [@ EXCEPT !.fds_in.tail = @ + CountFds(r.args, sig)], size)]
    IN  [ok |-> r.ok, closure |-> closure,
         x |-> IF r.ok THEN y ELSE wl_closure_destroy(y, closure)]

\* A message of which all bytes are there.
wl_connection_demarshal(x, s, size, sig) ==
    LET w == Decode(ring_buffer_copy(x.conn[s].in, size))
        fds == x.conn[s].fds_in
    IN  Demarshalled(x, s, size, w, sig,
                     Arguments(sig, SubSeq(w, 3, Len(w)),
                               ring_buffer_copy(fds, ring_buffer_size(fds))))

ArgumentWords(type, arg) ==
    CASE type = "h" -> << >>
      [] type \in {"u", "o", "n"} -> <<arg>>
      [] OTHER -> <<arg.len>> \o [i \in 1..Words(arg.len) |-> arg.text * OPCODES + i]

buffer_size_for_closure(closure) ==
    2 + FoldLeft(LAMBDA n, i : n + (CASE closure.sig[i] = "h" -> 0
                                      [] closure.sig[i] \in {"u", "o", "n"} -> 1
                                      [] OTHER -> 1 + Words(closure.args[i].len)),
                 0, [i \in DOMAIN closure.sig |-> i])

serialize_closure(closure) ==
    LET args == FlattenSeq([i \in DOMAIN closure.sig |->
                              ArgumentWords(closure.sig[i], closure.args[i])])
    IN  <<closure.id, WORD * (2 + Len(args)) * OPCODES + closure.op>> \o args

\* Mutant: the closure keeps the descriptors it handed over.
TakenAndKept(r, i, x) == [r EXCEPT !.x = x]

\* A descriptor the connection takes is the connection's to close.
Taken(r, i, x) ==
    [r EXCEPT !.x = x, !.closure.args[i] = IF x.err # "" THEN @ ELSE -1]

RECURSIVE CopyFrom(_, _, _)
CopyFrom(r, s, i) ==
    IF i > Len(r.closure.sig) \/ r.x.err # "" THEN r
    ELSE CopyFrom(IF r.closure.sig[i] # "h" THEN r
                  ELSE Taken(r, i, wl_connection_put_fd(r.x, s, r.closure.args[i])),
                  s, i + 1)

copy_fds_to_connection(x, s, closure) == CopyFrom([x |-> x, closure |-> closure], s, 1)

Write(r, s, words) ==
    IF r.x.err # "" THEN r
    ELSE IF Len(words) > buffer_size_for_closure(r.closure)
    THEN [r EXCEPT !.x.err = "ERANGE"]
    ELSE [r EXCEPT !.x = wl_connection_write(@, s, Bytes(words))]
Serialized(r, s) == Write(r, s, serialize_closure(r.closure))

\* Returns the closure too: it is destroyed by the caller.
wl_closure_send(x, s, closure) == Serialized(copy_fds_to_connection(x, s, closure), s)
=============================================================================
