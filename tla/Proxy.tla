------------------------------- MODULE Proxy -------------------------------
(***************************************************************************)
(* One client of the Wayland proxy (Capture/src/proxy.c): its messages and *)
(* those of the compositor pass, byte by byte and with the files they      *)
(* carry, through the two connections, and the handlers of resize.c drop,  *)
(* rewrite or add some.  Capture models what the other handlers keep.      *)
(*                                                                         *)
(* The proxy thread, the client and the compositor run concurrently; the   *)
(* sockets between them hold few bytes, so that a message may be cut       *)
(* anywhere, and either peer may vanish at any time.  Another thread opens *)
(* a descriptor at any time: a number closed once too often may be its.    *)
(***************************************************************************)
EXTENDS WlConnection

CONSTANTS
    Methods, Events,  \* opcode -> [name, sig], of the client and the compositor
    Profiles,         \* [send, room, chunk, close], see Init
    SessionSize,      \* the width and height the session is to have
    Interfaces        \* the interfaces the proxy has a protocol for

VARIABLES
    x,      \* the proxy's connections, see WlConnection
    pc,     \* [at, side]: where the proxy thread is
    peer,   \* the client and the compositor
    full,   \* whether a socket to the proxy was ever full
    other   \* the descriptor another thread has opened, 0 before

vars == <<x, pc, peer, full, other>>

FOREIGN == 99  \* the other thread's file
Peers == [client |-> 97, server |-> 98]  \* the files of the two sockets

Other(s) == IF s = "client" THEN "server" ELSE "client"
MessageOf(s, op) == IF s = "client" THEN Methods[op] ELSE Events[op]

-----------------------------------------------------------------------------
(* resize.c.  Each handler returns what becomes of the message, and the    *)
(* closure, which it may have changed.                                     *)

Handled(y, act, closure) == [x |-> y, act |-> act, closure |-> closure]

\* Tells the client to be full screen and of the session's size.  When the
\* event cannot be sent the array is freed twice; what the model has is that
\* nothing more happens to this client.
xdg_surface_get_toplevel(y, closure) ==
    LET op == CHOOSE i \in DOMAIN Events : Events[i].name = "configure"
        res == [id |-> closure.args[1], op |-> op, sig |-> Events[op].sig,
                args |-> <<SessionSize, SessionSize, Text(WORD, 5)>>]
        After(z) == Handled(z, IF z.err = "" THEN "FWD" ELSE "ERR", closure)
    IN  After(wl_closure_send(y, "client", res).x)

xdg_toplevel_configure(y, closure) == Handled(y, "DROP", closure)

xdg_toplevel_set_fullscreen(y, closure) == Handled(y, "DROP", closure)

wl_output_mode(y, closure) ==
    Handled(y, "FWD", [closure EXCEPT !.args[2] = SessionSize, !.args[3] = SessionSize])

\* shm-buffers.c: the formats argb8888 and xrgb8888 alone are passed on.
wl_shm_format(y, closure) ==
    Handled(y, IF closure.args[1] \in {0, 1} THEN "FWD" ELSE "DROP", closure)

OnMessage(y, name, closure) ==
    CASE name = "get_toplevel"   -> xdg_surface_get_toplevel(y, closure)
      [] name = "configure"      -> xdg_toplevel_configure(y, closure)
      [] name = "set_fullscreen" -> xdg_toplevel_set_fullscreen(y, closure)
      [] name = "mode"           -> wl_output_mode(y, closure)
      [] name = "format"         -> wl_shm_format(y, closure)
      [] OTHER                   -> Handled(y, "FWD", closure)

-----------------------------------------------------------------------------
(* proxy.c.                                                                *)

proxy_lookup_interface(name) == name \in Interfaces

Destroyed(r) == wl_closure_destroy(r.x, r.closure)
Forward(h, s) ==
    Destroyed(IF h.act # "FWD" THEN h ELSE wl_closure_send(h.x, Other(s), h.closure))

\* The client never learns of a global the proxy could not parse.
HandleClosure(d, s, name) ==
    IF ~d.ok THEN [d.x EXCEPT !.err = "EINVAL"]
    ELSE IF name = "global" /\ ~proxy_lookup_interface(d.closure.args[2].text)
    THEN Destroyed(d)
    ELSE Forward(OnMessage(d.x, name, d.closure), s)

proxy_handle_message(y, s, size, op) ==
    LET m == MessageOf(s, op)
    IN  HandleClosure(wl_connection_demarshal(y, s, size, m.sig), s, m.name)

\* Both connections with their descriptors, and the sockets.
proxy_destroy_session(y) ==
    Close(wl_connection_destroy(wl_connection_destroy(y, "client"), "server"),
          {i \in DOMAIN y.tab : y.tab[i] \in {Peers.client, Peers.server}})

\* proxy_run returns, or the client's session alone is destroyed.
End(y, why) ==
    /\ x' = [proxy_destroy_session(y) EXCEPT !.err = why]
    /\ pc' = [at |-> "end", side |-> "client"]

\* epoll_wait: a hangup is seen before the data that came before it.
Hup(s) ==
    /\ pc.at = "wait" /\ x.closed[s]
    /\ End(x, "hup")
    /\ UNCHANGED <<peer, full, other>>

Ready(s) ==
    /\ pc.at = "wait" /\ x.inb[s] # << >> /\ ~x.closed[s]
    /\ pc' = [at |-> "read", side |-> s]
    /\ UNCHANGED <<x, peer, full, other>>

\* proxy_handle_data.
ReadData ==
    /\ pc.at = "read"
    /\ x' = wl_connection_read(x, pc.side)
    /\ pc' = [pc EXCEPT !.at = "messages"]
    /\ UNCHANGED <<peer, full, other>>

\* Mutant: a message is taken as soon as one word of it is there.
MoreByWord(len) == len >= WORD \/ len < 0

\* len is compared as an unsigned number: -1 is large.
More(len) == len >= HEADER \/ len < 0

\* One round of the loop over the messages.  Nothing compares the size in the
\* header with the bytes that are there: past them the ring holds whatever
\* it held before, and the thread's further steps are not modelled.
HandleMessage ==
    /\ pc.at = "messages" /\ More(x.len)
    /\ LET in == x.conn[pc.side].in
           w == Decode(ring_buffer_copy(in, HEADER))
       IN  IF ring_buffer_size(in) < HEADER \/ SizeOf(w) > ring_buffer_size(in)
           THEN End(x, "garbled")
           ELSE \E y \in {proxy_handle_message(x, pc.side, SizeOf(w), OpcodeOf(w))} :
                IF y.err # "" THEN End(y, y.err)
                ELSE /\ x' = [y EXCEPT !.len = @ - SizeOf(w)]
                     /\ UNCHANGED pc
    /\ UNCHANGED <<peer, full, other>>

\* The flush of the other side's connection, one sendmsg at a time.
Flush ==
    /\ pc.at = "messages" /\ ~More(x.len)
    /\ LET c == x.conn[Other(pc.side)]
       IN  IF ~c.want_flush \/ ring_buffer_size(c.out) = 0
           THEN /\ x' = [x EXCEPT !.conn[Other(pc.side)].want_flush = FALSE]
                /\ pc' = [pc EXCEPT !.at = "wait"]
           ELSE \E y \in {SendMsg(x, Other(pc.side))} :
                IF y.err # "" THEN End(y, "flush")
                ELSE x' = y /\ UNCHANGED pc
    /\ UNCHANGED <<peer, full, other>>

-----------------------------------------------------------------------------
(* The peers, which use libwayland too: messages are queued and sent with  *)
(* as many of their files as one sendmsg takes.                            *)

Script(s) == Profiles[peer.profile].send[s]
SigOf(s, m) == MessageOf(s, m.op).sig
BytesOf(s, m) == Bytes(serialize_closure(m @@ [sig |-> SigOf(s, m)]))
FilesOf(s, m) ==
    LET at == SetToSortSeq({i \in DOMAIN m.args : SigOf(s, m)[i] = "h"}, <)
    IN  [k \in DOMAIN at |-> m.args[at[k]]]

PeerQueue(s) ==
    /\ pc.at # "end" /\ ~x.closed[s] /\ peer[s].next <= Len(Script(s))
    /\ LET m == Script(s)[peer[s].next] IN
       peer' = [peer EXCEPT ![s].next = @ + 1, ![s].bytes = @ \o BytesOf(s, m),
                            ![s].files = @ \o FilesOf(s, m)]
    /\ UNCHANGED <<x, pc, full, other>>

PeerSend(s) ==
    LET p == peer[s]
        files == SubSeq(p.files, 1, Min({MAX_FDS_OUT, Len(p.files)}))
        want == IF Len(files) = MAX_FDS_OUT THEN 1 ELSE Len(p.bytes)
        len == Min({want, x.room - Len(x.inb[s])})
    IN  /\ pc.at # "end" /\ ~x.closed[s] /\ len > 0
        /\ x' = [x EXCEPT !.inb[s] = @ \o [k \in 1..len |->
                    [u |-> p.bytes[k], files |-> IF k = 1 THEN files ELSE << >>]]]
        /\ peer' = [peer EXCEPT ![s].bytes = SubSeq(@, len + 1, Len(@)),
                                ![s].files = SubSeq(@, Len(files) + 1, Len(@))]
        /\ full' = (full \/ len < want)
        /\ UNCHANGED <<pc, other>>

\* Takes a chunk of the bytes, or all of them.
PeerReceive(s) == \E n \in {Min({Profiles[peer.profile].chunk, Len(x.out[s])}), Len(x.out[s])} :
    /\ pc.at # "end" /\ ~x.closed[s] /\ x.out[s] # << >>
    /\ LET new == SubSeq(x.out[s], 1, n) IN
       peer' = [peer EXCEPT ![s].got = @ \o [k \in 1..n |-> new[k].u],
                            ![s].gotFiles = @ \o FlattenSeq([k \in 1..n |-> new[k].files])]
    /\ x' = [x EXCEPT !.out[s] = SubSeq(@, n + 1, Len(@))]
    /\ UNCHANGED <<pc, full, other>>

\* With bytes unread the connection is reset.
PeerClose(s) ==
    /\ Profiles[peer.profile].close /\ pc.at # "end" /\ ~x.closed[s]
    /\ x' = [x EXCEPT !.closed[s] = TRUE, !.reset[s] = x.out[s] # << >>]
    /\ UNCHANGED <<pc, peer, full, other>>

OtherOpens ==
    /\ other = 0
    /\ LET new == Install(x.tab, <<FOREIGN>>) IN
       /\ other' = new.fds[1]
       /\ x' = [x EXCEPT !.tab = new.tab]
    /\ UNCHANGED <<pc, peer, full>>

\* A profile bounds a run: the messages each peer sends, the bytes a socket
\* holds, the bytes a peer receives at once, and whether peers may close.
NewPeer == [next |-> 1, bytes |-> << >>, files |-> << >>, got |-> << >>, gotFiles |-> << >>]

Init ==
    /\ \E profile \in DOMAIN Profiles :
           /\ peer = [profile |-> profile, client |-> NewPeer, server |-> NewPeer]
           /\ x = [conn |-> [s \in Sides |-> wl_connection_create],
                   inb |-> [s \in Sides |-> << >>], out |-> [s \in Sides |-> << >>],
                   room |-> Profiles[profile].room,
                   closed |-> [s \in Sides |-> FALSE], reset |-> [s \in Sides |-> FALSE],
                   tab |-> Install([i \in 1..MAX_FD |-> 0],
                                   <<Peers.client, Peers.server>>).tab,
                   err |-> "", len |-> 0]
    /\ pc = [at |-> "wait", side |-> "client"]
    /\ full = FALSE /\ other = 0

ProxyStep == ReadData \/ HandleMessage \/ Flush \/ \E s \in Sides : Hup(s) \/ Ready(s)
PeerStep(s) == PeerQueue(s) \/ PeerSend(s) \/ PeerReceive(s)

Next == ProxyStep \/ OtherOpens \/ \E s \in Sides : PeerStep(s) \/ PeerClose(s)

Spec == Init /\ [][Next]_vars

-----------------------------------------------------------------------------
(* Properties.                                                             *)

\* Types; no ring of a connection holds more than its capacity, whatever it
\* has grown or shrunk to.
TypeOK ==
    /\ \A s \in Sides : \A r \in {"in", "out", "fds_in", "fds_out"} :
           LET b == x.conn[s][r] IN
           /\ b.tail \in Nat /\ ring_buffer_size(b) \in 0..ring_buffer_capacity(b)
           /\ DOMAIN b.data = 0..(ring_buffer_capacity(b) - 1)
    /\ x.tab \in [1..MAX_FD -> Nat]
    /\ x.err \in {"", "hup", "flush", "garbled", "EINVAL", "EPIPE", "ERANGE"}
    /\ pc.at \in {"wait", "read", "messages", "end"} /\ pc.side \in Sides
    /\ full \in BOOLEAN /\ other \in 0..MAX_FD

\* The complete messages at the start of a stream.
RECURSIVE Complete(_)
Complete(bytes) ==
    IF Len(bytes) < HEADER \/ Len(bytes) < SizeOf(Decode(SubSeq(bytes, 1, HEADER)))
    THEN << >>
    ELSE LET size == SizeOf(Decode(SubSeq(bytes, 1, HEADER)))
         IN  <<SubSeq(bytes, 1, size)>> \o Complete(SubSeq(bytes, size + 1, Len(bytes)))

NameOf(s, bytes) == MessageOf(s, OpcodeOf(Decode(bytes))).name

\* What side s should receive of its peer: everything but the messages about
\* sizes and the globals and formats that are not supported, and the
\* session's size for the monitor's.
Forwarded(s) ==
    LET from == Other(s)
        name(m) == MessageOf(from, m.op).name
        kept == SelectSeq(Script(from), LAMBDA m :
            /\ name(m) \notin {"configure", "set_fullscreen"}
            /\ name(m) = "global" => m.args[2].text \in Interfaces
            /\ name(m) = "format" => m.args[1] < 2)
    IN  [i \in DOMAIN kept |->
            BytesOf(from, IF name(kept[i]) = "mode"
                          THEN [kept[i] EXCEPT !.args[2] = SessionSize, !.args[3] = SessionSize]
                          ELSE kept[i])]

Received(s) == Complete(peer[s].got)
IsConfigure(b) == NameOf("server", b) = "configure"
FromPeer(s) ==
    IF s = "server" THEN Received(s) ELSE SelectSeq(Received(s), LAMBDA b : ~IsConfigure(b))
Toplevels == SelectSeq(Script("client"), LAMBDA m : Methods[m.op].name = "get_toplevel")

FilesSent(s, n) == FlattenSeq([i \in 1..n |-> FilesOf(s, Script(s)[i])])
FilesDue(s) ==
    LET carrying == SelectSeq(Received(s), LAMBDA b : NameOf(Other(s), b) \in {"create_pool", "keymap"})
    IN  Len(carrying)

\* Whatever the rings wrap around, grow or shrink to (within their capacities,
\* TypeOK), however the sockets cut the messages and whenever the flushes
\* happen, each side receives the other side's messages whole, once, in order
\* and byte for byte.  The files arrive in the order they were sent, and none
\* later than the message it belongs to, even when more are waiting than one
\* sendmsg takes (the single byte of wl_connection_flush).  The client is told
\* no size but the session's, once for each of its toplevels, and of no global
\* or format that is not supported.
StreamsIntact ==
    /\ TypeOK
    /\ \A s \in Sides :
          /\ IsPrefix(FromPeer(s), Forwarded(s))
          /\ IsPrefix(peer[s].gotFiles, FilesSent(Other(s), Len(Script(Other(s)))))
          /\ Len(peer[s].gotFiles) >= FilesDue(s)
    /\ LET told == SelectSeq(Received("client"), IsConfigure) IN
       /\ Len(told) <= Len(Toplevels)
       /\ \A i \in DOMAIN told :
              LET w == Decode(told[i]) IN
              w[1] = Toplevels[i].args[1] /\ w[3] = SessionSize /\ w[4] = SessionSize

InRings == UNION {ToSet(ring_buffer_copy(b, ring_buffer_size(b))) :
                  b \in {x.conn[s][r] : s \in Sides, r \in {"fds_in", "fds_out"}}}

\* Every descriptor the proxy has received is either waiting in a ring or
\* closed, and it is closed once: the number another thread was given
\* meanwhile is never closed for it.  Nothing is open after the end.
DescriptorsOwned ==
    /\ other # 0 => x.tab[other] = FOREIGN
    /\ {i \in 1..MAX_FD : x.tab[i] \notin {0, FOREIGN, Peers.client, Peers.server}} = InRings
    /\ \A s \in Sides : (pc.at = "end") # (\E i \in 1..MAX_FD : x.tab[i] = Peers[s])

\* A message is read beyond its end only after its sender found the socket
\* full, or after a peer reset the connection between epoll_wait and
\* recvmsg; messages that arrive in pieces otherwise wait for the rest.  No
\* message that is well formed is refused by wl_connection_demarshal, for want
\* of a descriptor or of bytes, or by serialize_closure for want of room.
GarbledOnlyByFullSocket ==
    /\ x.err = "garbled" => full \/ \E s \in Sides : x.reset[s]
    /\ x.err \notin {"EINVAL", "ERANGE"}

\* When the steps that fairness is about can change something.
ProxyCan ==
    \/ pc.at \in {"read", "messages"}
    \/ pc.at = "wait" /\ \E s \in Sides : x.closed[s] \/ x.inb[s] # << >>
PeerCan(s) ==
    /\ pc.at # "end" /\ ~x.closed[s]
    /\ \/ peer[s].next <= Len(Script(s)) \/ x.out[s] # << >>
       \/ peer[s].bytes # << >> /\ Len(x.inb[s]) < x.room

\* Weak fairness, with the enabling conditions written out: the proxy thread
\* runs on, and a peer that has not closed sends and receives.
FairSpec ==
    /\ Spec
    /\ []<>~ProxyCan \/ []<><<ProxyStep>>_vars
    /\ \A s \in Sides : []<>~PeerCan(s) \/ []<><<PeerStep(s)>>_vars

\* Every message reaches the other side, or the session ends.
EverythingForwarded ==
    <>(pc.at = "end" \/ \A s \in Sides : Len(FromPeer(s)) = Len(Forwarded(s)))
=============================================================================
