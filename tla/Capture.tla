------------------------------ MODULE Capture ------------------------------
(***************************************************************************)
(* Video capture: the Wayland proxy between the game and the compositor    *)
(* (Capture/src/proxy.c), the objects it tracks (shm-buffers.c,            *)
(* dma-buffers.c, video-output.c), and the frames it shares with            *)
(* the encoder thread through the encode queue.                            *)
(*                                                                         *)
(* A captured frame is a pointer into the game's own memory.  It is read   *)
(* by the encoder while the capture thread goes on handling messages that  *)
(* destroy buffers, pools, surfaces and whole connections, so every struct *)
(* counts its dependents and is freed by whoever drops the last one.       *)
(*                                                                         *)
(* cap is what the capture thread works on, and each handler is an         *)
(* operator from one value of it to the next: wl_map_for_each runs         *)
(* handlers in a loop, so they have to compose.  The encode queue behaves  *)
(* as RbufContract says.  A handler runs to its end in one step: the       *)
(* encoder, the only other thread, touches nothing of cap but the queue.   *)
(***************************************************************************)
EXTENDS WlMap, SequencesExt

CONSTANTS
    Clients,     \* Wayland clients that may be connected at once
    MaxId,       \* the largest object id a client uses
    Profiles,    \* ways the clients behave, see CapInit
    MaxPlanes    \* planes of a dma buffer: 4 in the code

VARIABLES
    cap,    \* the capture thread's data, see CapInit
    phase,  \* of the session: "run", "gone" (no capture thread), "destroyed"
    why,    \* why the capture thread ended: "", "cancel", "full", "parse"
    enc,    \* the encoder thread: "idle", "reading" the frame it holds, "gone"
    game    \* what each client knows of its own objects

vars == <<cap, phase, why, enc, game>>

Ids == 2..MaxId  \* 0 is NULL and 1 the wl_display
ServerIds == {WL_SERVER_ID_START}

\* The addresses malloc returns.  They are named after the object the struct
\* is made for, which changes nothing but the number of states.
Structs == Clients \X Ids \X Nat
ProfileOf(st) == Profiles[st.profile]
NULL == <<0, 0, 0>>

-----------------------------------------------------------------------------
(* Structs.  uaf records a use of a struct after it was freed, or of a     *)
(* connection after it was destroyed.                                      *)

\* deps is the dependents field; ref the pool of a shm buffer or the buffer
\* attached to a surface; fit whether a buffer has the session's size; fds
\* the number of plane descriptors it owns.
Struct(kind, id) ==
    [k |-> kind, id |-> id, deps |-> 0, ref |-> NULL, fit |-> FALSE,
     fds |-> 0]

\* heap maps the address of each struct that is allocated to the struct.
At(st, p) == IF p \in DOMAIN st.heap THEN st.heap[p] ELSE Struct("dead", 0)

Spare(st, c, id) == {k \in 1..ProfileOf(st).kept : <<c, id, k>> \notin DOMAIN st.heap}
Malloc(st, c, id) == <<c, id, Min(Spare(st, c, id))>>

Put(st, p, s) == [st EXCEPT !.heap[p] = s, !.uaf = @ \/ p \notin DOMAIN st.heap]
Free(st, p) == [st EXCEPT !.heap = Restrict(@, DOMAIN @ \ {p}),
                          !.uaf = @ \/ p \notin DOMAIN st.heap]
Depend(st, p, n) == Put(st, p, [At(st, p) EXCEPT !.deps = @ + n])
Unused(st, p) == At(st, p).id = 0 /\ At(st, p).deps = 0
Close(st, n) == [st EXCEPT !.fds = @ - n]

\* Frees the pool of a shm buffer with its last buffer; unmaps its memory.
wl_shm_buffer_free(st, b) ==
    LET pool == At(st, b).ref
        left == Depend(st, pool, -1)
    IN  IF Unused(left, pool) THEN Free(left, pool) ELSE left

dma_buffer_free(st, b) == Close(st, At(st, b).fds)

wl_buffer_free(st, b) ==
    Free(IF At(st, b).k = "shm" THEN wl_shm_buffer_free(st, b)
                                 ELSE dma_buffer_free(st, b), b)

\* Queues an event on a client's connection; it leaves with the next flush.
Send(st, conn, event) ==
    IF \E c \in Clients : st.conn[c] = conn
    THEN LET c == CHOOSE x \in Clients : st.conn[x] = conn
         IN  [st EXCEPT !.out[c] = Append(@, event)]
    ELSE [st EXCEPT !.uaf = TRUE]

\* _wl_buffer_release: tells the client, unless it destroyed the buffer.
SendRelease(st, b, conn) ==
    LET told == IF At(st, b).id # 0
                THEN Send(st, conn, [e |-> "release", id |-> At(st, b).id])
                ELSE st
    IN  IF Unused(told, b) THEN wl_buffer_free(told, b) ELSE told

free_frame(st, f) == SendRelease(Depend(st, f.buf, -1), f.buf, f.conn)

RECURSIVE FreeFrames(_, _)
FreeFrames(st, frames) ==
    IF frames = << >> THEN st ELSE FreeFrames(free_frame(st, Head(frames)), Tail(frames))

\* Mutant: popped frames wait until another one is queued.
FreesBehindQueue(st) ==
    IF st.queue = << >> THEN st ELSE [FreeFrames(st, st.retired) EXCEPT !.retired = << >>]

rbuf_free_expired(st) == [FreeFrames(st, st.retired) EXCEPT !.retired = << >>]

-----------------------------------------------------------------------------
(* Message handlers.  Each returns what handle_message returns in ret.     *)

Ret(st, r) == [st EXCEPT !.ret = r]
DataOf(st, c, id) == wl_map_lookup(st.data[c], id, NULL)
TypeOf(st, c, id) == wl_map_lookup(st.types[c], id, "none")
New(st, c, id, s) ==
    LET p == Malloc(st, c, id) IN
    Ret([st EXCEPT !.heap = (p :> s) @@ @,
                   !.data[c] = wl_map_insert_at(@, id, p)], "FWD")
Forget(st, c, id) ==
    LET p == DataOf(st, c, id) IN
    Put([st EXCEPT !.data[c] = wl_map_remove(@, id, NULL)], p,
        [At(st, p) EXCEPT !.id = 0])

wl_shm_create_pool(st, c, id) == New(st, c, id, Struct("pool", id))

wl_shm_pool_create_buffer(st, c, pool, id, fit) ==
    LET p == DataOf(st, c, pool) IN
    New(Depend(st, p, 1), c, id,
        [Struct("shm", id) EXCEPT !.ref = p, !.fit = fit])

wl_shm_pool_destroy(st, c, id) ==
    LET p == DataOf(st, c, id)
        gone == Forget(st, c, id)
    IN  Ret(IF Unused(gone, p) THEN Free(gone, p) ELSE gone, "FWD")

zwp_linux_dmabuf_create_params(st, c, id) == New(st, c, id, Struct("params", id))

\* The descriptor that came with the message is duplicated.
zwp_linux_buffer_params_add(st, c, id) ==
    LET p == DataOf(st, c, id) IN
    Ret(Put([st EXCEPT !.fds = @ + 1], p, [At(st, p) EXCEPT !.fds = @ + 1]), "FWD")

\* The plane descriptors move from the params to the buffer.
zwp_linux_buffer_params_create_immed(st, c, params, id, fit) ==
    LET p == DataOf(st, c, params)
        moved == Put(st, p, [At(st, p) EXCEPT !.fds = 0])
    IN  New(moved, c, id,
            [Struct("dma", id) EXCEPT !.fit = fit, !.fds = At(st, p).fds])

zwp_linux_buffer_params_destroy(st, c, id) ==
    LET p == DataOf(st, c, id) IN
    Ret(Free(Forget(Close(st, At(st, p).fds), c, id), p), "FWD")

\* Mutant: the dependents are not looked at.
BufferFreedOnDestroy(st, c, id) ==
    LET p == DataOf(st, c, id) IN
    Ret(IF p = NULL THEN st ELSE wl_buffer_free(Forget(st, c, id), p), "FWD")

wl_buffer_destroy(st, c, id) ==
    LET p == DataOf(st, c, id)
        gone == Forget(st, c, id)
    IN  IF p = NULL THEN Ret(st, "FWD")
        ELSE Ret(IF Unused(gone, p) THEN wl_buffer_free(gone, p) ELSE gone, "FWD")

\* The compositor's own release of a buffer that is tracked is held back.
wl_buffer_release(st, c, id) ==
    Ret(st, IF DataOf(st, c, id) # NULL THEN "DROP" ELSE "FWD")

wl_compositor_create_surface(st, c, id) == New(st, c, id, Struct("surface", id))

wl_surface_unattach(st, s) ==
    LET b == At(st, s).ref
        left == Depend(st, b, -1)
        freed == IF Unused(left, b) THEN wl_buffer_free(left, b) ELSE left
    IN  IF b = NULL THEN st
        ELSE Put(freed, s, [At(freed, s) EXCEPT !.ref = NULL])

wl_surface_attach(st, c, surf, buf) ==
    LET s == DataOf(st, c, surf)
        b == DataOf(st, c, buf)
        off == wl_surface_unattach(st, s)
        on == Put(off, s, [At(off, s) EXCEPT !.ref = b])
    IN  Ret(IF b = NULL THEN on ELSE Depend(on, b, 1), "FWD")

rbuf_push(st, f) == [rbuf_free_expired(st) EXCEPT !.queue = Append(@, f)]

\* Mutant: a buffer of another size stays attached.
CommitKeepsMisfit(st, c, surf) ==
    LET s == DataOf(st, c, surf)
        b == At(st, s).ref
        frame == [buf |-> b, conn |-> st.conn[c]]
        taken == Depend(rbuf_push(st, frame), b, 1)
    IN  IF b = NULL THEN Ret(st, "FWD")
        ELSE IF ~At(st, b).fit THEN Ret(SendRelease(st, b, st.conn[c]), "FWD")
        ELSE IF Len(st.queue) = ProfileOf(st).capacity THEN Ret(st, "ERR")
        ELSE Ret(wl_surface_unattach(taken, s), "FWD")

\* Mutant: the queue is one place short.
CommitOneShort(st, c, surf) ==
    LET s == DataOf(st, c, surf)
        b == At(st, s).ref
        frame == [buf |-> b, conn |-> st.conn[c]]
        taken == Depend(rbuf_push(st, frame), b, 1)
    IN  IF b = NULL THEN Ret(st, "FWD")
        ELSE IF ~At(st, b).fit
        THEN Ret(wl_surface_unattach(SendRelease(st, b, st.conn[c]), s), "FWD")
        ELSE IF Len(st.queue) + 1 = ProfileOf(st).capacity THEN Ret(st, "ERR")
        ELSE Ret(wl_surface_unattach(taken, s), "FWD")

\* A buffer of the session's size becomes a frame; any other goes straight
\* back.  Either way it is no longer attached.
wl_surface_commit(st, c, surf) ==
    LET s == DataOf(st, c, surf)
        b == At(st, s).ref
        frame == [buf |-> b, conn |-> st.conn[c]]
        taken == Depend(rbuf_push(st, frame), b, 1)
    IN  IF b = NULL THEN Ret(st, "FWD")
        ELSE IF ~At(st, b).fit
        THEN Ret(wl_surface_unattach(SendRelease(st, b, st.conn[c]), s), "FWD")
        ELSE IF Len(st.queue) = ProfileOf(st).capacity THEN Ret(st, "ERR")
        ELSE Ret(wl_surface_unattach(taken, s), "FWD")

wl_surface_destroy(st, c, id) ==
    LET s == DataOf(st, c, id)
        off == wl_surface_unattach(Forget(st, c, id), s)
    IN  Ret(IF At(off, s).deps = 0 THEN Free(off, s) ELSE off, "FWD")

-----------------------------------------------------------------------------
(* The proxy.                                                              *)

\* Mutant: an id that is used again keeps its first interface.
CreateObjectOnce(st, c, id, interface) ==
    IF CanInsertAt(st.types[c], id) /\ CanInsertAt(st.data[c], id)
    THEN [st EXCEPT !.types[c] = IF TypeOf(st, c, id) # "none" THEN @
                                 ELSE wl_map_insert_at(@, id, interface),
                    !.data[c] = wl_map_insert_at(@, id, NULL)]
    ELSE Ret(st, "ERR")

\* The interface recorded for an object, and its data, which is NULL until
\* the handler of the message that creates it stores a struct.
proxy_create_object(st, c, id, interface) ==
    IF CanInsertAt(st.types[c], id) /\ CanInsertAt(st.data[c], id)
    THEN [st EXCEPT !.types[c] = wl_map_insert_at(@, id, interface),
                    !.data[c] = wl_map_insert_at(@, id, NULL)]
    ELSE Ret(st, "ERR")

\* A message to or from object id; new is the object it makes, or its other
\* argument.
Message(interface, name, id, new) ==
    [interface |-> interface, name |-> name, id |-> id, new |-> new]

\* The handler of a message, if it has one.
message_handlers(st, c, m) ==
    LET is(interface, name) == m.interface = interface /\ m.name = name
        fits == m.new \notin ProfileOf(st).misfit IN
    CASE is("wl_compositor", "create_surface") -> wl_compositor_create_surface(st, c, m.new)
      [] is("wl_shm", "create_pool") -> wl_shm_create_pool(st, c, m.new)
      [] is("wl_shm_pool", "create_buffer") ->
             wl_shm_pool_create_buffer(st, c, m.id, m.new, fits)
      [] is("wl_shm_pool", "destroy") -> wl_shm_pool_destroy(st, c, m.id)
      [] is("zwp_linux_dmabuf_v1", "create_params") ->
             zwp_linux_dmabuf_create_params(st, c, m.new)
      [] is("zwp_linux_buffer_params_v1", "add") -> zwp_linux_buffer_params_add(st, c, m.id)
      [] is("zwp_linux_buffer_params_v1", "create_immed") ->
             zwp_linux_buffer_params_create_immed(st, c, m.id, m.new, fits)
      [] is("zwp_linux_buffer_params_v1", "destroy") ->
             zwp_linux_buffer_params_destroy(st, c, m.id)
      [] is("wl_buffer", "destroy") -> wl_buffer_destroy(st, c, m.id)
      [] is("wl_buffer", "release") -> wl_buffer_release(st, c, m.id)
      [] is("wl_surface", "attach") -> wl_surface_attach(st, c, m.id, m.new)
      [] is("wl_surface", "commit") -> wl_surface_commit(st, c, m.id)
      [] is("wl_surface", "destroy") -> wl_surface_destroy(st, c, m.id)
      [] OTHER -> Ret(st, "FWD")

\* Every message, whatever it is, first frees the frames the encoder is
\* done with.
handle_message(st, c, m) ==
    CHOOSE r \in {message_handlers(s, c, m) : s \in {rbuf_free_expired(st)}} : TRUE

\* The fake destroy message handle_session_destroy sends to itself for each
\* object left: the handler is the one of the interface in obj_types.
destroy_object(st, c, id) ==
    handle_message(st, c, Message(TypeOf(st, c, id), "destroy", id, 0))

\* wl_map_for_each, from id i on.
RECURSIVE DestroyFrom(_, _, _)
DestroyFrom(st, c, i) ==
    IF i = Len(st.data[c].client) THEN st
    ELSE DestroyFrom(IF DataOf(st, c, i) # NULL THEN destroy_object(st, c, i) ELSE st,
                     c, i + 1)

handle_session_destroy(st, c) == DestroyFrom(st, c, 0)

NewMap(first, second) ==
    wl_map_insert_new(wl_map_insert_new(wl_map_init("client"), first), second)

proxy_create_session(st, c) ==
    [st EXCEPT !.conn[c] = st.conns + 1, !.conns = @ + 1,
               !.types[c] = NewMap("none", "wl_display"),
               !.data[c] = NewMap(NULL, NULL)]

\* The connections are closed, with whatever is still queued on them.
proxy_destroy_session(st, c) ==
    [handle_session_destroy(st, c) EXCEPT
        !.conn[c] = 0, !.out[c] = << >>,
        !.types[c] = wl_map_init("client"), !.data[c] = wl_map_init("client")]

RECURSIVE proxy_destroy(_)
proxy_destroy(st) ==
    LET open == {c \in Clients : st.conn[c] # 0} IN
    IF open = {} THEN st ELSE proxy_destroy(proxy_destroy_session(st, Min(open)))

-----------------------------------------------------------------------------
(* The other side of the proxy.  A client leaves no gap in its ids, reuses  *)
(* an id once the compositor has confirmed with delete_id that the object  *)
(* is gone, and commits no buffer that has not been given back to it; it   *)
(* may destroy anything at any time.                                       *)

NoGame ==
    [objs |-> [i \in Ids \union ServerIds |-> "none"],
     att |-> [i \in Ids |-> 0], busy |-> {}, stray |-> FALSE]

Has(c, kinds) == {i \in DOMAIN game[c].objs : game[c].objs[i] \in kinds}
NewId(c, kind) ==
    {i \in ProfileOf(cap)[kind] : /\ game[c].objs[i] = "none" /\ Spare(cap, c, i) # {}
                          /\ \A j \in 2..(i - 1) : CanInsertAt(cap.types[c], j + 1)}
Buffers == {"shm", "dma", "foreign"}

Event(name, id) == [e |-> name, id |-> id]

\* What a client makes of an event.  stray: a buffer given back twice.
Receive(g, ev) ==
    CASE ev.e = "release" ->
             IF g.objs[ev.id] = "zombie" THEN g
             ELSE [g EXCEPT !.busy = @ \ {ev.id}, !.stray = @ \/ ev.id \notin g.busy]
      [] ev.e = "delete_id" -> [g EXCEPT !.objs[ev.id] = "none"]
      [] ev.e = "created" -> [g EXCEPT !.objs[ev.id] = "foreign"]
      [] ev.e = "done" -> g

\* proxy_run returns -1 and capture_main destroys the proxy.
Fail(st, reason) ==
    /\ cap' = Ret(proxy_destroy(st), "")
    /\ phase' = "gone"
    /\ why' = reason
    /\ game' = [c \in Clients |-> NoGame]

\* A request: proxy_handle_message and the flush of the compositor's
\* connection.  new is the object it creates, if any, and g what the client
\* knows after sending it.
Request(c, m, new, interface, g) ==
    /\ phase = "run" /\ cap.conn[c] # 0
    /\ \E made \in {IF new = 0 THEN cap ELSE proxy_create_object(cap, c, new, interface)} :
       \E st \in {IF made.ret = "ERR" THEN made ELSE handle_message(made, c, m)} :
           IF st.ret = "ERR"
           THEN Fail(st, "full")
           ELSE /\ cap' = Ret(st, "")
                /\ game' = [game EXCEPT ![c] = g]
                /\ UNCHANGED <<phase, why>>
    /\ UNCHANGED enc

\* An event: proxy_handle_message and the flush of the client's connection,
\* which also sends what requests left queued on it.
ServerEvent(c, m, ev) ==
    /\ phase = "run" /\ cap.conn[c] # 0
    /\ \E st \in {handle_message(cap, c, m)} :
           /\ cap' = Ret([st EXCEPT !.out[c] = << >>], "")
           /\ game' = [game EXCEPT ![c] = FoldLeft(Receive, @,
                  IF st.ret = "FWD" THEN Append(st.out[c], ev) ELSE st.out[c])]
    /\ UNCHANGED <<phase, why, enc>>

With(c, id, kind) == [game[c] EXCEPT !.objs[id] = kind]
Without(c, id) ==
    [game[c] EXCEPT !.objs[id] = IF id \in ServerIds THEN "none" ELSE "zombie",
                    !.busy = @ \ {id},
                    !.att = [i \in Ids |-> IF id \in {i, @[i]} THEN 0 ELSE @[i]]]

CreateSurface(c) == \E id \in NewId(c, "surface") :
    Request(c, Message("wl_compositor", "create_surface", 0, id),
            id, "wl_surface", With(c, id, "surface"))

CreatePool(c) == \E id \in NewId(c, "pool") :
    Request(c, Message("wl_shm", "create_pool", 0, id),
            id, "wl_shm_pool", With(c, id, "pool"))

CreateBuffer(c) == \E id \in NewId(c, "shm"), pool \in Has(c, {"pool"}) :
    Request(c, Message("wl_shm_pool", "create_buffer", pool, id),
            id, "wl_buffer", With(c, id, "shm"))

CreateParams(c) == \E id \in NewId(c, "params") :
    Request(c, Message("zwp_linux_dmabuf_v1", "create_params", 0, id),
            id, "zwp_linux_buffer_params_v1", With(c, id, "params"))

AddPlane(c) == \E id \in Has(c, {"params"}) :
    /\ At(cap, DataOf(cap, c, id)).fds < MaxPlanes
    /\ Request(c, Message("zwp_linux_buffer_params_v1", "add", id, 0), 0, "", game[c])

CreateImmed(c) == \E id \in NewId(c, "dma"), params \in Has(c, {"params"}) :
    /\ At(cap, DataOf(cap, c, params)).fds = MaxPlanes
    /\ Request(c, Message("zwp_linux_buffer_params_v1", "create_immed", params, id),
               id, "wl_buffer", [With(c, id, "dma") EXCEPT !.objs[params] = "used"])

\* The request without an immediate result: the proxy only passes it on.
CreateLater(c) == \E params \in Has(c, {"params"}) :
    /\ At(cap, DataOf(cap, c, params)).fds = MaxPlanes
    /\ Request(c, Message("zwp_linux_buffer_params_v1", "create", params, 0),
               0, "", With(c, params, "asked"))

Destroy(c, id, interface) ==
    Request(c, Message(interface, "destroy", id, 0), 0, "", Without(c, id))

DestroyPool(c) == \E id \in Has(c, {"pool"}) : Destroy(c, id, "wl_shm_pool")
DestroyParams(c) ==
    \E id \in Has(c, {"params", "used"}) : Destroy(c, id, "zwp_linux_buffer_params_v1")
DestroyBuffer(c) == \E id \in Has(c, Buffers) : Destroy(c, id, "wl_buffer")
DestroySurface(c) == \E id \in Has(c, {"surface"}) : Destroy(c, id, "wl_surface")

Attach(c) == \E s \in Has(c, {"surface"}), b \in Has(c, Buffers) :
    /\ b \notin game[c].busy /\ \A i \in Ids : game[c].att[i] # b
    /\ Request(c, Message("wl_surface", "attach", s, b), 0, "",
               [game[c] EXCEPT !.att[s] = b])

\* The attached buffer, unless the client has destroyed it since, now
\* belongs to the compositor.
Commit(c) == \E s \in Has(c, {"surface"}) :
    LET given == {game[c].att[s]} \intersect Has(c, Buffers) IN
    Request(c, Message("wl_surface", "commit", s, 0), 0, "",
            [game[c] EXCEPT !.att[s] = 0, !.busy = @ \union given])

\* wp_presentation.feedback(surface, callback): the proxy records the new
\* object with message.types[0], the interface of the first argument.
Feedback(c) == \E id \in NewId(c, "feedback"), s \in Has(c, {"surface"}) :
    Request(c, Message("wp_presentation", "feedback", s, id),
            id, "wl_surface", With(c, id, "feedback"))

\* wl_registry.bind: the interface is the one the request names.
Bind(c) == \E id \in NewId(c, "global") :
    Request(c, Message("wl_registry", "bind", 0, id), id, "wl_shm", With(c, id, "global"))

\* A request without a handler.
OtherRequest(c) == Request(c, Message("wl_display", "sync", 1, 0), 0, "", game[c])

\* The compositor may have released the buffer before: a second release of
\* a buffer the client still waits for changes nothing.
ServerRelease(c) == \E id \in game[c].busy :
    ServerEvent(c, Message("wl_buffer", "release", id, 0), Event("release", id))

ServerDeleteId(c) == \E id \in Has(c, {"zombie"}) :
    ServerEvent(c, Message("wl_display", "delete_id", 1, id), Event("delete_id", id))

\* zwp_linux_buffer_params_v1.created: an object with an id of the server's.
ServerCreated(c) == \E params \in Has(c, {"asked"}), id \in ServerIds :
    /\ game[c].objs[id] = "none"
    /\ LET room == [cap EXCEPT !.types[c] = wl_map_reserve_new(@, id, "none")]
           made == proxy_create_object(room, c, id, "wl_buffer")
           st == handle_message(made, c,
                     Message("zwp_linux_buffer_params_v1", "created", params, id))
       IN  /\ phase = "run" /\ cap.conn[c] # 0
           /\ cap' = Ret([st EXCEPT !.out[c] = << >>], "")
           /\ game' = [game EXCEPT ![c] =
                  [FoldLeft(Receive, @, Append(st.out[c], Event("created", id)))
                      EXCEPT !.objs[params] = "used"]]
           /\ UNCHANGED <<phase, why, enc>>

OtherEvent(c) == ServerEvent(c, Message("wl_callback", "done", 0, 0), Event("done", 0))

\* The answer to a feedback request.  It is read as an event of the recorded
\* interface: as wl_surface.leave with the object 0, or as a wl_surface event
\* with more arguments than there are bytes, which wl_connection_demarshal
\* refuses.
ServerPresented(c) == \E id \in Has(c, {"feedback"}) :
    /\ phase = "run" /\ cap.conn[c] # 0
    /\ TypeOf(cap, c, id) = "wl_surface"
    /\ Fail(cap, "parse")
    /\ UNCHANGED enc

-----------------------------------------------------------------------------
(* Connections, the encoder thread and the teardown of the session.        *)

Connect(c) ==
    /\ phase = "run" /\ cap.conn[c] = 0
    /\ c \in ProfileOf(cap).clients /\ cap.conns < ProfileOf(cap).conns
    /\ cap' = proxy_create_session(cap, c)
    /\ UNCHANGED <<phase, why, enc, game>>

\* EPOLLHUP is looked at before EPOLLIN.
Disconnect(c) ==
    /\ phase = "run" /\ cap.conn[c] # 0
    /\ cap' = Ret(proxy_destroy_session(cap, c), "")
    /\ game' = [game EXCEPT ![c] = NoGame]
    /\ UNCHANGED <<phase, why, enc>>

\* The capture thread is cancelled in epoll_wait and runs capture_destroy.  The
\* cancellation points inside handlers (close, sendmsg, recvmsg) are left out.
Cancel == phase = "run" /\ Fail(cap, "cancel") /\ UNCHANGED enc

Retire(st) == [st EXCEPT !.queue = Tail(@), !.retired = Append(@, Head(st.queue))]

\* rbuf_wait_peak_latest: one of the older frames, or the latest.
EncoderSkips ==
    /\ enc = "idle" /\ Len(cap.queue) > 1
    /\ cap' = Retire(cap)
    /\ UNCHANGED <<phase, why, enc, game>>

EncoderPeeks ==
    /\ enc = "idle" /\ cap.queue # << >>
    /\ enc' = "reading"
    /\ UNCHANGED <<cap, phase, why, game>>

EncoderPops ==
    /\ enc = "reading"
    /\ enc' = "idle"
    /\ cap' = Retire(cap)
    /\ UNCHANGED <<phase, why, game>>

\* Cancelled by the teardown, or ended by an error.
EncoderEnds ==
    /\ enc # "gone"
    /\ enc' = "gone"
    /\ UNCHANGED <<cap, phase, why, game>>

\* Mutant: only the entries that were not popped are freed.
DestroyFreesQueue ==
    /\ phase = "gone" /\ enc = "gone"
    /\ phase' = "destroyed"
    /\ cap' = [FreeFrames(cap, cap.queue) EXCEPT !.retired = << >>, !.queue = << >>]
    /\ UNCHANGED <<why, enc, game>>

\* rbuf_destroy in session_teardown: both threads are gone.
RbufDestroy ==
    /\ phase = "gone" /\ enc = "gone"
    /\ phase' = "destroyed"
    /\ cap' = [FreeFrames(cap, cap.retired \o cap.queue) EXCEPT
                  !.retired = << >>, !.queue = << >>]
    /\ UNCHANGED <<why, enc, game>>

\* A profile bounds a run: the capacity of the encode queue (8 in session.c),
\* the clients, the number of connections, for each kind of object the ids at
\* which a client puts it, the ids at which it puts buffers of another size
\* than the session's, and the number of structs kept at once for objects
\* with the same id.
CapInit(profile) ==
    [profile |-> profile,
     heap |-> << >>, fds |-> 0, uaf |-> FALSE, ret |-> "",
     conn |-> [c \in Clients |-> 0], conns |-> 0,
     out |-> [c \in Clients |-> << >>],
     types |-> [c \in Clients |-> wl_map_init("client")],
     data |-> [c \in Clients |-> wl_map_init("client")],
     queue |-> << >>, retired |-> << >>]

Init ==
    /\ \E profile \in DOMAIN Profiles : cap = CapInit(profile)
    /\ phase = "run" /\ why = "" /\ enc = "idle"
    /\ game = [c \in Clients |-> NoGame]

GameStep(c) ==
    \/ CreateSurface(c) \/ CreatePool(c) \/ CreateBuffer(c) \/ CreateParams(c)
    \/ AddPlane(c) \/ CreateImmed(c) \/ CreateLater(c)
    \/ DestroyPool(c) \/ DestroyParams(c) \/ DestroyBuffer(c) \/ DestroySurface(c)
    \/ Attach(c) \/ Commit(c) \/ Feedback(c) \/ Bind(c) \/ OtherRequest(c)

CompositorStep(c) ==
    \/ ServerRelease(c) \/ ServerDeleteId(c) \/ ServerCreated(c)
    \/ OtherEvent(c) \/ ServerPresented(c)

EncoderStep == EncoderSkips \/ EncoderPeeks \/ EncoderPops

Next ==
    \/ \E c \in Clients : Connect(c) \/ Disconnect(c) \/ GameStep(c) \/ CompositorStep(c)
    \/ EncoderStep \/ EncoderEnds \/ Cancel \/ RbufDestroy

Spec == Init /\ [][Next]_vars

-----------------------------------------------------------------------------
(* Properties.                                                             *)

Frames == ToSet(cap.retired \o cap.queue)
Live(kinds) == {p \in DOMAIN cap.heap : cap.heap[p].k \in kinds}

\* Types; a queue stays within its capacity, and a handler's result is used
\* up when the handler ends.
TypeOK ==
    /\ \A p \in DOMAIN cap.heap :
           /\ p \in Structs
           /\ cap.heap[p] \in [k : {"pool", "shm", "dma", "params", "surface"},
                               id : {0} \union Ids, deps : Nat,
                               ref : {NULL} \union Structs, fit : BOOLEAN,
                               fds : 0..MaxPlanes]
    /\ cap.fds \in Nat /\ cap.ret = ""
    /\ cap.conn \in [Clients -> 0..ProfileOf(cap).conns]
    /\ Len(cap.queue) <= ProfileOf(cap).capacity
    /\ \A f \in Frames : f.buf \in Structs /\ f.conn \in 1..ProfileOf(cap).conns
    /\ phase \in {"run", "gone", "destroyed"} /\ enc \in {"idle", "reading", "gone"}
    /\ why \in {"", "cancel", "full", "parse"}

\* No handler, in whatever order the game, the compositor, a disconnect, a
\* cancellation and the teardown call them, touches a struct that was freed,
\* or sends a release to a connection that was destroyed, although frames
\* outlive both (video-output.c free_frame).  The frame the encoder is reading
\* is backed by memory that is still mapped, or by descriptors that are still
\* open, even when the game has destroyed the buffer and its pool, has
\* disconnected, or the capture thread has ended.
NoUseAfterFree ==
    /\ ~cap.uaf
    /\ enc = "reading" =>
          LET b == Head(cap.queue).buf IN
          /\ b \in Live({"shm", "dma"})
          /\ IF At(cap, b).k = "shm" THEN At(cap, b).ref \in Live({"pool"})
                                      ELSE At(cap, b).fds = MaxPlanes

\* The dependents of a buffer are the surfaces it is attached to and its
\* frames, those of a pool its buffers; a struct exists for as long as its
\* object does or something depends on it; each open descriptor has exactly
\* one owner that will close it.
CountsAreReferences ==
    /\ \A b \in Live({"shm", "dma"}) :
           At(cap, b).deps =
               Cardinality({s \in Live({"surface"}) : At(cap, s).ref = b}) +
               Cardinality({i \in DOMAIN (cap.retired \o cap.queue) :
                               (cap.retired \o cap.queue)[i].buf = b})
    /\ \A p \in Live({"pool"}) :
           At(cap, p).deps = Cardinality({b \in Live({"shm"}) : At(cap, b).ref = p})
    /\ \A p \in DOMAIN cap.heap : ~Unused(cap, p)
    /\ cap.fds = MapThenSumSet(LAMBDA p : cap.heap[p].fds, DOMAIN cap.heap)

\* When session_teardown has destroyed the encode queue, nothing the capture
\* module allocated, mapped or duplicated is left, whichever way the capture
\* thread and the encoder ended; until then the counts that decide it are
\* right (CountsAreReferences, TypeOK).
NothingLeft ==
    /\ TypeOK /\ CountsAreReferences
    /\ phase = "destroyed" => cap.fds = 0 /\ DOMAIN cap.heap = {}

\* A client is given each buffer back once per commit, never a buffer it
\* already has, never one that took over the id of the committed one, and not
\* while a frame of the buffer is queued or being read, whatever the
\* compositor releases.
ReleasedOnce ==
    /\ \A c \in Clients : ~game[c].stray
    /\ \A f \in ToSet(cap.queue) : At(cap, f.buf).id # 0 =>
          \E c \in Clients : /\ cap.conn[c] = f.conn
                             /\ At(cap, f.buf).id \in game[c].busy

\* The interface of the client's object, and what the proxy knows of it.
Interface(kind) ==
    CASE kind = "surface" -> "wl_surface"
      [] kind = "pool" -> "wl_shm_pool"
      [] kind \in Buffers -> "wl_buffer"
      [] kind \in {"params", "used", "asked"} -> "zwp_linux_buffer_params_v1"
      [] kind = "feedback" -> "wp_presentation_feedback"
      [] kind = "global" -> "wl_shm"

Knows(c, id) ==
    LET k == game[c].objs[id]
        p == DataOf(cap, c, id)
    IN  /\ TypeOf(cap, c, id) = Interface(k)
        /\ IF k \in {"foreign", "feedback", "global"} THEN p = NULL
           ELSE /\ p # NULL
                /\ At(cap, p).id = id
                /\ At(cap, p).k = IF k \in {"used", "asked"} THEN "params" ELSE k

\* The interface and the data the proxy has for an object are those of the
\* object the client means, through every reuse of an id; a feedback object
\* is the exception (proxy.c:372 gives it the type of the wrong argument).
ObjectsAgree ==
    \A c \in Clients : \A id \in DOMAIN game[c].objs :
        game[c].objs[id] \notin {"none", "zombie", "feedback"} => Knows(c, id)

\* A commit finds the encode queue full, which ends the session, only if more
\* buffers exist than the queue has places, counting those the clients have
\* destroyed but that are still queued: no buffer is ever queued twice.
FullOnlyByTooManyBuffers ==
    [][why = "" /\ why' = "full" => Cardinality(Live({"shm", "dma"})) > ProfileOf(cap).capacity]_vars

\* When the steps that fairness is about can change something.
EncoderCan == enc = "reading" \/ (enc = "idle" /\ cap.queue # << >>)
EventCan(c) == phase = "run" /\ cap.conn[c] # 0 /\ (cap.retired # << >> \/ cap.out[c] # << >>)

\* Weak fairness, with the enabling conditions written out: the encoder
\* thread runs on, and the compositor keeps sending events to a client that
\* is connected.
FairSpec ==
    /\ Spec
    /\ []<>~EncoderCan \/ []<><<EncoderStep>>_vars
    /\ \A c \in Clients : []<>~EventCan(c) \/ []<><<OtherEvent(c)>>_vars

BufferIds == UNION {Profiles[i].shm \union Profiles[i].dma : i \in DOMAIN Profiles}

\* A committed buffer is given back to the game, as long as the client stays
\* connected and the session goes on.
BufferComesBack ==
    \A c \in Clients : \A id \in BufferIds :
        id \in game[c].busy /\ game[c].objs[id] \in {"shm", "dma"}
            ~> id \notin game[c].busy \/ enc = "gone"
=============================================================================
