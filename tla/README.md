# Stratus in TLA+

Stratus streams games from a cluster of nodes to web browsers. This directory
holds TLA+ models of its streaming daemon, its coordination server and the web
client's input loop, the TLC configurations that check them, and TLAPS proofs
about the parts that everything else rests on. Paths below are relative to the
root of the repository.

## The system

| Part | Code | Threads and messages |
| --- | --- | --- |
| Coordination server | `backend/socket`, `backend/routes/playController.ts`, `backend/server.ts` | one event loop; WebSocket messages from nodes, HTTP play requests, a timer per start |
| SideCar | `stratusd/SideCar` | the main thread of every node: heartbeats, start commands, polling of the session |
| Session | `stratusd/SideCar/src/session.c` | starts six threads, cancels and joins them |
| Video path | `stratusd/Capture`, `stratusd/Encode` | a Wayland proxy pushes frames, the encoder pops the latest one |
| libwayland | `stratusd/libs/wayland` | vendored and patched: connections and object maps in the proxy's thread, and the scanner, a program that runs at build time |
| Audio path | `stratusd/CapturePw`, `stratusd/Encode/src/AudioEncode.c` | PipeWire callbacks write frames, the encoder regroups them |
| Transport | `stratusd/Transport` | sends encoded packets, receives input |
| Input | `stratusd/Input` | turns input packets into gamepad events |
| Queues | `stratusd/Common` | `rbuf2.c` (pointers, lock-free) and `ringBuffer.c` (audio frames, mutex) |
| Store, accounts, library | `backend/lib`, `backend/routes` | asynchronous handlers over one JSON file |
| Web client | `frontend` | React hooks and two decoder workers |

A play request reserves a free node in the server's registry and sends it
`start_session`. The SideCar starts a session and confirms; the server answers
the client with the node's address. Heartbeats tell the server which sessions a
node has, and that list replaces the reservation. A session that ends is
reported and torn down.

## Modules

| Module | Models | Notes |
| --- | --- | --- |
| `Rbuf` | `rbuf2.c` | two threads, one shared access per action |
| `RbufContract` | what `rbuf2.h` promises | the abstract bounded queue |
| `RbufProofs` | | theorems about `Rbuf`, and that it implements `RbufContract` |
| `AudioRing` | `ringBuffer.c` | pure operators on a ring, one per function |
| `Audio` | `CapturePw.c`, `AudioEncode.c`, `session_teardown` | extends `AudioRing` |
| `AudioProofs` | | theorems about `Audio` |
| `Link` | the WebSockets (external) | ordered until broken |
| `Backend` | `node.ts`, `sessions.ts`, `send.ts`, `messages.ts`, `server.ts` | one action per handler |
| `SideCar` | `SideCar.c`, `api.c` | one action per branch of the main loop |
| `Cluster` | the three above together | properties of the composition |
| `ClusterProofs` | | theorems about `Cluster` |
| `Input` | `InputStreamVisitor.cpp`, `Input.c`, `gamepad.c` | the node's side of controller input |
| `InputProofs` | | theorems about `Input` |
| `InputClient` | `inputStream.ts` | the web client's polling loop |
| `InputClientProofs` | | theorems about `InputClient` |
| `InputPipeline` | the two models of input together | the client's packets are the node's stream |
| `WlMap` | the object map of `wayland-util.c` | operators |
| `WlConnection` | `connection.c` | operators on a record of two connections |
| `Proxy` | `proxy.c` (data), `resize.c`, the filter of formats | extends `WlConnection`: bytes and descriptors |
| `Capture` | `proxy.c` (objects), `Capture.c`, `shm-buffers.c`, `dma-buffers.c`, `video-output.c` | extends `WlMap`: buffers, frames, releases |
| `Session` | `session.c`, `Encode.c`, `EncodeUtils.c`, `EGLUtils.c`, `Transport.cpp` and its visitors | threads from start to teardown |
| `SessionProofs` | | theorems about `Session` |
| `Scanner` | `scanner.c` | a document, element by element, and what is written for it |
| `Store` | `localStore.ts`, `storeValidation.ts`, the routes that change the store | one action per stretch between awaits |
| `StoreMoves`, `StoreProofs` | | the invariant of `Store` and what requests do to a store; its steps and theorems |
| `MC...` | | constants for TLC |

### Rbuf

`head`, `tail`, `entries` and `sem` are the fields of `struct rbuf`. `ppc` and
`cpc` say where the producer and the consumer are. A pointer is the number of
the push that stored it, so "the right entry" can be said. `live` is the set of
pointers given to the queue and not yet freed. The consumer may use `held` until
it pops. A thread is cancelled only at a cancellation point.

Assumption: stores of one thread become visible in program order, as on the
x86-64 machines the system runs on. The functions use no barriers, and the
comment at `rbuf2.c:138` relies on that order. A free function is taken to have
no cancellation point of its own. `free_frame` does have one, the write of the
release event (`video-output.c:309`); what a cancellation there does is not
modelled.

### Audio

`ring` is `audio_context->ring_buffer`, either absent or a record with the
fields of `struct ring_buffer`. Functions that hold `ring->lock` throughout are
single actions. `pthread_cond_wait` is two states, asleep and woken, so that
lost wake-ups and cancellation inside it are possible. `deadlocked` holds the
mutexes that a cancelled thread took with it. Frames are numbers in the order of
delivery. `dropped_frames` is the counter of `CapturePw.c`.

Left out: sample values, the sample rate, debug output. A format that the
encoder rejects is the branch of `wait_format` that exits. A format that changes
during a session is not modelled.

### Link, Backend, SideCar, Cluster

A connection has a message queue in each direction. When it breaks, each queue
keeps some prefix, and the server's close event comes when the rest has been
handled. A node reconnects on a new connection with the same identity, or exits
and is restarted by systemd.

`nodes` and `order` are the server's `Map` with its insertion order, which
`findNodeByGame` follows. `sessions` gives a session's host. `pending` stands for
both maps of `send.ts`. JavaScript runs a handler to its end, so handlers are
atomic. Time is reduced to three facts that may become true at any moment: a
node's heartbeat is older than two minutes, the hourly cleaning is due, a start
is older than ten seconds.

The SideCar is the release build, where `assert` does nothing. A start command
that finds a session replaces it, and `orphaned` remembers what was replaced.
The server never sends `stop_session`, so that branch of `api_recv` is not
modelled. Crashes of a node and restarts of the server may happen at any time.

### Input, InputClient, InputPipeline

A packet is a sequence of numbers: gamepad index, buttons, axes. An axis is one
number where the wire has four bytes, so chunks end at any position of a packet
all the same. It stands for a float as a part of `AxisUnit`, and the device gets
it scaled to `GAMEPAD_AXIS_RANGE` and cut to an integer; deflections below zero
are left out. `stream` holds what QUIC has and `OnCanRead` has not read; a read
takes any number of bytes, including none. `queue` is the input queue as a
bounded FIFO whose first chunk is the one being parsed. `split` and `lost`
remember whether a read ended inside a packet and whether a chunk was dropped.
`gamepads[i]` is `"wild"` when the pointer is what `malloc` left there. A wild
pointer that is used crashes the process. `device` is what the kernel, and so the
game, sees. `gamepad_init` is two steps, before and after its `usleep`, because
the thread can be cancelled between them.

The client's loop is cut at its awaits: `ReleaseOne`, `PollOne` and `PollVirtual`
compute a packet, `Written` or `WriteFails` is the writer's answer. The player
acts in between. `available` is a set because the source keeps its list sorted
and takes the smallest. Released gamepads are visited in any order. Gamepad
objects are live: a state is read when the packet is computed.

`InputPipeline` identifies the client's `wire` with the node's `sent`; a write is
one step of both. It leaves out failures, unmounting and the end of the session,
which the two modules have.

### WlMap, WlConnection, Proxy

`WlConnection` keeps everything the proxy's thread touches in one record: the
four rings of each connection, what is in the sockets, their room, the table of
descriptors and the first error. A word is `WORD` bytes and a ring `2^POT`, so
that messages wrap, and rings grow and shrink, after a few of them. `sendmsg` and
`recvmsg` move as much as the socket has room for or holds.

`Proxy` is one client of the proxy, with the client, the compositor and the
proxy's thread running concurrently. Each peer follows a script of messages,
writes it in chunks of any size, and may close or reset its end. Another thread
of the process opens a descriptor at some moment, so that a number closed twice
is noticed. The loop of `proxy_handle_data` is cut at its reads, messages and
flushes.

### Capture

`cap` is what the capture thread owns: the two object maps of each client, the
heap of pools, buffers, surfaces and parameters with their `dependents`, open
descriptors, the encode queue, and popped frames not yet freed (`retired`). A
struct is never reused, and touching a freed one sets `uaf`. `game` is what each
client believes: its objects and the buffers it has committed and not got back.
The encoder is the consumer of the queue. The queue behaves as `RbufContract`
says, which is proved for `rbuf2.c`. Handlers are atomic: the encoder reads only
the frame it holds, and cancellation is taken to come between handlers, in
`epoll_wait`. `close`, `sendmsg` and `recvmsg` inside them are cancellation points
too (`dma-buffers.c:194`, `dma-buffers.c:214`); see the deviations below.

A buffer has one plane where the code allows four, and its content is not
modelled. A buffer for the cursor is one whose size does not fit (`misfit`).

### Session

`main` is the SideCar thread in `session_start`, the polling and
`session_teardown`; `ses` the session struct, with the resources that exist and
the pointers set; `enc` the encoder, `tr` the transport loop, `th` the state of
every thread. The capture, audio and input threads are only started, end and are
cancelled here; what they do is in `Capture`, `Audio` and `Input`. A video packet
is its number and whether it is a key frame. `cl` is a client: packets in its
stream's window and packets it has read. The QUIC library calls `OnSessionReady`
in the callback that makes the visitor, and for HTTP/3 never calls
`OnCanCreateNewOutgoingUnidirectionalStream` itself; so the streams are opened
then or not at all, and a profile says whether the client's credit allows it
(`credit`). A profile also chooses what goes wrong: a step of the start, one of
the modules, the game, the client, the SideCar.

### Scanner

A document grows element by element, as expat reports it. `start_element` and
`end_element` follow the parser's pointers. A missing or malformed name, number,
type or value, or a description without a summary, is refused as in the code; then
the chosen output is written as a record of tables, signatures and prototypes, and
the tree is freed. `emit_code` reads the names of `types_all` from the structures
that are still live, one by one, as it frees them. A name is an abstract value:
`Identifiers` and `TrailingParts` say where it is valid, `Beginnings` which names
begin others, the comparison of `find_enumeration`. Signatures stay sequences of
symbols, as the properties read the output the way `connection.c` and `proxy.c`
read the generated code. An element has one description, its first child, as
in the protocol files. The build runs the scanner for `public-code`; the other
modes are modelled because the program has them.

### Store

A request runs alone to its next wait: `mkdir`, the two reads of a load, the
key derivation, the metadata, its turn in the queue of saves, the write. A save
empties the file and then fills it; a crash in between leaves it torn. `marred`
records the three events after which answered requests may be lost: a load that
overlapped another, a failed save (the answer does not tell), a crash in a save.
`before` is the set of requests that were answered when a request came in. Only a
request outside it may undo what another was answered. The `await` of
`getUserByUsername` inside `createUser` (`localStore.ts:202`) is no wait of its
own: the store is loaded, so the promise is settled and the request goes on among
the microtasks of the same event, in which no other request is resumed.

## Runs

`cluster_booking` is expected to fail; all others pass.

| Run | Instance | Shows |
| --- | --- | --- |
| `rbuf` | 3 slots, 5 pushes | `HeldIsLive`; `ImplementsContract`: refinement of `RbufContract`; `WakesUp`: no consumer sleeps beside an entry |
| `audio` | ring of 3, packets of 2, chunks up to 5 | `RingKeepsNewest`, `StreamInOrder`: frames; `NoLostWakeup`, `TeardownCompletes`: threads |
| `cluster` | 2 connections; 1 node and 2 requests, or 2 nodes and 1 request | `TypeOK`, `RecordsAreReserved`, `NoRecordAfterTimeout`, `LostOnlyByOwner`, `NodeAvailableAgain` |
| `input` | packets of 3, queue of 2, 3 packets | `EveryByteInOrder`, `LastPacketShows`, `AtMostOneLeaks` |
| `input_client` | 2 gamepads, 4 changes | `IndexesPartitioned`, `FinalStateIsSent` |
| `input_pipeline` | 2 gamepads, 2 changes, packets of 2 | `NoButtonStuck`, `ReachesTheGame` |
| `proxy` | words of 2 bytes, rings of 16 bytes and 2 descriptors, 5 pairs of scripts | `StreamsIntact`: whole messages and their files, once, in order, with the session's size; `DescriptorsOwned`: closed once, none left; `GarbledOnlyByFullSocket`; `EverythingForwarded` |
| `capture` | 5 sets of objects, ids up to 5, queue of 1 or 2 | `NoUseAfterFree`, `NothingLeft`: memory and counts; `ReleasedOnce`, `BufferComesBack`: releases; `ObjectsAgree`; `FullOnlyByTooManyBuffers` |
| `session` | 2 clients, 3 frames, 13 profiles | `VideoContiguous`, `PacketsDelivered`: the stream; `EncoderLeavesNothing`; `SharedOutlivesThreads`: memory between threads; `SessionEnds`: threads and game |
| `scanner` | 10 profiles of documents | `TreeIntact`: parsing and freeing; `TypesAligned`: signatures and tables; `FunctionsMatchTables`: headers |
| `store` | 4 scripts of 3 requests, 3 initial files, 1 fault | `NoDuplicates`, `AnsweredStays`, `EveryRequestEnds` |
| `cluster_booking` | 1 node, 2 requests | `SingleSession` fails |

Most type invariants are conjuncts of another invariant of their run
(`RingKeepsNewest`, `EveryByteInOrder`, `NothingLeft`, `StreamsIntact`,
`VideoContiguous`, `TreeIntact`, `NoDuplicates`) or listed themselves. What the
proofs establish for every instance and no run needs to repeat is under "What is
proved".

Bounds. Three slots are the least with two usable entries, so that the `_latest`
calls drop one and keep one; pushes are enough for `head` to pass the end twice
or nearly so. A chunk of 5 into a ring of 3 is oversized, wraps and overwrites;
packets of 2 make reads straddle packets. Two connections give a node an old and
a new one; two requests let a second meet what the first left behind. Two nodes
with two connections and one request are enough for one node to affect the
other's record. Three packets of three bytes in a queue of two give chunks that
are partial, whole and multiple, dropped chunks and a full queue. Four
changes let two gamepads connect, the first leave and come back under its old
index.

In `proxy` a few messages fill a ring of 16 bytes and wrap it, strings make it
grow, and six files are three times what one `sendmsg` takes. In `capture` an id
is reused by an object of the same or of another kind while the old one's frame
is queued, two buffers meet a queue of one, and two clients meet one queue. In
`session` a queue of one packet and a window of one make the encoder drop and the
transport retry, and `GopSize` 2 gives key frames and differences in three
frames. Each profile of `scanner` varies what one pass depends on; one gives every
element the names and values that are refused, one has a `wl_display`. Three requests
let two of them load the store at once and a third come in between. Deadlock is
not checked: sessions, documents and scripts end, and in the cluster the bounds on
requests and connections run out.

Fairness. `rbuf`: a thread inside a ring function goes on, as the scheduler
guarantees; nothing obliges a producer to push. `audio`: threads that are not
blocked run, and a cancelled PipeWire loop reaches a cancellation point between
callbacks (strong fairness, as callbacks may keep coming). Frames, spurious
wake-ups and the end of a session are not owed. `cluster`: the heartbeat
timer keeps firing and the server handles what it has received; reconnection,
requests and timers are not owed. `input_pipeline`: the Input thread runs when it
is not blocked, and QUIC delivers what was sent. `input_client` and the pipeline:
the browser calls the loop back (a hidden tab gets no frames, and then nothing is
sent), and a writer gets ready or fails; the player owes nothing. `proxy`: the
proxy's thread runs, and a peer that has not closed goes on sending its script and
reading. `capture`: the encoder goes on, and the compositor keeps sending events
to a client; see the deviations below for why that is needed. `session`: the
SideCar, the encoder and the transport run, a cancelled thread ends, a client
reads its stream, and the QUIC library gets round to reporting a closed session
(strong fairness, since it does so only while the loop waits). `store`: requests and saves go on. `scanner` has safety properties
only. In `cluster` and `proxy` the conditions under which a fair step is enabled
are written out.

## What the violation shows

A heartbeat composed before the start command arrives lists no sessions. The
server takes it as the node's state (`node.ts:56`), which erases the reservation
of `node.ts:73` and prunes the record. The next request gets the same node, whose
SideCar then has two sessions (`SideCar.c:190`).

## Known deviations

The models contain these steps of the code. Properties that would fail because of
them say so as an exception, or are weaker than one might wish.

- The start is confirmed without an address when the node's entry expired between
  the command and the confirmation (`messages.ts:42`).
- `input_main` sets only `gamepads[0]` of a session that comes from `malloc`, and
  that only when its device is made; the first packet of another gamepad compares
  an uninitialised pointer with `NULL` (`Input.c:57`), and so does `input_destroy`
  for a thread that is cancelled in its first `gamepad_init`. `Input` gives the
  pointers every content.
- The Input thread takes only the newest chunk (`Input.c:167`). Events of older
  chunks are not injected, and a packet that straddles a dropped chunk and a kept
  one puts the parser out of step. `EveryByteInOrder` and `LastPacketShows` say
  what does hold.
- `session_teardown` closes the audio ring while the capture thread still runs,
  and the chunks refused then are counted as larger than the ring
  (`CapturePw.c:145-147`).
- A thread cancelled in the `usleep` of `gamepad_init` leaves the device it has
  just created in the kernel (`gamepad.c:136`); `AtMostOneLeaks` says that this is
  the only one.
- `proxy_handle_data` trusts the size in a header although the rest of the
  message may not have arrived (`proxy.c:431-442`). `GarbledOnlyByFullSocket` says
  when that can happen.
- When its own configure event cannot be sent, `xdg_surface_get_toplevel` falls
  through to a second `free` of the array it has freed (`resize.c:66-71`). `Proxy`
  ends the client's session there; an allocator that notices ends the process.
- A capture thread that is cancelled in a `close` inside a handler, after the
  object has left its map (`dma-buffers.c:214`), leaves that object and its other
  descriptors. `Capture` cancels between handlers, and `NothingLeft` holds for
  such cancellations only.
- A release that the capture thread writes for a popped frame leaves only when a
  message of the compositor is forwarded (`Capture.c:63-69`, `proxy.c:449`), so
  `BufferComesBack` rests on the compositor sending events.
- The proxy gives every new object the type of the message's first argument
  (`proxy.c:373`), which is wrong for presentation feedback; `ObjectsAgree`
  excludes those objects.
- After a failed start `session_teardown` destroys again what the error labels
  destroyed (`session.c:299-314`); `SharedOutlivesThreads` is about sessions that
  started.
- A failed dma capture keeps its pixels (`Encode.c:147`), and an encoder cancelled
  in its start-up keeps all it has acquired, the cleanup handler being pushed
  after it (`Encode.c:242`); `EncoderLeavesNothing` allows both.
- A game whose child process has not reached `setpgid` is not killed with the
  session (`session.c:101`, `session.c:184`); `SessionEnds` allows it.
- A message with an untyped `new_id` has fewer places in the scanner's table than
  arguments in its signature; `TypesAligned` excludes it.
- A client whose credit allows no stream when its session starts gets no video: the
  streams are not tried again, and the transport keeps submitting the same packet
  (`StratusWebTransportSessionVisitor.cpp:42`). `PacketsDelivered` excludes it.
- Two bootstraps under different names that are both under way before an account
  exists both succeed, as `hasUsers` is asked before the password is hashed
  (`authController.ts:305-313`). The model has this; `NoDuplicates` excludes only
  equal names, and `AnsweredStays` only a bootstrap that comes after an answer.
- The store can be loaded twice, a failed save is answered as a success, and a
  crash in a save loses the file (`localStore.ts:85-124`); `AnsweredStays` says
  that nothing else loses an answered request.

## What is proved

### rbuf

`RbufProofs`, for every `Size >= 2` and every number of pushes:

| Theorem | Statement |
| --- | --- |
| `RingInvariant` | `Spec => []Inv` |
| `TypeCorrect` | `Spec => []TypeOK` |
| `HeldEntryIsLive` | `Spec => []HeldIsLive` |
| `NoEntryLeaks` | `Spec => []NoLeak` |
| `AssertionsHold` | `Spec => []PeakFindsEntry` |
| `RingImplementsContract` | `Spec => ImplementsContract` |

The assumptions are `SizeAssumption` and `MaxPushAssumption` of `Rbuf`.
`session.c` creates rings of 4 to 64 entries.

`HeldIsLive` is not inductive: it says nothing of entries that are not held yet,
nor of where `rbuf_free_expired` is. `Inv` speaks of slots by their offset from
`head`: offset 0 is where the next push goes, then come popped slots, then queued
ones. It says which push a slot's entry is from (`OrderInv`), that queued slots
are filled (`QueuedInv`), and that among popped slots the freed ones come first
(`ExpiredInv`), which is why looking at `entries[tail]` is enough to know whether
there is anything to free. `ProducerInv` and `ConsumerInv` place the two threads:
the scan has cleared the offsets below `i` and never passes the oldest queued
entry, because the consumer can only make the popped region longer. `SemInv`
accounts for the units the two threads have in hand. The lemmas before `NextInv`
say how offsets move when `head` or `tail` advances modulo `Size`; most actions
leave all of the ring's words alone and share one lemma.

The refinement rests on one consequence of `Inv`: the abstract queue, which the
mapping reads from the slots between `tail` and `head`, is the run of numbers
`popped + 1 .. pushed` (`QueueValue`). A push appends the next number, a pop takes
the first one away, and every other step leaves both ends alone.

### The client's input loop

`InputClientProofs`, for every finite set of gamepads, numbered by the browser,
and every set of states:

| Theorem | Statement |
| --- | --- |
| `LoopInvariant` | `Spec => []IInv` |
| `ClientTypeCorrect` | `Spec => []TypeOK` |
| `IndexesNeverShared` | `Spec => []IndexesPartitioned` |
| `IndexesBounded` | `Spec => []IndexesStayLow` |
| `NothingStaysHeld` | `Spec => []NothingHeld` |

The assumptions are `PadsAssumption`, `StatesAssumption` and
`MaxChangesAssumption` of `InputClient`.

`NothingHeld` speaks of the loop between two frames and is not inductive. `IInv`
follows the three passes of a frame. In the first (`ReleaseInv`) every gamepad
that has an index and is not connected is still to be visited or in hand, and
the one in hand has had its neutral packet recorded before its index is freed.
In the second (`PollInv`) only connected gamepads have an index, and the packet
that waits for the writer carries the index of the gamepad it was computed for. In
the third (`VirtualInv`) none has one. `HeldInv` is what holds throughout: an
index whose last packet is not neutral belongs to a gamepad, or is index 0 while
none has an index. `IndexesStayLow` follows because a new index is the least free
one, or the number of those in use when none is free.

### The cluster

`ClusterProofs`, for any nodes, connections, games and number of requests:

| Theorem | Statement |
| --- | --- |
| `ClusterInvariant` | `Spec => []ClusterInv` |
| `RecordsReserved` | `Spec => []RecordsAreReserved` |
| `TimeoutLeavesNothing` | `Spec => []NoRecordAfterTimeout` |
| `EntriesUnique` | `Spec => []OneEntryPerNode` |
| `AnswersFinal` | `Spec => AnsweredOnce` |
| `RecordsLostByOwner` | `Spec => LostOnlyByOwner` |
| `ClusterTypeCorrect` | `Spec => []TypeOK` |

The assumptions are `BackendAssumption` of `Backend` (a node has a hostname) and
`ConnsAssumption` of `Link`.

A heartbeat replaces what the server believes of a node, and the news that a
session ended deletes a record by its number alone. That neither touches another
node's record depends on what was on its way when a connection broke or the
server restarted. `Traffic` says it: every message of a node, every command to it
and its active session name sessions that were requested and that no other
machine has a record of (`Known`). `Known` only grows, because a record is made
once, when its request is, and is then deleted and never moved (`KnownGrows`).
`RecordsAreReserved` needs in addition that a heartbeat lists one session at
most, and that deleting an entry deletes its host's records (`WithoutFacts`).
`RequestInv` says that a request that waits has no answer, from which
`AnswersFinal` follows. None of this depends on the insertion order of the map,
which only decides which free node is taken. `TypeOK` adds that the order lists
the registered connections, each once (`OrderInv`). Deletions from the map are a
recursive function over the order, and `OrderWithoutLists` shows by induction
what it computes.

### The audio path

`AudioProofs`, for every capacity of the ring, size of an Opus frame and size of a
chunk (`CapacityAssumption` of `AudioRing`, `AudioAssumption` of `Audio`: they are
not zero):

| Theorem | Statement |
| --- | --- |
| `Invariant` | `Spec => []IInv` |
| `NewestRetained` | `Spec => []RingKeepsNewest` |
| `FramesInOrder` | `Spec => []StreamInOrder` |
| `WakeupsArrive` | `Spec => []NoLostWakeup` |

`RingOK(r, w)` says what a ring holds after `w` frames. The unread slots hold the
newest frames in their order, counted from `read_pos` round the end. Every
function of `ringBuffer.c` keeps it, oversized and wrapped writes included. `IInv`
adds that whoever uses the ring finds it there (`RingThere`, `Teardown`). That
comes from `session_teardown` joining both threads before it destroys the ring.
`Stream` says that the frames taken are increasing over the three places they can
be in, and none is newer than what the ring has given away.

### The session

`SessionProofs`, for any clients, profiles, capacity of the video queue, stream
window and length of a group of pictures (`SessionAssumption`):

| Theorem | Statement |
| --- | --- |
| `Invariant` | `Spec => []IInv` |
| `StreamIsContiguous` | `Spec => []VideoContiguous` |
| `EncoderFreesItsPieces` | `Spec => []EncoderLeavesNothing` |
| `NothingDestroyedInUse` | `Spec => []SharedOutlivesThreads` |

`ThreadsInv`: all that is shared exists before the first thread, and the teardown
comes to its destroy calls when no thread runs. `VisitorInv`: the transport loop
looks at `is_active` between the callback that closes the session and its next use
of the visitor. `StreamInv`: nothing is encoded before there is a visitor, and
there is one only, so what the client has, its stream and the queue together hold
are the encoder's packets from the first on (`Packets`).

### The node's side of input

`InputProofs`, for packets of any length and number, a queue of any capacity and
any number of gamepads (`CountsAssumption`, `MaxGamepadsAssumption`,
`QueueSizeAssumption`, `PacketsAssumption` and `BoundsAssumption` of `Input`):

| Theorem | Statement |
| --- | --- |
| `InputInvariant` | `Spec => []IInv` |
| `BytesInOrder` | `Spec => []EveryByteInOrder` |
| `OneDeviceLeaks` | `Spec => []AtMostOneLeaks` |
| `LastPacketIsShown` | `Spec => []LastPacketShows` |

`IInv` has the place of the thread and what it holds there (`ThreadInv`), that it
has the pointer of every device but the one it is creating (`DevicesInv`), and that
what was sent is what was injected, is in flight, buffered, queued and unread, in
that order (`Bytes`). The streams are compared with `Joined`, which is recursive;
the first sections prove what it does at either end of a sequence.

`LastPacketShows` needs more, as chunks are thrown away. `PacketsInv` holds while no
read ended inside a packet. There are places in `sent` for the packets handled,
increasing, and for both ends of every chunk of the queue, so that a chunk is a run
of whole packets (`Packs`). Chunks come in order after the packet in hand. As long
as no chunk was empty or found the queue full, the last of them ends where the
reads ended (`Newest`), so dropping older chunks never drops the newest packet.
`ShownInv` says that a device shows the last packet handled for it. When all is
read the two meet: the last packet handled is the last one sent.

### The store

`StoreMoves` and `StoreProofs`, for any records, seed games, initial files and
scripts of requests:

| Theorem | Statement |
| --- | --- |
| `StoreInvariant` | `Spec => []IInv` |
| `RecordsAreUnique` | `Spec => []NoDuplicates` |
| `AnswersAreKept` | `Spec => []AnsweredStays` |

The assumptions of `Store` are that a valid record is not the invalid one
(`ItemsAssumption`), that the disk holds no duplicates before the server runs
(`SeedAssumption`, `FilesAssumption`), and that the identifier of a created game,
which comes from `randomUUID`, is nobody else's (`ScriptsAssumption`).

`NoDuplicates` needs `CleanInv`: an identifier that is still to be made is in no
store, neither in memory, in the file nor in the text of a save under way.
`AnsweredStays` needs to know of a change before it is answered. `MemoryKeeps` says
that memory holds what every request that has changed it will be answered,
`SaveKeeps` that the save under way writes what has been answered and what it will
answer, `LastSaveIsStore` that the last save in the queue writes the store in
memory. `LateBootstrap` is the argument for a bootstrap whose password is hashed
while another account is made. These hold as long as `marred` is empty.

### Induction

The provers cannot use the library's induction theorems. Where a proof needs
induction over data (`Joined` and `Packs`, the validation of a file, the order of
the server's map) it takes the least number for which the claim fails, which
exists by well-foundedness (`LeastNumber`), and shows that it does not.

### Only model-checked

- Liveness under fairness, and everything that rests on `ENABLED`.
- `NoButtonStuck` of `InputPipeline`. It spans both sides of input: it would need
  the invariants of `Input` and `InputClient` together, and that the client's wire
  can be cut into packets in one way only.
- The properties of `Capture`, `Proxy` and `Scanner`. What their code does in a
  loop over data (flushing and reading a connection, copying the arguments of a
  message, freeing frames and objects, writing a signature) are recursive
  operators there, which the provers do not take.

## Not modelled

- Code outside the repository: QUICHE, the codec, EGL, Opus, PipeWire, uinput,
  expat, the browser's interfaces. The models have what the code can see of them.
- The Steam launcher: every game is registered with `appid` 0, so its branch is
  never taken.
- Failures while the proxy or one of its clients is being created
  (`proxy.c:238`, `Capture.c:177`), and a format of the audio stream that changes
  during a session (`CapturePw.c:196`).
- Allocation failure in `input_main`, beyond the outcomes of using the freed
  session (`Input.c:161`); the scan of the game directories in a heartbeat
  (`SideCar.c:128`), which is data.
- The rest of libwayland: the functions of clients and compositors, cursors and
  the event loop, which stratusd does not call.
- The requests to Steam and Docker, login and tokens, the rate limiter.
- Of the web client all but controller input: the rest is mostly decoders,
  workers and rendering.
- Installation, packaging and the OS image; the restart policies they set are
  used in `SideCar` and `Backend`.

`PROJECT.json` gives the reason for each part.
