-------------------------------- MODULE Input --------------------------------
(***************************************************************************)
(* Controller input on the streaming node: the Transport thread reads the  *)
(* client's input stream in chunks (InputStreamVisitor.cpp), queues each   *)
(* chunk, and the Input thread (Input.c, gamepad.c) cuts the bytes into    *)
(* packets and writes them to virtual gamepads.                            *)
(*                                                                         *)
(* A packet is a sequence of numbers: the gamepad's index, the buttons,    *)
(* the axes.  An axis is one number here, a part of AxisUnit for the float *)
(* between 0 and 1.  The queue is a bounded FIFO; Rbuf models its memory   *)
(* accesses.                                                               *)
(***************************************************************************)
EXTENDS Integers, Sequences

CONSTANTS ButtonCount,   \* GAMEPAD_BUTTON_COUNT
          AxisCount,     \* GAMEPAD_AXIS_COUNT
          GAMEPAD_AXIS_RANGE,  \* the device's number for a full deflection
          AxisUnit,      \* the client's number for a full deflection
          MAX_GAMEPADS,  \* virtual gamepads a session can have
          QueueSize,     \* capacity of the input queue
          Packets,       \* packets the client may send
          MaxSent,       \* bound on the packets sent
          MaxEmpty       \* bound on the reads that find no byte

INPUT_PKT_LENGTH == 1 + ButtonCount + AxisCount

ASSUME CountsAssumption == ButtonCount \in Nat /\ AxisCount \in Nat
ASSUME AxisAssumption == GAMEPAD_AXIS_RANGE \in Nat /\ AxisUnit \in Nat \ {0}
ASSUME MaxGamepadsAssumption == MAX_GAMEPADS \in Nat \ {0}
ASSUME QueueSizeAssumption == QueueSize \in Nat \ {0}
ASSUME PacketsAssumption ==
    /\ Packets \subseteq Seq(Nat)
    /\ \A p \in Packets : Len(p) = INPUT_PKT_LENGTH
ASSUME BoundsAssumption == MaxSent \in Nat /\ MaxEmpty \in Nat

VARIABLES
    sent,      \* packets written by the client, in order
    stream,    \* bytes of the stream that Transport has not read
    queue,     \* chunks in the input queue; the first is the one in use
    empties,   \* reads that found no byte
    split,     \* some read ended inside a packet
    lost,      \* how chunks were lost: "old" (popped unread), "full" (not queued)
    active,    \* args->is_active
    tpc,       \* where the Input thread is
    buffer,    \* session->msg_buffer, msg_buffer_len bytes of it
    event,     \* the packet given to input_recv_event
    resume,    \* where input_recv_raw goes on after the event
    gamepads,  \* session->gamepads: "null", "open", or "wild" when never set
    device,    \* state of the kernel's uinput devices, Closed if there is none
    injected   \* packets input_recv_event has handled

transportVars == <<sent, stream, empties, split>>
threadVars == <<buffer, event, resume, gamepads, device, injected>>
vars == <<transportVars, queue, lost, active, tpc, threadVars>>

Indexes == 0 .. MAX_GAMEPADS - 1
Closed == <<>>
Neutral == [k \in 1 .. ButtonCount + AxisCount |-> 0]

\* input_session comes from malloc, and only gamepads[0] is assigned, when its
\* device is made.
Init ==
    /\ sent = <<>> /\ stream = <<>> /\ queue = <<>>
    /\ empties = 0 /\ split = FALSE /\ lost = {}
    /\ active = TRUE
    /\ tpc = "start"
    /\ buffer = <<>> /\ event = <<>> /\ resume = "copy"
    /\ gamepads \in [Indexes -> {"null", "wild"}]
    /\ device = [i \in Indexes |-> Closed]
    /\ injected = <<>>

-----------------------------------------------------------------------------
(* The client and the Transport thread *)

\* The client writes one packet to its input stream.
ClientSends(p) ==
    /\ Len(sent) < MaxSent
    /\ sent' = Append(sent, p)
    /\ stream' = stream \o p
    /\ UNCHANGED <<queue, empties, split, lost, active, tpc, threadVars>>

\* rbuf_push, whose result OnCanRead ignores: a full queue loses the chunk.
rbuf_push(chunk) ==
    \/ /\ Len(queue) < QueueSize
       /\ queue' = Append(queue, chunk)
       /\ UNCHANGED lost
    \/ /\ Len(queue) = QueueSize
       /\ lost' = lost \union {"full"}
       /\ UNCHANGED queue

\* InputStreamVisitor::OnCanRead takes the n bytes that have arrived.
OnCanRead(n) ==
    /\ n \in 0 .. Len(stream)
    /\ n = 0 => empties < MaxEmpty
    /\ empties' = IF n = 0 THEN empties + 1 ELSE empties
    /\ rbuf_push(SubSeq(stream, 1, n))
    /\ stream' = SubSeq(stream, n + 1, Len(stream))
    /\ split' = (split \/ Len(stream') % INPUT_PKT_LENGTH # 0)
    /\ UNCHANGED <<sent, active, tpc, threadVars>>

\* session_teardown tells the threads to stop.
StopSession ==
    /\ active
    /\ active' = FALSE
    /\ UNCHANGED <<transportVars, queue, lost, tpc, threadVars>>

-----------------------------------------------------------------------------
(* The Input thread *)

\* Mutant: input_destroy skips gamepads[0].
input_destroy_skips_first ==
    \/ /\ \A i \in Indexes : gamepads[i] # "wild"
       /\ device' = [i \in Indexes |-> IF gamepads[i] = "open" /\ i > 0
                                       THEN Closed ELSE device[i]]
       /\ tpc' = "exited"
    \/ /\ \E i \in Indexes : gamepads[i] = "wild"
       /\ tpc' = "crashed"
       /\ UNCHANGED device

\* Destroys every gamepad whose pointer is not NULL; one that was never set
\* is a wild pointer for libevdev_uinput_destroy.
input_destroy ==
    \/ /\ \A i \in Indexes : gamepads[i] # "wild"
       /\ device' = [i \in Indexes |-> IF gamepads[i] = "open"
                                       THEN Closed ELSE device[i]]
       /\ tpc' = "exited"
    \/ /\ \E i \in Indexes : gamepads[i] = "wild"
       /\ tpc' = "crashed"
       /\ UNCHANGED device

\* gamepad_init until its usleep: the kernel device exists, and the caller
\* does not have the pointer yet.
gamepad_init(i) ==
    /\ device' = [device EXCEPT ![i] = Neutral]
    /\ tpc' = "settle"

\* input_main up to its first gamepad_init, for gamepad 0.
input_main ==
    /\ tpc = "start"
    /\ event' = <<0>>
    /\ resume' = "loop"
    /\ gamepad_init(0)
    /\ UNCHANGED <<transportVars, queue, lost, active, buffer, gamepads, injected>>

\* malloc fails, and input_main returns before there is anything to clean up.
input_main_malloc_fails ==
    /\ tpc = "start"
    /\ tpc' = "exited"
    /\ UNCHANGED <<transportVars, queue, lost, active, threadVars>>

\* The first gamepad_init fails: input_main frees the session, and the cleanup
\* handler walks it and frees it again.
input_main_init_fails ==
    /\ tpc = "start"
    /\ tpc' \in {"exited", "crashed"}
    /\ UNCHANGED <<transportVars, queue, lost, active, threadVars>>

\* gamepad_init returns, and the pointer is stored.  For a packet, the handling
\* goes on with gamepad_update.
GamepadReady ==
    /\ tpc = "settle"
    /\ gamepads' = [gamepads EXCEPT ![event[1]] = "open"]
    /\ \/ /\ resume = "loop"
          /\ tpc' = "loop"
          /\ event' = <<>>
       \/ /\ resume # "loop"
          /\ tpc' = "event"
          /\ UNCHANGED event
    /\ UNCHANGED <<transportVars, queue, lost, active,
                   buffer, resume, device, injected>>

\* while (args->is_active); afterwards the thread sleeps until it is cancelled.
LoopTest ==
    /\ tpc = "loop"
    /\ tpc' = IF active THEN "wait" ELSE "done"
    /\ UNCHANGED <<transportVars, queue, lost, active, threadVars>>

\* rbuf_wait_peak_latest sleeps until there is a chunk.
WaitChunk ==
    /\ tpc = "wait"
    /\ queue # <<>>
    /\ tpc' = "old"
    /\ UNCHANGED <<transportVars, queue, lost, active, threadVars>>

\* Mutant: the oldest chunk is the one that is kept.
PopOldKeepsOldest ==
    /\ tpc = "old"
    /\ \/ /\ Len(queue) > 1
          /\ queue' = SubSeq(queue, 1, Len(queue) - 1)
          /\ lost' = lost \union {"old"}
          /\ UNCHANGED tpc
       \/ /\ Len(queue) = 1
          /\ tpc' = "direct"
          /\ UNCHANGED <<queue, lost>>
    /\ UNCHANGED <<transportVars, active, threadVars>>

\* _rbuf_pop_old drops chunks until one is left, and _rbuf_peak takes that.
PopOld ==
    /\ tpc = "old"
    /\ \/ /\ Len(queue) > 1
          /\ queue' = Tail(queue)
          /\ lost' = lost \union {"old"}
          /\ UNCHANGED tpc
       \/ /\ Len(queue) = 1
          /\ tpc' = "direct"
          /\ UNCHANGED <<queue, lost>>
    /\ UNCHANGED <<transportVars, active, threadVars>>

\* The bytes of the chunk in use that are not parsed yet: msg->data, msg->length.
msg == queue[1]

\* Consumes n bytes of the chunk in use.
Consume(n) == queue' = [queue EXCEPT ![1] = SubSeq(@, n + 1, Len(@))]

\* Mutant: a packet is parsed in place although the buffer holds a part of one.
RecvDirectAlways ==
    /\ tpc = "direct"
    /\ \/ /\ Len(msg) >= INPUT_PKT_LENGTH
          /\ event' = SubSeq(msg, 1, INPUT_PKT_LENGTH)
          /\ Consume(INPUT_PKT_LENGTH)
          /\ resume' = "copy"
          /\ tpc' = "event"
       \/ /\ Len(msg) < INPUT_PKT_LENGTH
          /\ tpc' = "copy"
          /\ UNCHANGED <<queue, event, resume>>
    /\ UNCHANGED <<transportVars, lost, active, buffer, gamepads, device, injected>>

\* First part of input_recv_raw's loop: a whole packet is parsed in place.
RecvDirect ==
    /\ tpc = "direct"
    /\ \/ /\ buffer = <<>> /\ Len(msg) >= INPUT_PKT_LENGTH
          /\ event' = SubSeq(msg, 1, INPUT_PKT_LENGTH)
          /\ Consume(INPUT_PKT_LENGTH)
          /\ resume' = "copy"
          /\ tpc' = "event"
       \/ /\ buffer # <<>> \/ Len(msg) < INPUT_PKT_LENGTH
          /\ tpc' = "copy"
          /\ UNCHANGED <<queue, event, resume>>
    /\ UNCHANGED <<transportVars, lost, active, buffer, gamepads, device, injected>>

\* Second part: bytes are copied to the buffer until it is full or the chunk
\* ends; a full buffer is a packet, and the buffer is empty again.
RecvCopy ==
    /\ tpc = "copy"
    /\ LET room == INPUT_PKT_LENGTH - Len(buffer)
           n == IF Len(msg) < room THEN Len(msg) ELSE room
           filled == buffer \o SubSeq(msg, 1, n)
       IN  /\ Consume(n)
           /\ \/ /\ n = room
                 /\ event' = filled
                 /\ buffer' = <<>>
                 /\ tpc' = "event"
              \/ /\ n < room
                 /\ buffer' = filled
                 /\ tpc' = "end"
                 /\ UNCHANGED event
    /\ resume' = "end"
    /\ UNCHANGED <<transportVars, lost, active, gamepads, device, injected>>

\* End of the loop: when the chunk is used up, input_main pops it.
RecvEnd ==
    /\ tpc = "end"
    /\ \/ /\ msg = <<>>
          /\ queue' = Tail(queue)
          /\ tpc' = "loop"
       \/ /\ msg # <<>>
          /\ tpc' = "direct"
          /\ UNCHANGED queue
    /\ UNCHANGED <<transportVars, lost, active, threadVars>>

\* A float times the range, cut to an int.
AxisValue(v) == (v * GAMEPAD_AXIS_RANGE) \div AxisUnit

\* The state a packet carries: buttons are booleans in struct gamepad_state.
GamepadState(p) ==
    [k \in DOMAIN Neutral |->
        IF k <= ButtonCount THEN (IF p[k + 1] # 0 THEN 1 ELSE 0) ELSE AxisValue(p[k + 1])]

\* Mutant: only what is pressed or off centre is written.
gamepad_update_pressed(old, new) ==
    [k \in DOMAIN Neutral |-> IF new[k] # 0 THEN new[k] ELSE old[k]]

\* gamepad_update writes what is pressed or off centre, or was before.
gamepad_update(old, new) ==
    [k \in DOMAIN Neutral |-> IF new[k] # 0 \/ old[k] # 0 THEN new[k] ELSE old[k]]

\* The device's index in the packet, and whether there may be such a gamepad.
idx == event[1]
Legal(p) == p[1] < MAX_GAMEPADS

\* input_recv_event returns 0: the packet has been dealt with.
EventDone ==
    /\ injected' = Append(injected, event)
    /\ event' = <<>>
    /\ tpc' = resume

\* A packet with an illegal index is dropped.
DropIllegal ==
    /\ tpc = "event" /\ ~Legal(event)
    /\ EventDone
    /\ UNCHANGED <<transportVars, queue, lost, active, buffer, resume, gamepads, device>>

\* The first packet of a gamepad creates it.
CreateGamepad ==
    /\ tpc = "event" /\ Legal(event) /\ gamepads[idx] = "null"
    /\ gamepad_init(idx)
    /\ UNCHANGED <<transportVars, queue, lost, active,
                   buffer, event, resume, gamepads, injected>>

\* The packet reaches its gamepad.
UpdateGamepad ==
    /\ tpc = "event" /\ Legal(event) /\ gamepads[idx] = "open"
    /\ device' = [device EXCEPT ![idx] = gamepad_update(@, GamepadState(event))]
    /\ EventDone
    /\ UNCHANGED <<transportVars, queue, lost, active, buffer, resume, gamepads>>

\* A pointer that was never set is passed to gamepad_update.
UpdateWild ==
    /\ tpc = "event" /\ Legal(event) /\ gamepads[idx] = "wild"
    /\ tpc' = "crashed"
    /\ UNCHANGED <<transportVars, queue, lost, active, threadVars>>

\* gamepad_init or an event write fails: input_recv_event returns -1, and
\* input_main ends with the cleanup handler.
EventFails ==
    /\ tpc = "event" /\ Legal(event) /\ gamepads[idx] # "wild"
    /\ input_destroy
    /\ UNCHANGED <<transportVars, queue, lost, active,
                   buffer, event, resume, gamepads, injected>>

\* session_teardown cancels the thread.  Every state from the first gamepad on
\* has a cancellation point: usleep in gamepad_init, the sem_wait of the queue's
\* calls, the device writes, printf, and the final sleep.
Cancel ==
    /\ ~active
    /\ tpc \in {"settle", "wait", "old", "direct", "copy", "event", "end", "done"}
    /\ input_destroy
    /\ UNCHANGED <<transportVars, queue, lost, active,
                   buffer, event, resume, gamepads, injected>>

-----------------------------------------------------------------------------

ThreadStep ==
    \/ input_main
    \/ GamepadReady
    \/ LoopTest
    \/ WaitChunk
    \/ PopOld
    \/ RecvDirect
    \/ RecvCopy
    \/ RecvEnd
    \/ DropIllegal
    \/ CreateGamepad
    \/ UpdateGamepad
    \/ UpdateWild

Failure ==
    \/ input_main_malloc_fails
    \/ input_main_init_fails
    \/ EventFails

Next ==
    \/ \E p \in Packets : ClientSends(p)
    \/ \E n \in 0 .. Len(stream) : OnCanRead(n)
    \/ StopSession
    \/ ThreadStep
    \/ Failure
    \/ Cancel

Spec == Init /\ [][Next]_vars

-----------------------------------------------------------------------------
(* Properties *)

\* Types; the reassembly buffer never holds a whole packet, and the queue
\* stays within its capacity.
TypeOK ==
    /\ sent \in Seq(Packets) /\ Len(sent) <= MaxSent
    /\ Len(queue) <= QueueSize
    /\ empties \in 0 .. MaxEmpty
    /\ lost \subseteq {"old", "full"}
    /\ split \in BOOLEAN /\ active \in BOOLEAN
    /\ tpc \in {"start", "settle", "loop", "wait", "old", "direct", "copy",
                "event", "end", "done", "exited", "crashed"}
    /\ Len(buffer) < INPUT_PKT_LENGTH
    /\ resume \in {"loop", "copy", "end"}
    /\ gamepads \in [Indexes -> {"null", "open", "wild"}]
    /\ \A i \in Indexes : device[i] = Closed \/ DOMAIN device[i] = DOMAIN Neutral

\* All that was sent has been read, and the thread waits for more.
Quiet == stream = <<>> /\ queue = <<>> /\ tpc = "wait"

\* The bytes of the packet that input_recv_event is working on.
InFlight == IF resume = "loop" THEN <<>> ELSE event

\* The bytes of packets or chunks, one after the other.
Joined(parts) ==
    LET upto[n \in 0 .. Len(parts)] == IF n = 0 THEN <<>> ELSE upto[n - 1] \o parts[n]
    IN  upto[Len(parts)]

\* Whatever the sizes of the chunks, input_recv_raw loses, repeats and reorders
\* no byte of the chunks it is given: as long as no chunk was lost before it,
\* the packets handled, the packet in hand, the buffer, the queue and the unread
\* stream are together what the client sent.  The buffer never holds a whole
\* packet between two steps (TypeOK).
EveryByteInOrder ==
    /\ TypeOK
    /\ lost = {} => Joined(sent) =
          Joined(injected) \o InFlight \o buffer \o Joined(queue) \o stream

\* rbuf_wait_peak_latest throws away chunks, but when no read ends inside a
\* packet what input_recv_event gets are packets of the client in their order.
\* The chunk it keeps is the newest: when all is read, none of the chunks is
\* empty and none found the queue full, the last packet sent is what its device
\* shows.
LastPacketShows ==
    LET last == sent[Len(sent)] IN
    ~split =>
        /\ \E at \in [DOMAIN injected -> DOMAIN sent] :
              /\ \A k \in DOMAIN injected : injected[k] = sent[at[k]]
              /\ \A k, l \in DOMAIN injected : k < l => at[k] < at[l]
        /\ Quiet /\ empties = 0 /\ "full" \notin lost /\ sent # <<>> /\ Legal(last)
              => device[last[1]] = GamepadState(last)

\* input_destroy closes every device but the one that gamepad_init was still
\* creating when the thread was cancelled.
AtMostOneLeaks ==
    tpc = "exited" => \A i, j \in Indexes :
        device[i] # Closed /\ device[j] # Closed => i = j

=============================================================================
