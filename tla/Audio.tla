------------------------------- MODULE Audio -------------------------------
(***************************************************************************)
(* The audio path of a stream session: the PipeWire capture thread         *)
(* (CapturePw.c) writes frames into the ring of AudioRing, the encoder     *)
(* thread (AudioEncode.c) regroups them into Opus frames, and the thread   *)
(* of session.c tears both down.                                           *)
(*                                                                         *)
(* An action is a critical section, or a step that touches one shared      *)
(* word.  Frames are numbered in the order PipeWire delivers them.         *)
(* PipeWire negotiates one format: a second call of                        *)
(* on_stream_param_changed announces the same one.                         *)
(***************************************************************************)
EXTENDS AudioRing

CONSTANTS FrameSize,   \* frames per Opus packet
          MaxChunk,    \* frames PipeWire delivers at once, at most
          MaxFrames    \* bound on the frames delivered while a client listens

ASSUME AudioAssumption ==
    FrameSize \in Nat \ {0} /\ MaxChunk \in Nat \ {0} /\ MaxFrames \in Nat

VARIABLES
    is_active, client_connected, \* session_args
    ring,                        \* audio_context->ring_buffer
    format_ready,                \* audio_context->format_ready
    cpc,                         \* where the capture thread is
    running, dropped_frames,     \* struct capture_pw_session
    delivered,                   \* frames delivered while a client listens
    written,                     \* number of the newest frame the ring took
    epc,                         \* where the encoder thread is
    frame_data,                  \* frames read and not yet copied
    pending_frame,               \* the Opus frame being filled
    encoded,                     \* frames handed to Transport, in order
    tpc, nth,                    \* where session_teardown is
    deadlocked                   \* mutexes a cancelled thread died holding

sessionVars == <<is_active, tpc, nth>>
captureVars == <<cpc, running, dropped_frames, delivered, written>>
encoderVars == <<epc, frame_data, pending_frame, encoded>>
vars == <<sessionVars, client_connected, ring, format_ready, captureVars,
          encoderVars, deadlocked>>

NoRing == [NULL |-> TRUE]

\* enum threads: the order in which session_teardown cancels and joins.
ThreadOrderReversed == <<"encoder", "capture">>
ThreadOrder == <<"capture", "encoder">>

\* pthread_cancel has been called on the thread.
Cancelled(thread) == tpc = "join" /\ ThreadOrder[nth] = thread

Init ==
    /\ is_active = TRUE /\ client_connected = FALSE
    /\ ring = NoRing /\ format_ready = FALSE
    /\ cpc = "start" /\ running = FALSE /\ dropped_frames = 0
    /\ delivered = 0 /\ written = 0
    /\ epc = "format" /\ frame_data = << >> /\ pending_frame = << >>
    /\ encoded = << >>
    /\ tpc = "run" /\ nth = 1
    /\ deadlocked = {}

\* Transport sets the flag that on_process reads.
ClientConnects ==
    /\ is_active /\ ~client_connected
    /\ client_connected' = TRUE
    /\ UNCHANGED <<sessionVars, ring, format_ready, captureVars, encoderVars, deadlocked>>

\* pthread_cond_signal and pthread_cond_broadcast: one thread waits on each.
Wake == epc' = IF epc = "read_wait" THEN "read_woken" ELSE epc
WakeFormat == epc' = IF epc = "format_wait" THEN "format_woken" ELSE epc

\* Mutant: the ring is marked closed and the reader is not woken.
close_silently ==
    /\ "ring" \notin deadlocked
    /\ ring' = IF ring = NoRing THEN ring ELSE ring_buffer_close(ring)
    /\ UNCHANGED epc

\* ring_buffer_close on audio_context->ring_buffer, if there is one.
close_ring ==
    IF ring = NoRing THEN UNCHANGED <<ring, epc>>
    ELSE /\ "ring" \notin deadlocked
         /\ ring' = ring_buffer_close(ring)
         /\ Wake

-----------------------------------------------------------------------------
(* The capture thread *)

\* capture_pw_main up to the main loop; PipeWire may refuse.
capture_pw_main ==
    /\ cpc = "start"
    /\ \/ is_active /\ running' = TRUE /\ cpc' = "run"
       \/ running' = running /\ cpc' = "quit"
    /\ UNCHANGED <<sessionVars, client_connected, ring, format_ready,
                   dropped_frames, delivered, written, encoderVars, deadlocked>>

\* on_stream_param_changed: create the ring on the first call ...
on_stream_param_changed ==
    /\ cpc = "run"
    /\ ring' = IF ring = NoRing THEN ring_buffer_init ELSE ring
    /\ cpc' = "publish"
    /\ UNCHANGED <<sessionVars, client_connected, format_ready, running,
                   dropped_frames, delivered, written, encoderVars, deadlocked>>

\* ... and announce the format under format_mutex.
publish_format ==
    /\ cpc = "publish"
    /\ "format" \notin deadlocked
    /\ format_ready' = TRUE
    /\ WakeFormat
    /\ cpc' = "run"
    /\ UNCHANGED <<sessionVars, client_connected, ring, running, dropped_frames,
                   delivered, written, frame_data, pending_frame, encoded, deadlocked>>

\* on_process with n frames.  Without a client or a ring it only returns the
\* buffer to PipeWire, which changes nothing here.
on_process(n) ==
    /\ cpc = "run"
    /\ client_connected /\ ring # NoRing
    /\ delivered + n <= MaxFrames
    /\ "ring" \notin deadlocked
    /\ delivered' = delivered + n
    /\ LET data == [k \in 1 .. n |-> written + k]
           took == IF ring.closed THEN 0 ELSE ItemsToWrite(data)
       IN  /\ \/ /\ ring.closed
                 /\ UNCHANGED <<ring, written, epc>>
              \/ /\ ~ring.closed
                 /\ ring' = ring_buffer_write(ring, data)
                 /\ written' = written + n
                 /\ Wake
           /\ dropped_frames' =
                 IF took < n /\ running THEN dropped_frames + n - took
                 ELSE dropped_frames
    /\ UNCHANGED <<sessionVars, client_connected, format_ready, cpc, running,
                   frame_data, pending_frame, encoded, deadlocked>>

\* SIGINT or SIGTERM reaches the PipeWire loop.
do_quit ==
    /\ cpc = "run"
    /\ running' = FALSE
    /\ close_ring
    /\ cpc' = "quit"
    /\ UNCHANGED <<sessionVars, client_connected, format_ready, dropped_frames,
                   delivered, written, frame_data, pending_frame, encoded, deadlocked>>

\* capture_pw_destroy, the thread's cleanup handler: on return, and on
\* cancellation in the PipeWire loop or on the way to it.
capture_pw_destroy ==
    /\ \/ cpc = "quit"
       \/ cpc \in {"start", "run"} /\ Cancelled("capture")
    /\ running' = FALSE
    /\ close_ring
    /\ cpc' = "exited"
    /\ UNCHANGED <<sessionVars, client_connected, format_ready, dropped_frames,
                   delivered, written, frame_data, pending_frame, encoded, deadlocked>>

Capture ==
    \/ capture_pw_main \/ on_stream_param_changed \/ publish_format
    \/ \E n \in 1 .. MaxChunk : on_process(n)
    \/ do_quit \/ capture_pw_destroy

-----------------------------------------------------------------------------
(* The encoder thread *)

EncoderStep == UNCHANGED <<sessionVars, client_connected, format_ready, captureVars>>

\* Where the thread goes from audio_encoder_startup, which fails when the format
\* gives no whole Opus frame, when memory is short or when Opus refuses.
audio_encoder_startup == {"read", "exited"}

\* The wait for the format, under format_mutex; then the encoder is started.
wait_format ==
    /\ epc \in {"format", "format_woken"}
    /\ \/ is_active /\ ~format_ready /\ epc' = "format_wait"
       \/ ~is_active /\ epc' = "exited"
       \/ is_active /\ format_ready /\ epc' \in audio_encoder_startup
    /\ EncoderStep
    /\ UNCHANGED <<ring, frame_data, pending_frame, encoded, deadlocked>>

\* ring_buffer_wait_read of up to Capacity frames; zero frames end the loop.
wait_read ==
    /\ epc \in {"read", "read_woken"}
    /\ "ring" \notin deadlocked
    /\ \/ /\ ~Readable(ring)
          /\ epc' = "read_wait"
          /\ UNCHANGED <<ring, frame_data>>
       \/ /\ Readable(ring)
          /\ frame_data' = ItemsRead(ring, Capacity)
          /\ ring' = AfterRead(ring, Capacity)
          /\ epc' = IF frame_data' = << >> THEN "exited" ELSE "copy"
    /\ EncoderStep
    /\ UNCHANGED <<pending_frame, encoded, deadlocked>>

\* POSIX allows pthread_cond_wait to return without a signal.
SpuriousWakeup ==
    /\ \/ epc = "format_wait" /\ epc' = "format_woken"
       \/ epc = "read_wait" /\ epc' = "read_woken"
    /\ EncoderStep
    /\ UNCHANGED <<ring, frame_data, pending_frame, encoded, deadlocked>>

\* Mutant: a completed Opus frame is not cleared before the next one.
copy_frames_stale ==
    /\ epc = "copy"
    /\ LET n == Least(Len(frame_data), FrameSize)
           rest == SubSeq(frame_data, n + 1, Len(frame_data))
       IN  /\ pending_frame' = SubSeq(frame_data, 1, n)
           /\ encoded' = encoded \o pending_frame \o SubSeq(frame_data, 1, n)
           /\ frame_data' = rest
           /\ epc' = IF rest = << >> THEN "read" ELSE "copy"
    /\ EncoderStep
    /\ UNCHANGED <<ring, deadlocked>>

\* encode_audio_frame loses the frame when Opus fails, when memory is short or
\* when Transport's queue is full.
encode_audio_frame(frame) == encoded' \in {encoded, encoded \o frame}

\* One turn of the inner loop: fill the Opus frame, and encode it when full.
copy_frames ==
    /\ epc = "copy"
    /\ LET n      == Least(Len(frame_data), FrameSize - Len(pending_frame))
           filled == pending_frame \o SubSeq(frame_data, 1, n)
           rest   == SubSeq(frame_data, n + 1, Len(frame_data))
       IN  /\ \/ /\ Len(filled) # FrameSize
                 /\ pending_frame' = filled
                 /\ UNCHANGED encoded
              \/ /\ Len(filled) = FrameSize
                 /\ pending_frame' = << >>
                 /\ encode_audio_frame(filled)
           /\ frame_data' = rest
           /\ epc' = IF rest = << >> THEN "read" ELSE "copy"
    /\ EncoderStep
    /\ UNCHANGED <<ring, deadlocked>>

\* The thread is cancelled.  pthread_cond_wait takes its mutex again before
\* the thread dies and no handler releases it; the only other cancellation
\* point is the message about a frame that was not encoded.
cancel_encoder ==
    /\ Cancelled("encoder")
    /\ \/ epc \in {"format_wait", "format_woken"} /\ deadlocked' = deadlocked \union {"format"}
       \/ epc \in {"read_wait", "read_woken"} /\ deadlocked' = deadlocked \union {"ring"}
       \/ epc = "copy" /\ UNCHANGED deadlocked
    /\ epc' = "exited"
    /\ EncoderStep
    /\ UNCHANGED <<ring, frame_data, pending_frame, encoded>>

Encoder == wait_format \/ wait_read \/ copy_frames \/ cancel_encoder

-----------------------------------------------------------------------------
(* session_teardown, which the Sidecar may call at any moment *)

deactivate ==
    /\ tpc = "run"
    /\ is_active' = FALSE
    /\ tpc' = "notify"
    /\ UNCHANGED <<nth, client_connected, ring, format_ready, captureVars,
                   encoderVars, deadlocked>>

notify_format ==
    /\ tpc = "notify"
    /\ "format" \notin deadlocked
    /\ WakeFormat
    /\ tpc' = "sleep"
    /\ UNCHANGED <<is_active, nth, client_connected, ring, format_ready, captureVars,
                   frame_data, pending_frame, encoded, deadlocked>>

\* After the 100 ms pause; a ring created later is closed by its thread.
close_audio ==
    /\ tpc = "sleep"
    /\ close_ring
    /\ tpc' = "join"
    /\ UNCHANGED <<is_active, nth, client_connected, format_ready, captureVars,
                   frame_data, pending_frame, encoded, deadlocked>>

Exited(thread) == IF thread = "capture" THEN cpc = "exited" ELSE epc = "exited"

join ==
    /\ tpc = "join"
    /\ Exited(ThreadOrder[nth])
    /\ IF nth = Len(ThreadOrder) THEN tpc' = "destroy" /\ nth' = nth
                                 ELSE tpc' = tpc /\ nth' = nth + 1
    /\ UNCHANGED <<is_active, client_connected, ring, format_ready, captureVars,
                   encoderVars, deadlocked>>

\* ring_buffer_destroy, and the mutexes and queues with it.
destroy ==
    /\ tpc = "destroy"
    /\ ring' = NoRing
    /\ tpc' = "done"
    /\ UNCHANGED <<is_active, nth, client_connected, format_ready, captureVars,
                   encoderVars, deadlocked>>

Session == deactivate \/ notify_format \/ close_audio \/ join \/ destroy

-----------------------------------------------------------------------------
Next == ClientConnects \/ Capture \/ Encoder \/ SpuriousWakeup \/ Session

Spec == Init /\ [][Next]_vars

\* The operating system runs every thread that is not blocked.  The PipeWire
\* loop reaches a cancellation point between any two callbacks, so a pending
\* cancellation is not postponed for ever (strong fairness).  PipeWire and
\* POSIX owe neither frames nor spurious wake-ups, nor does anything make
\* a session end.
FairSpec ==
    /\ Spec
    /\ WF_vars(capture_pw_main \/ publish_format)
    /\ SF_vars(capture_pw_destroy)
    /\ WF_vars(Encoder)
    /\ WF_vars(notify_format \/ close_audio \/ join \/ destroy)

-----------------------------------------------------------------------------
(* Properties *)

\* Every variable keeps its type; ring positions stay inside the buffer and
\* items_available within its capacity (ringBuffer.c:16-20).
TypeOK ==
    /\ is_active \in BOOLEAN /\ client_connected \in BOOLEAN
    /\ format_ready \in BOOLEAN /\ running \in BOOLEAN
    /\ ring = NoRing \/ ring \in
          [buffer : [Positions -> 0 .. MaxFrames], read_pos : Positions,
           write_pos : Positions, items_available : 0 .. Capacity, closed : BOOLEAN]
    /\ cpc \in {"start", "run", "publish", "quit", "exited"}
    /\ epc \in {"format", "format_wait", "format_woken", "read", "read_wait",
                "read_woken", "copy", "exited"}
    /\ tpc \in {"run", "notify", "sleep", "join", "destroy", "done"} /\ nth \in 1 .. 2
    /\ dropped_frames \in 0 .. MaxFrames
    /\ delivered \in 0 .. MaxFrames /\ written \in 0 .. MaxFrames
    /\ frame_data \in Seq(1 .. MaxFrames) /\ pending_frame \in Seq(1 .. MaxFrames)
    /\ encoded \in Seq(1 .. MaxFrames)
    /\ deadlocked \subseteq {"format", "ring"}

\* The newest frames are always retained (ringBuffer.c:3-5): what is unread
\* is an unbroken run that ends with the newest frame the ring took, however
\* writes larger than the ring, wrapped writes and reads follow each other;
\* positions and counts stay in range (TypeOK).
RingKeepsNewest ==
    /\ TypeOK
    /\ ring # NoRing =>
          Unread(ring) = [k \in 1 .. ring.items_available |->
                              written - ring.items_available + k]

\* Frames neither swap places nor double on their way from the ring through
\* the encoder's two buffers into the packets, and Transport only gets whole
\* Opus frames (AudioEncode.c:256-257, 271-303).
StreamInOrder ==
    LET stream == encoded \o pending_frame \o frame_data
                     \o (IF ring = NoRing THEN << >> ELSE Unread(ring))
    IN  /\ \A j, k \in 1 .. Len(stream) : j < k => stream[j] < stream[k]
        /\ Len(encoded) % FrameSize = 0 /\ Len(pending_frame) < FrameSize

\* The encoder only sleeps when it has nothing to do: a frame, a close, the
\* format or the end of the session each wake it, in whatever order they come
\* (ringBuffer.c:223, AudioEncode.c:207, session.c:72-76).
NoLostWakeup ==
    /\ epc = "read_wait" => ~Readable(ring)
    /\ epc = "format_wait" => ~format_ready /\ (is_active \/ tpc = "notify")

\* session_teardown always gets through (session.c:63-124): neither join waits
\* for ever, although a thread cancelled in pthread_cond_wait dies holding
\* a mutex that the other thread's cleanup handler needs.
TeardownCompletes == (tpc = "notify") ~> (tpc = "done")
=============================================================================
