------------------------------ MODULE Session ------------------------------
(***************************************************************************)
(* A stream session on a node, from session_start to session_teardown      *)
(* (stratusd/SideCar/src/session.c), with the threads of the video path:   *)
(* the encoder (Encode/src) and the transport (Transport/src), which runs  *)
(* the callbacks of the QUIC library for the clients that connect.         *)
(*                                                                         *)
(* The main thread starts the modules and the game, polls them, and when   *)
(* one has ended or the user is gone cancels the threads one after the     *)
(* other and destroys what they shared.  Capture, Audio and Input model    *)
(* the other four threads; here they run until they fail or are cancelled. *)
(* The encode queue keeps the latest frame only, which is all the encoder  *)
(* takes from it; the codec gives one packet for each frame (zerolatency). *)
(***************************************************************************)
EXTENDS Integers, Sequences, FiniteSetsExt

CONSTANTS
    Clients,    \* browsers that try to connect
    Profiles,   \* what may happen in a behaviour; see Init
    MaxFrames,  \* the most frames a game of Profiles shows
    VideoCap,   \* capacity of video_transport_queue: 4
    Window,     \* packets of a stream on their way to the client
    GopSize     \* packets from one key frame to the next: 30

VARIABLES
    main,    \* the main thread: [pc, i, failed]
    ses,     \* struct session, and live, the resources that exist
    th,      \* thread -> "none", "run", "ended" (joinable), "gone"
    enc,     \* the encoder thread: [pc, frame, count, held]
    tr,      \* the transport thread: [pc, active, visitor, stream]
    video,   \* [frame, shown, queue]: the encode and the transport queue
    cl,      \* client -> [st, buf, got]
    game,    \* its process: "none", "forked", "running", "zombie", "reaped"
    wrong,   \* what should never happen and did
    env      \* the Profile of this behaviour

vars == <<main, ses, th, enc, tr, video, cl, game, wrong, env>>

Threads == <<"capture", "capture_pw", "audio_encode", "encode", "input", "transport">>
NULL == 0

\* A visitor is not the null pointer, and a group of pictures is not empty.
ASSUME SessionAssumption ==
    /\ NULL \notin Clients
    /\ MaxFrames \in Nat /\ VideoCap \in Nat /\ Window \in Nat /\ GopSize \in Nat \ {0}
    /\ \A e \in Profiles :
          e.frames \in 0 .. MaxFrames /\ e.kind \in {"shm", "dma"} /\ e.credit \in BOOLEAN

\* What session_start creates, in its order.
Resources == <<"mutex", "cond", "cert", "encode_queue", "video_queue",
               "audio_queue", "input_queue">>

Uses(t) ==
    CASE t = "capture"      -> {"encode_queue"}
      [] t = "capture_pw"   -> {"mutex", "cond"}
      [] t = "audio_encode" -> {"mutex", "cond", "audio_queue"}
      [] t = "encode"       -> {"encode_queue", "video_queue"}
      [] t = "input"        -> {"input_queue"}
      [] t = "transport"    -> {"cert", "video_queue", "audio_queue", "input_queue"}

\* Destroying what does not exist, or what a thread that runs still uses.
Destroy(rs) ==
    /\ ses' = [ses EXCEPT !.live = @ \ rs]
    /\ wrong' = wrong
         \union (IF rs \subseteq ses.live THEN {} ELSE {"destroyed twice"})
         \union (IF \E i \in DOMAIN Threads :
                       th[Threads[i]] = "run" /\ Uses(Threads[i]) \intersect rs # {}
                 THEN {"destroyed in use"} ELSE {})

-----------------------------------------------------------------------------
(* session_start, session_poll and session_teardown.                       *)

\* Up to the threads, or to the first step that fails, the one after k.
\* pthread_create is taken to succeed: its result is compared with < 0.
session_start ==
    /\ main.pc = "create"
    /\ \/ /\ ses' = [ses EXCEPT !.live = Range(Resources), !.ptr = Range(Resources),
                                !.states = [t \in Range(Threads) |-> 1]]
          /\ th' = [t \in Range(Threads) |-> "run"]
          /\ main' = [main EXCEPT !.pc = "launch"]
       \/ /\ env.fault = "start"
          /\ \E k \in 0 .. Len(Resources) - 1 :
                LET created == Range(SubSeq(Resources, 1, k)) IN
                ses' = [ses EXCEPT !.live = created, !.ptr = created]
          /\ main' = [main EXCEPT !.pc = "unwind", !.failed = TRUE]
          /\ UNCHANGED th
    /\ UNCHANGED <<enc, tr, video, cl, game, wrong>>

\* The parent's side of the fork.  The Steam branch is not there: it needs an
\* appid above 0, and the heartbeat registers every game with 0.
session_launch_game ==
    /\ main.pc = "launch"
    /\ \/ /\ game' = "forked"
          /\ ses' = [ses EXCEPT !.pid = "game"]
          /\ main' = [main EXCEPT !.pc = "poll"]
       \/ /\ env.fault = "start"
          /\ ses' = [ses EXCEPT !.pid = "error"]
          /\ main' = [main EXCEPT !.pc = "unwind", !.failed = TRUE]
          /\ UNCHANGED game
    /\ UNCHANGED <<th, enc, tr, video, cl, wrong>>

\* The error labels: what was created is destroyed, and the pointers stay.
\* Threads that run on use freed memory from here on; of the outcomes that may
\* have, the model takes the one in which it still reads as it was.
Unwind ==
    /\ main.pc = "unwind"
    /\ Destroy(ses.live)
    /\ main' = [main EXCEPT !.pc = "notify"]
    /\ UNCHANGED <<th, enc, tr, video, cl, game>>

\* The first thread that has ended, in the order of thread_states.
Ended == {i \in DOMAIN Threads : ses.states[Threads[i]] = 0 \/ th[Threads[i]] = "ended"}

\* Mutant: the state is kept after the join.
JoinedKeepsState(t) == th' = [th EXCEPT ![t] = "gone"] /\ UNCHANGED ses

Waited == game' = "reaped" /\ ses' = [ses EXCEPT !.pid = "none"]
Joined(t) == th' = [th EXCEPT ![t] = "gone"] /\ ses' = [ses EXCEPT !.states[t] = 0]

\* The three reasons for a result other than 0, looked at in this order.
session_poll ==
    LET timeout == ~ses.connected /\ ses.late IN
    /\ main.pc = "poll"
    /\ \/ timeout /\ UNCHANGED <<ses, th, game>>
       \/ ~timeout /\ game = "zombie" /\ Waited /\ UNCHANGED th
       \/ /\ ~timeout /\ game # "zombie" /\ Ended # {}
          /\ Joined(Threads[Min(Ended)])
          /\ UNCHANGED game
    /\ main' = [main EXCEPT !.pc = "notify"]
    /\ UNCHANGED <<enc, tr, video, cl, wrong>>

\* sidecar_main leaves its loop: the connection to the server is lost.
SidecarExits ==
    /\ main.pc = "poll" /\ "sidecar" \in env.ends
    /\ main' = [main EXCEPT !.pc = "notify"]
    /\ UNCHANGED <<ses, th, enc, tr, video, cl, game, wrong>>

\* killpg.  There is no such group before the child's setpgid, and the pid
\* may be another process's once the child was waited for.
Kill(signal) ==
    LET to == IF ses.pid = "game" THEN game ELSE "none" IN
    /\ game' = IF to = "running" /\ signal = 9 THEN "zombie" ELSE game
    /\ wrong' = wrong \union (IF to = "reaped" THEN {"stray signal"} ELSE {})
                      \union (IF to = "forked" /\ signal = 9 THEN {"no group yet"} ELSE {})

\* The threads the loop of session_teardown has still to cancel.
Running == {k \in main.i .. Len(Threads) : ses.states[Threads[k]] = 1}

\* session_teardown up to the first cancellation.  The game may ignore SIGTERM.
TeardownNotify ==
    /\ main.pc = "notify"
    /\ ses' = [ses EXCEPT !.active = FALSE]
    /\ Kill(15)
    /\ main' = [main EXCEPT !.pc = "cancel", !.i = 1]
    /\ UNCHANGED <<th, enc, tr, video, cl>>

\* The next thread of thread_states is cancelled...
TeardownCancel ==
    /\ main.pc = "cancel" /\ Running # {}
    /\ ses' = [ses EXCEPT !.cancelled = @ \union {Threads[Min(Running)]}]
    /\ main' = [main EXCEPT !.pc = "join", !.i = Min(Running)]
    /\ UNCHANGED <<th, enc, tr, video, cl, game, wrong>>

\* ... and joined before the one after it is.
TeardownJoin ==
    /\ main.pc = "join" /\ th[Threads[main.i]] = "ended"
    /\ th' = [th EXCEPT ![Threads[main.i]] = "gone"]
    /\ main' = [main EXCEPT !.pc = "cancel", !.i = @ + 1]
    /\ UNCHANGED <<ses, enc, tr, video, cl, game, wrong>>

\* Mutant: the queues are destroyed before the threads are cancelled.
KillFirst ==
    /\ main.pc = "cancel" /\ main.i = 1
    /\ Kill(9)
    /\ main' = [main EXCEPT !.pc = "destroy"]
    /\ UNCHANGED <<ses, th, enc, tr, video, cl>>

TeardownKill ==
    /\ main.pc = "cancel" /\ Running = {}
    /\ Kill(9)
    /\ main' = [main EXCEPT !.pc = "destroy"]
    /\ UNCHANGED <<ses, th, enc, tr, video, cl>>

\* The queues and the certificate if their pointers are set, the mutex and
\* the condition variable in any case.
TeardownDestroy ==
    /\ main.pc = "destroy"
    /\ Destroy(ses.ptr \union {"mutex", "cond"})
    /\ main' = [main EXCEPT !.pc = "done"]
    /\ UNCHANGED <<th, enc, tr, video, cl, game>>

-----------------------------------------------------------------------------
(* The encoder: encoder_startup, the loop of encode_main and, as its       *)
(* cleanup handler, encoder_teardown.                                      *)

\* What encoder_startup and egl_capture_init acquire, in their order.
Pieces == <<"state", "codec_ctx", "yuv_frame", "image", "shm_sws", "dma_sws", "pkt",
            "egl_ctx", "egl_display", "egl_context", "fbo">>
Acquired(k) == Range(SubSeq(Pieces, 1, k))

\* Textures go with the context, images with the display.
egl_capture_destroy(held) ==
    held \ {"fbo", "egl_context", "egl_display", "egl_ctx", "egl_image", "texture"}

\* A step of egl_capture_init fails: it undoes the ones before it.
egl_capture_init(k) ==
    IF k < 8 THEN Acquired(k)
    ELSE Acquired(k) \ (CASE k = 8  -> {"egl_ctx"}
                          [] k = 9  -> {"egl_ctx", "egl_display"}
                          [] k = 10 -> {"egl_ctx", "egl_display", "egl_context"})

\* Mutant: the frame is freed and the image it points to is not.
CleanupKeepsImage(held) ==
    held \ {"pkt", "shm_sws", "dma_sws", "yuv_frame", "codec_ctx", "state"}

cleanup_encoder(held) ==
    held \ {"pkt", "shm_sws", "dma_sws", "yuv_frame", "image", "codec_ctx", "state"}

\* All but the pixels of a DMA frame that could not be captured, which
\* nothing frees.
encoder_teardown(held) ==
    egl_capture_destroy(held) \ {"pkt", "shm_sws", "dma_sws", "image", "yuv_frame",
                                 "codec_ctx", "state"}

EncodeEnds(pc, held) ==
    /\ th' = [th EXCEPT !["encode"] = "ended"]
    /\ enc' = [enc EXCEPT !.pc = pc, !.frame = "none", !.held = held]

\* It succeeds, fails after k pieces, or the thread is cancelled inside it,
\* when no cleanup handler is pushed yet.
encoder_startup ==
    /\ th["encode"] = "run" /\ enc.pc = "startup"
    /\ \/ /\ enc' = [enc EXCEPT !.pc = "loop", !.held = Acquired(Len(Pieces))]
          /\ UNCHANGED th
       \/ /\ env.fault = "encode"
          /\ \E k \in 0 .. Len(Pieces) - 1 : EncodeEnds("end", cleanup_encoder(egl_capture_init(k)))
       \/ /\ "encode" \in ses.cancelled
          /\ \E k \in 1 .. Len(Pieces) : EncodeEnds("cut", Acquired(k))
    /\ UNCHANGED <<main, ses, tr, video, cl, game, wrong>>

\* The head of the loop of encode_main.
EncodeLoop ==
    /\ th["encode"] = "run" /\ enc.pc = "loop"
    /\ enc' = [enc EXCEPT !.pc = IF ses.active THEN "wait" ELSE "parked"]
    /\ UNCHANGED <<main, ses, th, tr, video, cl, game, wrong>>

\* rbuf_wait_peak_latest.
EncodeWait ==
    /\ th["encode"] = "run" /\ enc.pc = "wait" /\ video.frame # "none"
    /\ enc' = [enc EXCEPT !.pc = "frame", !.frame = video.frame]
    /\ video' = [video EXCEPT !.frame = "none"]
    /\ UNCHANGED <<main, ses, th, tr, cl, game, wrong>>

\* Mutant: the client is not waited for.
DropIfFull == Len(video.queue) = VideoCap

\* Why a frame is not encoded.
Dropped == Len(video.queue) = VideoCap \/ ~ses.connected

EncodeDrop ==
    /\ th["encode"] = "run" /\ enc.pc = "frame" /\ Dropped
    /\ enc' = [enc EXCEPT !.pc = "loop", !.frame = "none"]
    /\ UNCHANGED <<main, ses, th, tr, video, cl, game, wrong>>

\* avcodec_send_and_receive: the codec's packet goes to the transport queue.
avcodec_send_and_receive(held) ==
    /\ IF Len(video.queue) < VideoCap
       THEN /\ video' = [video EXCEPT !.queue =
                   Append(@, [n |-> enc.count, is_description |-> enc.count % GopSize = 0])]
            /\ enc' = [enc EXCEPT !.pc = "loop", !.frame = "none", !.count = @ + 1,
                                  !.held = held]
            /\ UNCHANGED th
       ELSE /\ EncodeEnds("end", encoder_teardown(held))
            /\ UNCHANGED video

\* A frame of shared memory is converted where it is.
encode_video_frame ==
    /\ th["encode"] = "run" /\ enc.pc = "frame" /\ ~Dropped /\ enc.frame = "shm"
    /\ \/ avcodec_send_and_receive(enc.held)
       \/ /\ env.fault = "encode"
          /\ EncodeEnds("end", encoder_teardown(enc.held))
          /\ UNCHANGED video
    /\ UNCHANGED <<main, ses, tr, cl, game, wrong>>

\* The image and the texture stay until the encoder ends, except when the
\* capture fails.
egl_capture_dmabuf_frame(held, ok) ==
    IF ok THEN held \union {"egl_image", "texture"} ELSE held

\* A DMA buffer is read back through EGL first; a capture that fails leaves
\* the pixels.
dma_encode_video_frame ==
    /\ th["encode"] = "run" /\ enc.pc = "frame" /\ ~Dropped /\ enc.frame = "dma"
    /\ \/ avcodec_send_and_receive(egl_capture_dmabuf_frame(enc.held, TRUE))
       \/ /\ env.fault = "encode"
          /\ \E held \in {enc.held,
                          egl_capture_dmabuf_frame(enc.held, FALSE) \union {"pixel_data"},
                          egl_capture_dmabuf_frame(enc.held, TRUE)} :
                EncodeEnds("end", encoder_teardown(held))
          /\ UNCHANGED video
    /\ UNCHANGED <<main, ses, tr, cl, game, wrong>>

\* Cancelled while it waits for a frame or for its end, or on the way.
EncodeCancelled ==
    /\ th["encode"] = "run" /\ enc.pc # "startup" /\ "encode" \in ses.cancelled
    /\ EncodeEnds("end", encoder_teardown(enc.held))
    /\ UNCHANGED <<main, ses, tr, video, cl, game, wrong>>

-----------------------------------------------------------------------------
(* The transport: transport_main, transport_thread and the callbacks.      *)

\* The loop goes on without a socket when the port cannot be bound.
transport_init ==
    /\ th["transport"] = "run" /\ tr.pc = "init"
    /\ tr' = [tr EXCEPT !.pc = "loop"]
    /\ wrong' = IF "cert" \in ses.live THEN wrong ELSE wrong \union {"destroyed in use"}
    /\ UNCHANGED <<main, ses, th, enc, video, cl, game>>

TransportLoop ==
    /\ th["transport"] = "run" /\ tr.pc = "loop"
    /\ tr' = [tr EXCEPT !.pc = IF ses.active /\ tr.active THEN "video" ELSE "left"]
    /\ UNCHANGED <<main, ses, th, enc, video, cl, game, wrong>>

SubmitVideoDataToStream(c) ==
    IF tr.stream /\ Len(cl[c].buf) < Window
    THEN /\ cl' = [cl EXCEPT ![c].buf = Append(@, Head(video.queue))]
         /\ video' = [video EXCEPT !.queue = Tail(@)]
    ELSE UNCHANGED <<cl, video>>

\* The first half of the loop's body; the visitor must still exist.
transport_thread ==
    /\ th["transport"] = "run" /\ tr.pc = "video"
    /\ IF video.queue = << >> THEN UNCHANGED <<cl, video, wrong>>
       ELSE IF tr.visitor # NULL
       THEN /\ SubmitVideoDataToStream(tr.visitor)
            /\ wrong' = IF cl[tr.visitor].st = "closed"
                        THEN wrong \union {"visitor gone"} ELSE wrong
       ELSE /\ video' = [video EXCEPT !.queue = Tail(@)]
            /\ UNCHANGED <<cl, wrong>>
    /\ tr' = [tr EXCEPT !.pc = "events"]
    /\ UNCHANGED <<main, ses, th, enc, game>>

InEvents == th["transport"] = "run" /\ tr.pc = "events"

\* Mutant: the stream that is opened is not kept as the one for video.
AudioStreamOnly(t) == t

OnCanCreateNewOutgoingUnidirectionalStream(t) == [t EXCEPT !.stream = TRUE]

\* The QUIC library calls it once, as soon as the visitor is made; the client's
\* credit for streams decides, and nobody tries again later.
OnSessionReady(t) ==
    IF env.credit THEN OnCanCreateNewOutgoingUnidirectionalStream(t) ELSE t

\* The visitor's constructor and the session's start are part of it.
ProcessRequest(c) ==
    /\ InEvents /\ cl[c].st = "asked"
    /\ IF tr.visitor = NULL
       THEN /\ cl' = [cl EXCEPT ![c].st = "in"]
            /\ tr' = OnSessionReady([tr EXCEPT !.visitor = c])
            /\ ses' = [ses EXCEPT !.connected = TRUE]
       ELSE /\ cl' = [cl EXCEPT ![c].st = "refused"]
            /\ UNCHANGED <<tr, ses>>
    /\ UNCHANGED <<main, th, enc, video, game, wrong>>

OnSessionClosed(c) ==
    /\ InEvents /\ cl[c].st = "leaving"
    /\ cl' = [cl EXCEPT ![c].st = "closed"]
    /\ tr' = [tr EXCEPT !.active = FALSE]
    /\ UNCHANGED <<main, ses, th, enc, video, game, wrong>>

\* WaitForEvents returns.
EventsDone ==
    /\ InEvents
    /\ tr' = [tr EXCEPT !.pc = "loop"]
    /\ UNCHANGED <<main, ses, th, enc, video, cl, game, wrong>>

\* transport_main after the loop: it ends for a client that left, and waits
\* to be cancelled otherwise.
transport_main ==
    /\ th["transport"] = "run" /\ tr.pc = "left" /\ ~tr.active
    /\ th' = [th EXCEPT !["transport"] = "ended"]
    /\ UNCHANGED <<main, ses, enc, tr, video, cl, game, wrong>>

TransportCancelled ==
    /\ th["transport"] = "run" /\ tr.pc \in {"events", "left"}
    /\ "transport" \in ses.cancelled
    /\ th' = [th EXCEPT !["transport"] = "ended"]
    /\ UNCHANGED <<main, ses, enc, tr, video, cl, game, wrong>>

-----------------------------------------------------------------------------
(* The threads modelled elsewhere, the game, the clients and the clock.    *)

OtherThreads == {"capture", "capture_pw", "audio_encode", "input"}

ThreadEnds(t) ==
    /\ th[t] = "run" /\ (t \in ses.cancelled \/ env.fault = t)
    /\ th' = [th EXCEPT ![t] = "ended"]
    /\ UNCHANGED <<main, ses, enc, tr, video, cl, game, wrong>>

\* The game commits a buffer and the capture thread queues the frame.
Frame ==
    /\ game = "running" /\ th["capture"] = "run" /\ video.shown < env.frames
    /\ video' = [video EXCEPT !.frame = env.kind, !.shown = @ + 1]
    /\ UNCHANGED <<main, ses, th, enc, tr, cl, game, wrong>>

\* The child's side of session_launch_game: setpgid and, at the end, execvp,
\* which fails by exiting.
GameStarts ==
    /\ game = "forked" /\ game' = "running"
    /\ UNCHANGED <<main, ses, th, enc, tr, video, cl, wrong>>

\* By itself, or for the SIGTERM.
GameExits ==
    /\ game = "running" /\ (~ses.active \/ "game" \in env.ends) /\ game' = "zombie"
    /\ UNCHANGED <<main, ses, th, enc, tr, video, cl, wrong>>

ClientAsks(c) ==
    /\ cl[c].st = "away" /\ c \in env.clients
    /\ cl' = [cl EXCEPT ![c].st = "asked"]
    /\ UNCHANGED <<main, ses, th, enc, tr, video, game, wrong>>

ClientReads(c) ==
    /\ cl[c].st = "in" /\ cl[c].buf # << >>
    /\ cl' = [cl EXCEPT ![c].got = Append(@, Head(cl[c].buf)), ![c].buf = Tail(@)]
    /\ UNCHANGED <<main, ses, th, enc, tr, video, game, wrong>>

ClientLeaves(c) ==
    /\ cl[c].st = "in" /\ "client" \in env.ends
    /\ cl' = [cl EXCEPT ![c].st = "leaving"]
    /\ UNCHANGED <<main, ses, th, enc, tr, video, game, wrong>>

\* CLIENT_CONNECT_TIMEOUT has passed since the start.
Late ==
    /\ "late" \in env.ends /\ ~ses.late /\ ~ses.connected /\ main.pc = "poll"
    /\ ses' = [ses EXCEPT !.late = TRUE]
    /\ UNCHANGED <<main, th, enc, tr, video, cl, game, wrong>>

-----------------------------------------------------------------------------

\* A profile has the clients that come, whether they let the server open
\* streams, the frames the game shows and their kind, what may end the session
\* from outside, and the fault: a thread that fails, "start" for a step of
\* session_start, or "none".
Init ==
    /\ env \in Profiles
    /\ main = [pc |-> "create", i |-> 1, failed |-> FALSE]
    /\ ses = [active |-> TRUE, connected |-> FALSE, late |-> FALSE, pid |-> "none",
              states |-> [t \in Range(Threads) |-> 0], cancelled |-> {},
              live |-> {}, ptr |-> {}]
    /\ th = [t \in Range(Threads) |-> "none"]
    /\ enc = [pc |-> "startup", frame |-> "none", count |-> 0, held |-> {}]
    /\ tr = [pc |-> "init", active |-> TRUE, visitor |-> NULL, stream |-> FALSE]
    /\ video = [frame |-> "none", shown |-> 0, queue |-> << >>]
    /\ cl = [c \in Clients |-> [st |-> "away", buf |-> << >>, got |-> << >>]]
    /\ game = "none" /\ wrong = {}

MainStep ==
    \/ session_start \/ session_launch_game \/ Unwind \/ session_poll
    \/ TeardownNotify \/ TeardownCancel \/ TeardownJoin \/ TeardownKill \/ TeardownDestroy

EncodeStep ==
    \/ encoder_startup \/ EncodeLoop \/ EncodeWait \/ EncodeDrop \/ encode_video_frame
    \/ dma_encode_video_frame \/ EncodeCancelled

TransportStep ==
    \/ transport_init \/ TransportLoop \/ transport_thread \/ EventsDone
    \/ transport_main \/ TransportCancelled

Callback == \E c \in Clients : ProcessRequest(c) \/ OnSessionClosed(c)

Next ==
    /\ \/ MainStep \/ SidecarExits \/ EncodeStep \/ TransportStep \/ Callback
       \/ \E t \in OtherThreads : ThreadEnds(t)
       \/ Frame \/ GameStarts \/ GameExits \/ Late
       \/ \E c \in Clients : ClientAsks(c) \/ ClientReads(c) \/ ClientLeaves(c)
    /\ UNCHANGED env

Spec == Init /\ [][Next]_vars

-----------------------------------------------------------------------------
(* Properties.                                                             *)

Packet == [n : 0 .. MaxFrames - 1, is_description : BOOLEAN]

\* Types; the transport queue and a stream stay within their capacity.
TypeOK ==
    /\ main.i \in 1 .. Len(Threads) + 1
    /\ ses.live \subseteq Range(Resources) /\ ses.ptr \subseteq Range(Resources)
    /\ \A t \in Range(Threads) :
          /\ th[t] \in {"none", "run", "ended", "gone"}
          /\ ses.states[t] \in {0, 1}
    /\ tr.visitor \in Clients \union {NULL}
    /\ video.queue \in Seq(Packet) /\ Len(video.queue) <= VideoCap
    /\ \A c \in Clients : cl[c].buf \in Seq(Packet) /\ Len(cl[c].buf) <= Window

\* The packets a client has got and the ones on their way are the encoder's
\* first ones, all of them and in order: the stream starts with a key frame
\* and no difference is left out, whatever the encoder dropped before the
\* client came, or for a full queue (Encode.c, Transport.cpp).  The queue and
\* the stream they pass through stay within their capacities (TypeOK).
VideoContiguous ==
    /\ TypeOK
    /\ \A c \in Clients :
          LET sent == cl[c].got \o cl[c].buf IN
          \A i \in DOMAIN sent :
              sent[i].n = i - 1 /\ sent[i].is_description = ((i - 1) % GopSize = 0)

\* The encoder ends by a fault or by a cancellation only: it checks the room
\* for its packet before it encodes, so that no push fails.  What it acquired
\* is freed on every way out, a start that fails half way included.  Left
\* behind are the pixels of a capture that failed, and all that a start held
\* when the thread was cancelled inside it.
EncoderLeavesNothing ==
    th["encode"] \in {"ended", "gone"} =>
        /\ env.fault = "encode" \/ "encode" \in ses.cancelled
        /\ \/ enc.held \subseteq {"pixel_data"}
           \/ enc.pc = "cut" /\ "encode" \in ses.cancelled

\* A queue, the certificate, the mutex and the condition variable are
\* destroyed once, and when no thread that uses them runs.  After a start that
\* failed session_teardown destroys again what the error labels destroyed.
\* Packets are submitted through a visitor only while the QUIC library keeps
\* it: the loop leaves before it looks at the pointer again.
SharedOutlivesThreads ==
    /\ {"destroyed twice", "destroyed in use"} \intersect wrong # {} => main.failed
    /\ "visitor gone" \notin wrong

\* The threads run, a cancelled one ends, the QUIC library reports what its
\* socket has each time it waits, and a client reads its streams.
FairSpec ==
    /\ Spec
    /\ WF_vars(MainStep /\ UNCHANGED env)
    /\ WF_vars(EncodeStep /\ UNCHANGED env)
    /\ WF_vars(TransportStep /\ UNCHANGED env)
    /\ WF_vars((\E t \in ses.cancelled \intersect OtherThreads : ThreadEnds(t)) /\ UNCHANGED env)
    /\ \A c \in Clients :
          /\ SF_vars(OnSessionClosed(c) /\ UNCHANGED env)
          /\ WF_vars(ClientReads(c) /\ UNCHANGED env)

\* A session that was started ends, and all its threads are joined, once the
\* game exited, a module crashed, the client left or none came in time.  The
\* game ends with it, unless the child had not come to its setpgid when the
\* SIGKILL was sent, and no signal goes to a process group whose leader was
\* waited for.
SessionEnds ==
    /\ []("stray signal" \notin wrong)
    /\ [](main.pc = "done" /\ "no group yet" \notin wrong => game \notin {"forked", "running"})
    /\ (/\ ~main.failed
        /\ \/ game = "zombie"
           \/ \E t \in Range(Threads) : th[t] = "ended"
           \/ \E c \in Clients : cl[c].st = "leaving") ~> main.pc = "done"
    /\ (ses.late /\ ~ses.connected) ~> (main.pc = "done" \/ ses.connected)

\* An encoded packet reaches the client, however often its stream could not
\* be written to, unless the session ends or the client leaves before.  Without
\* credit for a stream when it connected the client gets none.
PacketsDelivered ==
    \A n \in 0 .. MaxFrames - 1 :
        (env.credit /\ \E i \in DOMAIN video.queue : video.queue[i].n = n)
        ~> (\/ main.pc # "poll"
            \/ \E c \in Clients : \/ cl[c].st \in {"leaving", "closed"}
                                  \/ \E i \in DOMAIN cl[c].got : cl[c].got[i].n = n)
=============================================================================
