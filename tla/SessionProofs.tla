--------------------------- MODULE SessionProofs ---------------------------
(***************************************************************************)
(* Proofs about Session, for any clients, profiles, queue capacity, stream *)
(* window and length of a group of pictures.                               *)
(*                                                                         *)
(* IInv has a part for each argument.  ThreadsInv: session_start creates   *)
(* all there is to share before the first thread, and session_teardown     *)
(* comes to its destroy calls only when no thread runs.  VisitorInv: the   *)
(* loop of the transport looks at is_active between the callback that      *)
(* closes the session and its next use of the visitor.  FramesInv: no more *)
(* packets than frames.  StreamInv: the encoder encodes nothing before     *)
(* there is a visitor, and there is one visitor only, so that what it and  *)
(* the queue hold is all the encoder has made.                             *)
(***************************************************************************)
EXTENDS Session, SequenceTheorems, TLAPS

-----------------------------------------------------------------------------
(* The inductive invariant *)

\* The threads, the shared resources, what the encoder may hold, and the
\* errors of Destroy.
TS == {"capture", "capture_pw", "audio_encode", "encode", "input", "transport"}
RS == {"mutex", "cond", "cert", "encode_queue", "video_queue", "audio_queue", "input_queue"}
HS == {"state", "codec_ctx", "yuv_frame", "image", "shm_sws", "dma_sws", "pkt", "egl_ctx",
       "egl_display", "egl_context", "fbo", "egl_image", "texture", "pixel_data"}
Bad == {"destroyed twice", "destroyed in use"}

MainType ==
    main \in [pc : {"create", "launch", "unwind", "poll", "notify", "cancel", "join",
                    "destroy", "done"}, i : 1 .. 7, failed : BOOLEAN]
SesType ==
    ses \in [active : BOOLEAN, connected : BOOLEAN, late : BOOLEAN,
             pid : {"none", "game", "error"}, states : [TS -> {0, 1}],
             cancelled : SUBSET TS, live : SUBSET RS, ptr : SUBSET RS]
ThType == th \in [TS -> {"none", "run", "ended", "gone"}]
EncType ==
    enc \in [pc : {"startup", "loop", "wait", "parked", "frame", "end", "cut"},
             frame : {"none", "shm", "dma"}, count : Nat, held : SUBSET HS]
TrType ==
    tr \in [pc : {"init", "loop", "video", "events", "left"}, active : BOOLEAN,
            visitor : Clients \union {NULL}, stream : BOOLEAN]
VideoType ==
    video \in [frame : {"none", "shm", "dma"}, shown : Nat, queue : Seq(Packet)]
ClType ==
    cl \in [Clients -> [st : {"away", "asked", "in", "refused", "leaving", "closed"},
                        buf : Seq(Packet), got : Seq(Packet)]]
Types ==
    /\ MainType /\ SesType /\ ThType /\ EncType /\ TrType /\ VideoType /\ ClType
    /\ env \in Profiles

\* The main thread, the threads it started and what they share.
ThreadsInv ==
    /\ main.pc = "create" => ~main.failed /\ \A t \in TS : th[t] = "none"
    /\ main.pc \in {"launch", "poll"} =>
          ~main.failed /\ \A t \in TS : ses.states[t] = 1 /\ th[t] \in {"run", "ended"}
    /\ main.pc = "unwind" => main.failed
    /\ ~main.failed /\ main.pc \notin {"create", "done"} => ses.live = RS
    /\ ~main.failed /\ main.pc # "create" => ses.ptr = RS
    /\ \A t \in TS : ses.states[t] = 0 => th[t] # "run"
    /\ main.pc \in {"cancel", "join"} =>
          \A k \in 1 .. main.i - 1 : th[Threads[k]] # "run"
    /\ main.pc = "join" => main.i <= 6
    /\ main.pc \in {"destroy", "done"} => \A t \in TS : th[t] # "run"
    /\ ~main.failed => Bad \intersect wrong = {}

\* The visitor the transport loop submits to.
VisitorInv ==
    /\ tr.pc = "video" => tr.active
    /\ \A c \in Clients : cl[c].st = "closed" => ~tr.active
    /\ "visitor gone" \notin wrong

\* Frames shown, waiting, in the encoder's hands and encoded.
Pending == (IF video.frame = "none" THEN 0 ELSE 1) + (IF enc.pc = "frame" THEN 1 ELSE 0)
FramesInv ==
    /\ enc.count + Pending <= video.shown
    /\ video.shown <= env.frames
    /\ Len(video.queue) <= VideoCap
    /\ \A c \in Clients : Len(cl[c].buf) <= Window

\* The encoder's first n packets.
Packets(n) == [i \in 1 .. n |-> [n |-> i - 1, is_description |-> (i - 1) % GopSize = 0]]

\* All that was encoded has gone, or will go, to the one visitor.
StreamInv ==
    /\ ses.connected <=> tr.visitor # NULL
    /\ tr.visitor = NULL => enc.count = 0 /\ video.queue = << >>
    /\ \A c \in Clients :
          IF c = tr.visitor
          THEN (cl[c].got \o cl[c].buf) \o video.queue = Packets(enc.count)
          ELSE cl[c].got = << >> /\ cl[c].buf = << >>

IInv == Types /\ ThreadsInv /\ EncoderLeavesNothing /\ VisitorInv /\ FramesInv /\ StreamInv

-----------------------------------------------------------------------------
(* Threads, resources and pieces *)

\* The six threads of thread_states, each at one place.
LEMMA ThreadOrder ==
    /\ Len(Threads) = 6 /\ DOMAIN Threads = 1 .. 6
    /\ \A k \in 1 .. 6 : Threads[k] \in TS
    /\ \A t \in TS : \E k \in 1 .. 6 : Threads[k] = t
    /\ \A j, k \in 1 .. 6 : Threads[j] = Threads[k] => j = k
BY DEF Threads, TS

\* The threads as a set.
LEMMA ThreadSet == Range(Threads) = TS
BY ThreadOrder DEF Range

\* What session_start creates, as a set.
LEMMA ResourceSet == Range(Resources) = RS
<1>1. DOMAIN Resources = 1 .. 7
  BY DEF Resources
<1>2. /\ \A k \in 1 .. 7 : Resources[k] \in RS
      /\ \A r \in RS : \E k \in 1 .. 7 : Resources[k] = r
  BY DEF Resources, RS
<1> QED BY <1>1, <1>2 DEF Range

\* The least member of a set of places in thread_states.
LEMMA MinOf ==
    ASSUME NEW S \in SUBSET (1 .. 6), S # {}
    PROVE  Min(S) \in S /\ \A k \in S : Min(S) <= k
<1> SUFFICES \E x \in S : \A y \in S : x <= y
  BY DEF Min
<1>1. CASE 1 \in S
  BY <1>1
<1>2. CASE 1 \notin S /\ 2 \in S
  BY <1>2
<1>3. CASE S \subseteq 3 .. 6 /\ 3 \in S
  BY <1>3
<1>4. CASE S \subseteq 4 .. 6 /\ 4 \in S
  BY <1>4
<1>5. CASE S \subseteq 5 .. 6 /\ 5 \in S
  BY <1>5
<1>6. CASE S \subseteq 6 .. 6
  <2>1. PICK x \in S : TRUE
    OBVIOUS
  <2>2. \A y \in S : x <= y
    BY <1>6
  <2> QED BY <2>2
<1>7. CASE S \subseteq 3 .. 6
  <2>1. 3 \in S \/ S \subseteq 4 .. 6
    BY <1>7
  <2>2. S \subseteq 4 .. 6 => 4 \in S \/ S \subseteq 5 .. 6
    OBVIOUS
  <2>3. S \subseteq 5 .. 6 => 5 \in S \/ S \subseteq 6 .. 6
    OBVIOUS
  <2> QED BY <1>3, <1>4, <1>5, <1>6, <1>7, <2>1, <2>2, <2>3
<1>8. 1 \notin S /\ 2 \notin S => S \subseteq 3 .. 6
  OBVIOUS
<1> QED BY <1>1, <1>2, <1>7, <1>8

\* The first k pieces of encoder_startup.
LEMMA PartOf ==
    ASSUME NEW k \in 0 .. 11
    PROVE  Acquired(k) = {Pieces[i] : i \in 1 .. k}
<1>1. Len(Pieces) = 11 /\ \A i \in 1 .. 11 : Pieces[i] \in HS
  BY DEF Pieces, HS
<1>2. \A i \in 1 .. k : Pieces[i] \in HS
  BY <1>1
<1>3. /\ SubSeq(Pieces, 1, k) \in Seq(HS)
      /\ Len(SubSeq(Pieces, 1, k)) = IF 1 <= k THEN k - 1 + 1 ELSE 0
      /\ \A i \in 1 .. k - 1 + 1 : SubSeq(Pieces, 1, k)[i] = Pieces[1 + i - 1]
  BY <1>2, SubSeqProperties
<1> DEFINE s == SubSeq(Pieces, 1, k)
<1>4. DOMAIN s = 1 .. k /\ \A i \in 1 .. k : s[i] = Pieces[i]
  BY <1>3, LenProperties
<1> HIDE DEF s
<1>5. Range(s) = {Pieces[i] : i \in 1 .. k}
  BY <1>4 DEF Range
<1> QED BY <1>5 DEF Acquired, s

\* A start that fails is undone, whatever it had acquired.
LEMMA StartUndone ==
    ASSUME NEW k \in 0 .. 10
    PROVE  cleanup_encoder(egl_capture_init(k)) = {}
<1>1. Acquired(k) = {Pieces[i] : i \in 1 .. k}
  BY PartOf
<1>2. CASE k < 8
  <2>1. \A i \in 1 .. 7 : Pieces[i] \in {"pkt", "shm_sws", "dma_sws", "yuv_frame", "image",
                                        "codec_ctx", "state"}
    BY DEF Pieces
  <2> QED BY <1>1, <1>2, <2>1 DEF egl_capture_init, cleanup_encoder
<1>3. CASE k = 8
  <2>1. \A i \in 1 .. 8 : Pieces[i] \in {"pkt", "shm_sws", "dma_sws", "yuv_frame", "image",
                                        "codec_ctx", "state", "egl_ctx"}
    BY DEF Pieces
  <2> QED BY <1>1, <1>3, <2>1 DEF egl_capture_init, cleanup_encoder
<1>4. CASE k = 9
  <2>1. \A i \in 1 .. 9 : Pieces[i] \in {"pkt", "shm_sws", "dma_sws", "yuv_frame", "image",
                                        "codec_ctx", "state", "egl_ctx", "egl_display"}
    BY DEF Pieces
  <2> QED BY <1>1, <1>4, <2>1 DEF egl_capture_init, cleanup_encoder
<1>5. CASE k = 10
  <2>1. \A i \in 1 .. 10 : Pieces[i] \in {"pkt", "shm_sws", "dma_sws", "yuv_frame", "image",
                              "codec_ctx", "state", "egl_ctx", "egl_display", "egl_context"}
    BY DEF Pieces
  <2> QED BY <1>1, <1>5, <2>1 DEF egl_capture_init, cleanup_encoder
<1> QED BY <1>2, <1>3, <1>4, <1>5

\* encoder_teardown leaves at most the pixels.
LEMMA TeardownLeaves ==
    ASSUME NEW held \in SUBSET HS
    PROVE  encoder_teardown(held) \subseteq {"pixel_data"}
BY DEF encoder_teardown, egl_capture_destroy, HS

\* Pieces acquired on the way are pieces.
LEMMA AcquiredType ==
    ASSUME NEW k \in 0 .. 11
    PROVE  Acquired(k) \in SUBSET HS
<1>1. \A i \in 1 .. 11 : Pieces[i] \in HS
  BY DEF Pieces, HS
<1> QED BY <1>1, PartOf

-----------------------------------------------------------------------------
(* The steps of the main thread *)

\* A step of the main thread that keeps the thread part keeps all of the
\* invariant.
LEMMA MainKeeps ==
    ASSUME IInv, UNCHANGED <<enc, tr, video, cl, env>>,
           MainType', SesType', ThType', ThreadsInv',
           ses'.connected = ses.connected, ses.cancelled \subseteq ses'.cancelled,
           \/ th'["encode"] \in {th["encode"], "run", "none"}
           \/ th["encode"] = "ended",
           "visitor gone" \notin wrong'
    PROVE  IInv'
<1>1. Types'
  <2>1. EncType' /\ TrType'
    BY DEF IInv, Types, EncType, TrType
  <2>3. VideoType'
    BY DEF IInv, Types, VideoType
  <2>2. ClType' /\ env' \in Profiles
    BY DEF IInv, Types, ClType
  <2> QED BY <2>1, <2>2, <2>3 DEF Types
<1>2. EncoderLeavesNothing'
  BY DEF IInv, EncoderLeavesNothing
<1>3. VisitorInv' /\ FramesInv'
  BY DEF IInv, VisitorInv, FramesInv, Pending
<1>4. StreamInv'
  BY DEF IInv, StreamInv
<1> QED BY <1>1, <1>2, <1>3, <1>4 DEF IInv

\* session_start: all is created before the threads, or nothing is started.
LEMMA StartStep == IInv /\ session_start /\ UNCHANGED env => IInv'
<1> SUFFICES ASSUME IInv, session_start, UNCHANGED env PROVE IInv'
  OBVIOUS
<1> USE DEF IInv, Types
<1>1. UNCHANGED <<enc, tr, video, cl, game, wrong>> /\ main.pc = "create"
  BY DEF session_start
<1>2. CASE /\ ses' = [ses EXCEPT !.live = Range(Resources), !.ptr = Range(Resources),
                                  !.states = [t \in Range(Threads) |-> 1]]
           /\ th' = [t \in Range(Threads) |-> "run"]
           /\ main' = [main EXCEPT !.pc = "launch"]
  <2>1. /\ ses' = [ses EXCEPT !.live = RS, !.ptr = RS, !.states = [t \in TS |-> 1]]
        /\ th' = [t \in TS |-> "run"]
    BY <1>2, ThreadSet, ResourceSet
  <2>2. MainType' /\ ThType'
    BY <1>2, <2>1 DEF MainType, ThType
  <2>3. SesType'
    BY <2>1 DEF SesType
  <2>4. ThreadsInv'
    <3>1. main'.pc = "launch" /\ main'.failed = main.failed
      BY <1>2 DEF MainType
    <3>2. ses'.live = RS /\ ses'.ptr = RS /\ \A t \in TS : ses'.states[t] = 1 /\ th'[t] = "run"
      BY <2>1 DEF SesType
    <3> QED BY <1>1, <3>1, <3>2 DEF ThreadsInv
  <2>5. th'["encode"] = "run" /\ ses'.connected = ses.connected
        /\ ses'.cancelled = ses.cancelled
    BY <2>1 DEF TS, SesType
  <2>6. "visitor gone" \notin wrong'
    BY <1>1 DEF VisitorInv
  <2> QED BY <1>1, <2>2, <2>3, <2>4, <2>5, <2>6, MainKeeps
<1>3. CASE /\ \E k \in 0 .. Len(Resources) - 1 :
                LET created == Range(SubSeq(Resources, 1, k)) IN
                ses' = [ses EXCEPT !.live = created, !.ptr = created]
           /\ main' = [main EXCEPT !.pc = "unwind", !.failed = TRUE]
           /\ UNCHANGED th
  <2>1. PICK k \in 0 .. 6 : ses' = [ses EXCEPT !.live = Range(SubSeq(Resources, 1, k)),
                                              !.ptr = Range(SubSeq(Resources, 1, k))]
    <3>1. Len(Resources) - 1 = 6
      BY DEF Resources
    <3> QED BY <1>3, <3>1
  <2>2. Range(SubSeq(Resources, 1, k)) \in SUBSET RS
    <3>1. \A i \in 1 .. k : Resources[i] \in RS
      BY DEF Resources, RS
    <3>2. SubSeq(Resources, 1, k) \in Seq(RS)
      BY <3>1, SubSeqProperties
    <3> DEFINE s == SubSeq(Resources, 1, k)
    <3> HIDE DEF s
    <3>3. s \in Seq(RS)
      BY <3>2 DEF s
    <3>4. Range(s) \in SUBSET RS
      BY <3>3, LenProperties, ElementOfSeq DEF Range
    <3> QED BY <3>4 DEF s
  <2>3. MainType' /\ ThType'
    BY <1>3 DEF MainType, ThType
  <2>4. SesType'
    BY <2>1, <2>2 DEF SesType
  <2>5. ses'.connected = ses.connected /\ ses'.cancelled = ses.cancelled
        /\ ses'.states = ses.states
    BY <2>1 DEF SesType
  <2>6. ThreadsInv'
    BY <1>1, <1>3, <2>5 DEF MainType, ThreadsInv
  <2>7. "visitor gone" \notin wrong'
    BY <1>1 DEF VisitorInv
  <2> QED BY <1>1, <1>3, <2>3, <2>4, <2>5, <2>6, <2>7, MainKeeps
<1> QED BY <1>2, <1>3 DEF session_start

\* session_launch_game keeps the invariant.
LEMMA LaunchStep == IInv /\ session_launch_game /\ UNCHANGED env => IInv'
<1> SUFFICES ASSUME IInv, session_launch_game, UNCHANGED env PROVE IInv'
  OBVIOUS
<1> USE DEF IInv, Types
<1>1. /\ UNCHANGED <<th, enc, tr, video, cl, wrong>> /\ main.pc = "launch"
      /\ \E p \in {"game", "error"} : ses' = [ses EXCEPT !.pid = p]
      /\ \/ main' = [main EXCEPT !.pc = "poll"]
         \/ main' = [main EXCEPT !.pc = "unwind", !.failed = TRUE]
  BY DEF session_launch_game
<1>2. MainType' /\ SesType' /\ ThType'
  <2>1. MainType'
    BY <1>1 DEF MainType
  <2>2. SesType'
    BY <1>1 DEF SesType
  <2>3. ThType'
    BY <1>1 DEF ThType
  <2> QED BY <2>1, <2>2, <2>3
<1>3. /\ ses'.live = ses.live /\ ses'.ptr = ses.ptr /\ ses'.states = ses.states
      /\ ses'.connected = ses.connected /\ ses'.cancelled = ses.cancelled
  BY <1>1 DEF SesType
<1>4. (main'.pc = "poll" /\ main'.failed = main.failed) \/ (main'.pc = "unwind" /\ main'.failed)
  BY <1>1 DEF MainType
<1>5. ThreadsInv'
  BY <1>1, <1>3, <1>4 DEF ThreadsInv
<1>6. "visitor gone" \notin wrong'
  BY <1>1 DEF VisitorInv
<1> QED BY <1>1, <1>2, <1>3, <1>5, <1>6, MainKeeps

\* The error labels of session_start destroy, and the session has failed.
LEMMA UnwindStep == IInv /\ Unwind /\ UNCHANGED env => IInv'
<1> SUFFICES ASSUME IInv, Unwind, UNCHANGED env PROVE IInv'
  OBVIOUS
<1> USE DEF IInv, Types
<1>1. /\ UNCHANGED <<th, enc, tr, video, cl>> /\ main.pc = "unwind"
      /\ ses' = [ses EXCEPT !.live = @ \ ses.live]
      /\ main' = [main EXCEPT !.pc = "notify"]
      /\ wrong' \subseteq wrong \union Bad
  BY DEF Unwind, Destroy, Bad
<1>2. MainType' /\ SesType' /\ ThType'
  BY <1>1 DEF MainType, SesType, ThType
<1>3. /\ ses'.states = ses.states
      /\ ses'.connected = ses.connected /\ ses'.cancelled = ses.cancelled
      /\ main'.pc = "notify" /\ main'.failed = main.failed
  BY <1>1 DEF SesType, MainType
<1>4. main.failed
  BY <1>1 DEF ThreadsInv
<1>5. ThreadsInv'
  BY <1>1, <1>3, <1>4 DEF ThreadsInv
<1>6. "visitor gone" \notin wrong'
  BY <1>1 DEF VisitorInv, Bad
<1> QED BY <1>1, <1>2, <1>3, <1>5, <1>6, MainKeeps

\* session_poll joins a thread that has ended only.
LEMMA PollStep == IInv /\ session_poll /\ UNCHANGED env => IInv'
<1> SUFFICES ASSUME IInv, session_poll, UNCHANGED env PROVE IInv'
  OBVIOUS
<1> USE DEF IInv, Types
<1>1. /\ UNCHANGED <<enc, tr, video, cl, wrong>> /\ main.pc = "poll"
      /\ main' = [main EXCEPT !.pc = "notify"]
  BY DEF session_poll
<1>2. main'.pc = "notify" /\ main'.failed = main.failed /\ MainType'
  BY <1>1 DEF MainType
<1>3. ~main.failed /\ ses.live = RS /\ ses.ptr = RS
      /\ \A t \in TS : ses.states[t] = 1 /\ th[t] \in {"run", "ended"}
  BY <1>1 DEF ThreadsInv
<1>4. "visitor gone" \notin wrong'
  BY <1>1 DEF VisitorInv
<1>5. CASE UNCHANGED <<ses, th>>
  <2>1. SesType' /\ ThType'
    BY <1>5 DEF SesType, ThType
  <2>2. ThreadsInv'
    BY <1>1, <1>2, <1>5 DEF ThreadsInv
  <2> QED BY <1>1, <1>2, <1>4, <1>5, <2>1, <2>2, MainKeeps
<1>6. CASE Waited /\ UNCHANGED th
  <2>1. SesType' /\ ThType'
    BY <1>6 DEF SesType, ThType, Waited
  <2>2. /\ ses'.live = ses.live /\ ses'.ptr = ses.ptr /\ ses'.states = ses.states
        /\ ses'.connected = ses.connected /\ ses'.cancelled = ses.cancelled
    BY <1>6 DEF SesType, Waited
  <2>3. ThreadsInv'
    BY <1>1, <1>2, <1>6, <2>2 DEF ThreadsInv
  <2> QED BY <1>1, <1>2, <1>4, <1>6, <2>1, <2>2, <2>3, MainKeeps
<1>7. CASE Ended # {} /\ Joined(Threads[Min(Ended)])
  <2>1. Ended \in SUBSET (1 .. 6)
    BY ThreadOrder DEF Ended
  <2>2. PICK k \in Ended : Joined(Threads[k])
    BY <1>7, <2>1, MinOf
  <2> DEFINE t == Threads[k]
  <2>3. k \in 1 .. 6 /\ t \in TS /\ th[t] = "ended"
    BY <1>3, <2>1, ThreadOrder DEF Ended
  <2>4. th' = [th EXCEPT ![t] = "gone"] /\ ses' = [ses EXCEPT !.states[t] = 0]
    BY <2>2 DEF Joined
  <2> HIDE DEF t
  <2>5. SesType' /\ ThType'
    BY <2>3, <2>4 DEF SesType, ThType
  <2>6. /\ ses'.live = ses.live /\ ses'.ptr = ses.ptr
        /\ ses'.states = [ses.states EXCEPT ![t] = 0]
        /\ ses'.connected = ses.connected /\ ses'.cancelled = ses.cancelled
    BY <2>4 DEF SesType
  <2>7. \A u \in TS : /\ ses'.states[u] = IF u = t THEN 0 ELSE ses.states[u]
                      /\ th'[u] = IF u = t THEN "gone" ELSE th[u]
    BY <2>3, <2>4, <2>6 DEF SesType, ThType
  <2>8. ThreadsInv'
    BY <1>1, <1>2, <1>3, <2>6, <2>7 DEF ThreadsInv
  <2>9. th'["encode"] = th["encode"] \/ th["encode"] = "ended"
    BY <2>3, <2>7 DEF TS
  <2> QED BY <1>1, <1>2, <1>4, <2>5, <2>6, <2>8, <2>9, MainKeeps
<1> QED BY <1>5, <1>6, <1>7 DEF session_poll

\* The connection to the server is lost.
LEMMA SidecarStep == IInv /\ SidecarExits /\ UNCHANGED env => IInv'
<1> SUFFICES ASSUME IInv, SidecarExits, UNCHANGED env PROVE IInv'
  OBVIOUS
<1> USE DEF IInv, Types
<1>1. /\ UNCHANGED <<ses, th, enc, tr, video, cl, wrong>> /\ main.pc = "poll"
      /\ main' = [main EXCEPT !.pc = "notify"]
  BY DEF SidecarExits
<1>2. main'.pc = "notify" /\ main'.failed = main.failed /\ MainType'
  BY <1>1 DEF MainType
<1>3. SesType' /\ ThType'
  BY <1>1 DEF SesType, ThType
<1>4. ThreadsInv'
  BY <1>1, <1>2 DEF ThreadsInv
<1>5. "visitor gone" \notin wrong'
  BY <1>1 DEF VisitorInv
<1> QED BY <1>1, <1>2, <1>3, <1>4, <1>5, MainKeeps

\* A signal is neither of the two.
LEMMA KillWrong ==
    ASSUME NEW signal, Kill(signal)
    PROVE  wrong' \intersect Bad = wrong \intersect Bad
           /\ ("visitor gone" \in wrong' <=> "visitor gone" \in wrong)
BY DEF Kill, Bad

\* session_teardown up to the loop over the threads.
LEMMA NotifyStep == IInv /\ TeardownNotify /\ UNCHANGED env => IInv'
<1> SUFFICES ASSUME IInv, TeardownNotify, UNCHANGED env PROVE IInv'
  OBVIOUS
<1> USE DEF IInv, Types
<1>1. /\ UNCHANGED <<th, enc, tr, video, cl>> /\ main.pc = "notify"
      /\ ses' = [ses EXCEPT !.active = FALSE]
      /\ main' = [main EXCEPT !.pc = "cancel", !.i = 1]
      /\ Kill(15)
  BY DEF TeardownNotify
<1>2. main'.pc = "cancel" /\ main'.failed = main.failed /\ main'.i = 1 /\ MainType'
  <2>1. 1 \in 1 .. 7
    OBVIOUS
  <2> QED BY <1>1, <2>1 DEF MainType
<1>3. SesType' /\ ThType'
  BY <1>1 DEF SesType, ThType
<1>4. /\ ses'.live = ses.live /\ ses'.ptr = ses.ptr /\ ses'.states = ses.states
      /\ ses'.connected = ses.connected /\ ses'.cancelled = ses.cancelled
  BY <1>1 DEF SesType
<1>5. wrong' \intersect Bad = wrong \intersect Bad /\ "visitor gone" \notin wrong'
  BY <1>1, KillWrong DEF VisitorInv
<1>6. ThreadsInv'
  <2>1. \A k \in 1 .. main'.i - 1 : FALSE
    BY <1>2
  <2>2. ~main'.failed => Bad \intersect wrong' = {}
    BY <1>2, <1>5 DEF ThreadsInv
  <2> QED BY <1>1, <1>2, <1>4, <2>1, <2>2 DEF ThreadsInv
<1> QED BY <1>1, <1>2, <1>3, <1>4, <1>5, <1>6, MainKeeps

\* The threads before the one that is cancelled do not run: they were joined,
\* or have state 0.
LEMMA CancelStep == IInv /\ TeardownCancel /\ UNCHANGED env => IInv'
<1> SUFFICES ASSUME IInv, TeardownCancel, UNCHANGED env PROVE IInv'
  OBVIOUS
<1> USE DEF IInv, Types
<1> DEFINE m == Min(Running)
<1>1. /\ UNCHANGED <<th, enc, tr, video, cl, wrong>> /\ main.pc = "cancel" /\ Running # {}
      /\ ses' = [ses EXCEPT !.cancelled = @ \union {Threads[m]}]
      /\ main' = [main EXCEPT !.pc = "join", !.i = m]
  BY DEF TeardownCancel
<1>2. main.i \in 1 .. 7
  BY DEF MainType
<1>3. Running \in SUBSET (1 .. 6)
  BY <1>2, ThreadOrder DEF Running
<1>4. m \in 1 .. 6 /\ \A k \in Running : m <= k
  BY <1>1, <1>3, MinOf
<1> HIDE DEF m
<1>5. main'.pc = "join" /\ main'.failed = main.failed /\ main'.i = m /\ MainType'
  <2>1. m \in 1 .. 7
    BY <1>4
  <2> QED BY <1>1, <2>1 DEF MainType
<1>6. SesType' /\ ThType'
  <2>1. Threads[m] \in TS
    BY <1>4, ThreadOrder
  <2> QED BY <1>1, <2>1 DEF SesType, ThType
<1>7. /\ ses'.live = ses.live /\ ses'.ptr = ses.ptr /\ ses'.states = ses.states
      /\ ses'.connected = ses.connected /\ ses.cancelled \subseteq ses'.cancelled
  BY <1>1 DEF SesType
<1>8. ASSUME NEW k \in 1 .. m - 1 PROVE th[Threads[k]] # "run"
  <2>1. k \in 1 .. 6 /\ ~(m <= k)
    BY <1>4
  <2>2. CASE k < main.i
    <3>1. k \in 1 .. main.i - 1
      BY <1>2, <2>1, <2>2
    <3> QED BY <1>1, <3>1 DEF ThreadsInv
  <2>3. CASE ~(k < main.i)
    <3>1. k \in main.i .. 6
      BY <1>2, <2>1, <2>3
    <3>2. Threads[k] \in TS /\ ses.states[Threads[k]] # 1
      BY <1>4, <2>1, <3>1, ThreadOrder DEF Running
    <3>3. ses.states[Threads[k]] = 0
      BY <3>2 DEF SesType
    <3> QED BY <3>2, <3>3 DEF ThreadsInv
  <2> QED BY <2>2, <2>3
<1>9. ThreadsInv'
  <2>1. \A k \in 1 .. main'.i - 1 : th'[Threads[k]] # "run"
    BY <1>1, <1>5, <1>8
  <2>2. main'.i <= 6
    BY <1>4, <1>5
  <2> QED BY <1>1, <1>5, <1>7, <2>1, <2>2 DEF ThreadsInv
<1>10. "visitor gone" \notin wrong'
  BY <1>1 DEF VisitorInv
<1> QED BY <1>1, <1>5, <1>6, <1>7, <1>9, <1>10, MainKeeps

\* After the join the thread does not run, and the loop goes on to the next
\* one.
LEMMA JoinStep == IInv /\ TeardownJoin /\ UNCHANGED env => IInv'
<1> SUFFICES ASSUME IInv, TeardownJoin, UNCHANGED env PROVE IInv'
  OBVIOUS
<1> USE DEF IInv, Types
<1> DEFINE t == Threads[main.i]
<1>1. /\ UNCHANGED <<ses, enc, tr, video, cl, wrong>> /\ main.pc = "join"
      /\ th[t] = "ended" /\ th' = [th EXCEPT ![t] = "gone"]
      /\ main' = [main EXCEPT !.pc = "cancel", !.i = main.i + 1]
  BY DEF TeardownJoin
<1>2. main.i \in 1 .. 6
  BY <1>1 DEF MainType, ThreadsInv
<1>3. t \in TS
  BY <1>2, ThreadOrder
<1> HIDE DEF t
<1>4. main'.pc = "cancel" /\ main'.failed = main.failed /\ main'.i = main.i + 1 /\ MainType'
  <2>1. main.i + 1 \in 1 .. 7
    BY <1>2
  <2> QED BY <1>1, <2>1 DEF MainType
<1>5. SesType' /\ ThType'
  BY <1>1, <1>3 DEF SesType, ThType
<1>6. \A u \in TS : th'[u] = IF u = t THEN "gone" ELSE th[u]
  BY <1>1, <1>3 DEF ThType
<1>7. \A u \in TS : th[u] # "run" => th'[u] # "run"
  BY <1>6
<1>8. ASSUME NEW k \in 1 .. main'.i - 1 PROVE th'[Threads[k]] # "run"
  <2>1. k \in 1 .. main.i /\ k \in 1 .. 6
    BY <1>2, <1>4
  <2>2. Threads[k] \in TS
    BY <2>1, ThreadOrder
  <2>3. CASE k = main.i
    BY <1>6, <2>2, <2>3 DEF t
  <2>4. CASE k # main.i
    <3>1. k \in 1 .. main.i - 1
      BY <1>2, <2>1, <2>4
    <3>2. th[Threads[k]] # "run"
      BY <1>1, <3>1 DEF ThreadsInv
    <3> QED BY <1>7, <2>2, <3>2
  <2> QED BY <2>3, <2>4
<1>9. ThreadsInv'
  BY <1>1, <1>4, <1>7, <1>8 DEF ThreadsInv
<1>10. "visitor gone" \notin wrong'
  BY <1>1 DEF VisitorInv
<1>11. th'["encode"] = th["encode"] \/ th["encode"] = "ended"
  BY <1>1, <1>6 DEF TS
<1> QED BY <1>1, <1>4, <1>5, <1>9, <1>10, <1>11, MainKeeps

\* At the end of the loop no thread runs.
LEMMA KillStep == IInv /\ TeardownKill /\ UNCHANGED env => IInv'
<1> SUFFICES ASSUME IInv, TeardownKill, UNCHANGED env PROVE IInv'
  OBVIOUS
<1> USE DEF IInv, Types
<1>1. /\ UNCHANGED <<ses, th, enc, tr, video, cl>> /\ main.pc = "cancel" /\ Running = {}
      /\ main' = [main EXCEPT !.pc = "destroy"]
      /\ Kill(9)
  BY DEF TeardownKill
<1>2. main'.pc = "destroy" /\ main'.failed = main.failed /\ MainType'
  BY <1>1 DEF MainType
<1>3. SesType' /\ ThType'
  BY <1>1 DEF SesType, ThType
<1>4. wrong' \intersect Bad = wrong \intersect Bad /\ "visitor gone" \notin wrong'
  BY <1>1, KillWrong DEF VisitorInv
<1>5. ASSUME NEW t \in TS PROVE th[t] # "run"
  <2>1. PICK k \in 1 .. 6 : Threads[k] = t
    BY ThreadOrder
  <2>2. main.i \in 1 .. 7
    BY DEF MainType
  <2>3. CASE k < main.i
    <3>1. k \in 1 .. main.i - 1
      BY <2>2, <2>3
    <3> QED BY <1>1, <2>1, <3>1 DEF ThreadsInv
  <2>4. CASE ~(k < main.i)
    <3>1. k \in main.i .. 6
      BY <2>2, <2>4
    <3>2. ses.states[t] # 1
      BY <1>1, <2>1, <3>1, ThreadOrder DEF Running
    <3>3. ses.states[t] = 0
      BY <3>2 DEF SesType
    <3> QED BY <3>3 DEF ThreadsInv
  <2> QED BY <2>3, <2>4
<1>6. ThreadsInv'
  <2>1. ~main'.failed => Bad \intersect wrong' = {}
    BY <1>2, <1>4 DEF ThreadsInv
  <2> QED BY <1>1, <1>2, <1>5, <2>1 DEF ThreadsInv
<1> QED BY <1>1, <1>2, <1>3, <1>4, <1>6, MainKeeps

\* session_teardown destroys what exists and nobody uses, if the start had not
\* failed.
LEMMA DestroyStep == IInv /\ TeardownDestroy /\ UNCHANGED env => IInv'
<1> SUFFICES ASSUME IInv, TeardownDestroy, UNCHANGED env PROVE IInv'
  OBVIOUS
<1> USE DEF IInv, Types
<1>1. /\ UNCHANGED <<th, enc, tr, video, cl>> /\ main.pc = "destroy"
      /\ Destroy(ses.ptr \union {"mutex", "cond"})
      /\ main' = [main EXCEPT !.pc = "done"]
  BY DEF TeardownDestroy
<1>2. main'.pc = "done" /\ main'.failed = main.failed /\ MainType'
  BY <1>1 DEF MainType
<1>3. /\ ses' = [ses EXCEPT !.live = @ \ (ses.ptr \union {"mutex", "cond"})]
      /\ wrong' \subseteq wrong \union Bad
  BY <1>1 DEF Destroy, Bad
<1>4. SesType' /\ ThType'
  BY <1>1, <1>3 DEF SesType, ThType
<1>5. /\ ses'.ptr = ses.ptr /\ ses'.states = ses.states
      /\ ses'.connected = ses.connected /\ ses'.cancelled = ses.cancelled
  BY <1>3 DEF SesType
<1>6. \A t \in TS : th[t] # "run"
  BY <1>1 DEF ThreadsInv
<1>7. ASSUME ~main.failed PROVE Bad \intersect wrong' = {}
  <2>1. ses.live = RS /\ ses.ptr = RS /\ Bad \intersect wrong = {}
    BY <1>1, <1>7 DEF ThreadsInv
  <2>2. ses.ptr \union {"mutex", "cond"} \subseteq ses.live
    BY <2>1 DEF RS
  <2>3. ~\E i \in DOMAIN Threads : th[Threads[i]] = "run"
    BY <1>6, ThreadOrder
  <2>4. wrong' = wrong
    BY <1>1, <2>2, <2>3 DEF Destroy
  <2> QED BY <2>1, <2>4
<1>8. ThreadsInv'
  BY <1>1, <1>2, <1>5, <1>6, <1>7 DEF ThreadsInv
<1>9. "visitor gone" \notin wrong'
  BY <1>3 DEF VisitorInv, Bad
<1> QED BY <1>1, <1>2, <1>4, <1>5, <1>8, <1>9, MainKeeps

-----------------------------------------------------------------------------
(* Sequences of packets *)

\* A packet moved from the head of a queue to the end of what came before.
LEMMA MoveHead ==
    ASSUME NEW S, NEW s \in Seq(S), NEW q \in Seq(S), q # << >>
    PROVE  Append(s, Head(q)) \o Tail(q) = s \o q
<1>1. Head(q) \in S /\ Tail(q) \in Seq(S)
  BY HeadTailProperties
<1>2. Append(s, Head(q)) = s \o <<Head(q)>>
  BY <1>1, AppendIsConcat
<1>3. (s \o <<Head(q)>>) \o Tail(q) = s \o (<<Head(q)>> \o Tail(q))
  BY <1>1, ConcatAssociative
<1>4. <<Head(q)>> \o Tail(q) = q
  OBVIOUS
<1> QED BY <1>2, <1>3, <1>4

\* A packet pushed to the end of the last of two sequences.
LEMMA ConcatAppend ==
    ASSUME NEW S, NEW s \in Seq(S), NEW q \in Seq(S), NEW e \in S
    PROVE  s \o Append(q, e) = Append(s \o q, e)
<1>1. <<e>> \in Seq(S) /\ s \o q \in Seq(S)
  BY ConcatProperties
<1>2. Append(q, e) = q \o <<e>>
  BY AppendIsConcat
<1>3. Append(s \o q, e) = (s \o q) \o <<e>>
  BY <1>1, AppendIsConcat
<1>4. (s \o q) \o <<e>> = s \o (q \o <<e>>)
  BY <1>1, ConcatAssociative
<1> QED BY <1>2, <1>3, <1>4

\* The packets of one frame more.
LEMMA NextPacket ==
    ASSUME NEW n \in Nat
    PROVE  Packets(n + 1) = Append(Packets(n), [n |-> n, is_description |-> n % GopSize = 0])
<1> DEFINE p(i) == [n |-> i - 1, is_description |-> (i - 1) % GopSize = 0]
<1> DEFINE P == [i \in 1 .. n |-> p(i)]
<1> DEFINE Q == [i \in 1 .. n + 1 |-> p(i)]
<1> DEFINE U == {p(i) : i \in 1 .. n + 1}
<1>1. P \in Seq(U) /\ Q \in Seq(U) /\ Len(P) = n /\ Len(Q) = n + 1
  <2> HIDE DEF p
  <2> QED OBVIOUS
<1>2. p(n + 1) \in U /\ p(n + 1) = [n |-> n, is_description |-> n % GopSize = 0]
  <2>1. n + 1 \in 1 .. n + 1 /\ n + 1 - 1 = n
    OBVIOUS
  <2> QED BY <2>1
<1> DEFINE A == Append(P, p(n + 1))
<1> HIDE DEF p, U
<1>3. /\ A \in Seq(U) /\ Len(A) = n + 1
      /\ \A i \in 1 .. n : A[i] = P[i]
      /\ A[n + 1] = p(n + 1)
  BY <1>1, <1>2, AppendProperties
<1>4. \A i \in 1 .. n + 1 : Q[i] = A[i]
  <2> TAKE i \in 1 .. n + 1
  <2>1. i \in 1 .. n \/ i = n + 1
    OBVIOUS
  <2> HIDE DEF A
  <2> QED BY <1>3, <2>1
<1>5. Q = A
  <2> HIDE DEF A, Q
  <2> QED BY <1>1, <1>3, <1>4, SeqEqual
<1> QED BY <1>2, <1>5 DEF Packets, p

-----------------------------------------------------------------------------
(* The steps of the encoder *)

\* A thread that ends disturbs nothing the main thread counts on.
LEMMA EndedThread ==
    ASSUME IInv, NEW t \in TS, th[t] = "run", th' = [th EXCEPT ![t] = "ended"],
           UNCHANGED <<main, ses, wrong>>
    PROVE  MainType' /\ SesType' /\ ThType' /\ ThreadsInv'
<1> USE DEF IInv, Types
<1>1. MainType' /\ SesType' /\ ThType'
  BY DEF MainType, SesType, ThType
<1>2. \A u \in TS : th'[u] = IF u = t THEN "ended" ELSE th[u]
  BY DEF ThType
<1>3. \A u \in TS : th[u] # "run" => th'[u] # "run"
  BY <1>2
<1>4. main.pc # "create"
  BY DEF ThreadsInv
<1>5. main.pc \in {"cancel", "join"} => \A k \in 1 .. main.i - 1 : th'[Threads[k]] # "run"
  <2> SUFFICES ASSUME main.pc \in {"cancel", "join"}, NEW k \in 1 .. main.i - 1
               PROVE  th'[Threads[k]] # "run"
    OBVIOUS
  <2>1. main.i \in 1 .. 7
    BY DEF MainType
  <2>2. k \in 1 .. 6
    BY <2>1
  <2>3. Threads[k] \in TS /\ th[Threads[k]] # "run"
    BY <2>2, ThreadOrder DEF ThreadsInv
  <2> QED BY <1>3, <2>3
<1>6. main.pc \in {"launch", "poll"} => \A u \in TS : th'[u] \in {"run", "ended"}
  BY <1>2 DEF ThreadsInv
<1>7. ThreadsInv'
  BY <1>3, <1>4, <1>5, <1>6 DEF ThreadsInv
<1> QED BY <1>1, <1>7

\* The thread part depends on the threads, the session and the errors only.
LEMMA SameThreads ==
    ASSUME IInv, UNCHANGED <<main, ses, th, wrong>>
    PROVE  MainType' /\ SesType' /\ ThType' /\ ThreadsInv'
BY DEF IInv, Types, MainType, SesType, ThType, ThreadsInv

\* The encoder thread ends on one of its ways out.
LEMMA EncoderEnds ==
    ASSUME IInv, th["encode"] = "run", NEW pc \in {"end", "cut"}, NEW held \in SUBSET HS,
           EncodeEnds(pc, held), UNCHANGED <<main, ses, tr, video, cl, wrong, env>>,
           env.fault = "encode" \/ "encode" \in ses.cancelled,
           held \subseteq {"pixel_data"} \/ (pc = "cut" /\ "encode" \in ses.cancelled)
    PROVE  IInv'
<1> USE DEF IInv, Types
<1>1. MainType' /\ SesType' /\ ThType' /\ ThreadsInv'
  <2>1. "encode" \in TS
    BY DEF TS
  <2> QED BY <2>1, EndedThread DEF EncodeEnds
<1>2. /\ EncType' /\ enc'.pc = pc /\ enc'.frame = "none" /\ enc'.held = held
      /\ enc'.count = enc.count
  BY DEF EncodeEnds, EncType
<1>3. TrType' /\ VideoType' /\ ClType' /\ env' \in Profiles
  BY DEF TrType, VideoType, ClType
<1>4. EncoderLeavesNothing'
  BY <1>2 DEF EncoderLeavesNothing
<1>5. VisitorInv'
  BY DEF VisitorInv
<1>6. FramesInv'
  <2>1. video.shown \in Nat /\ enc.count \in Nat
    BY DEF VideoType, EncType
  <2>2. enc'.count + Pending' <= video'.shown
    BY <1>2, <2>1 DEF FramesInv, Pending
  <2> QED BY <2>2 DEF FramesInv
<1>7. StreamInv'
  BY <1>2 DEF StreamInv
<1> QED BY <1>1, <1>2, <1>3, <1>4, <1>5, <1>6, <1>7

\* The encoder goes on, and what it encoded stays as it was.
LEMMA EncoderGoesOn ==
    ASSUME IInv, th["encode"] = "run", EncType', VideoType', enc'.count = enc.count,
           video'.queue = video.queue, video'.shown = video.shown, Pending' <= Pending,
           UNCHANGED <<main, ses, th, tr, cl, wrong, env>>
    PROVE  IInv'
<1> USE DEF IInv, Types
<1>1. MainType' /\ SesType' /\ ThType' /\ ThreadsInv'
  BY SameThreads
<1>2. TrType' /\ ClType' /\ env' \in Profiles
  BY DEF TrType, ClType
<1>3. EncoderLeavesNothing'
  BY DEF EncoderLeavesNothing
<1>4. VisitorInv'
  BY DEF VisitorInv
<1>5. FramesInv'
  <2>1. video.shown \in Nat /\ enc.count \in Nat
    BY DEF VideoType, EncType
  <2>2. Pending \in Nat /\ Pending' \in Nat
    BY DEF Pending
  <2>3. enc'.count + Pending' <= video'.shown
    BY <2>1, <2>2 DEF FramesInv
  <2> QED BY <2>3 DEF FramesInv
<1>6. StreamInv'
  BY DEF StreamInv
<1> QED BY <1>1, <1>2, <1>3, <1>4, <1>5, <1>6

\* encoder_startup succeeds, fails and is undone, or is cut.
LEMMA StartupStep == IInv /\ encoder_startup /\ UNCHANGED env => IInv'
<1> SUFFICES ASSUME IInv, encoder_startup, UNCHANGED env PROVE IInv'
  OBVIOUS
<1>1. /\ UNCHANGED <<main, ses, tr, video, cl, wrong>> /\ th["encode"] = "run"
      /\ enc.pc = "startup"
  BY DEF encoder_startup
<1>2. Len(Pieces) = 11
  BY DEF Pieces
<1>3. CASE enc' = [enc EXCEPT !.pc = "loop", !.held = Acquired(Len(Pieces))] /\ UNCHANGED th
  <2>1. Acquired(Len(Pieces)) \in SUBSET HS
    BY <1>2, AcquiredType
  <2>2. EncType' /\ enc'.count = enc.count /\ enc'.pc = "loop"
    BY <1>3, <2>1 DEF IInv, Types, EncType
  <2>3. VideoType'
    BY <1>1 DEF IInv, Types, VideoType
  <2>4. Pending' <= Pending
    BY <1>1, <2>2 DEF Pending
  <2> QED BY <1>1, <1>3, <2>2, <2>3, <2>4, EncoderGoesOn
<1>4. CASE env.fault = "encode" /\ \E k \in 0 .. Len(Pieces) - 1 :
              EncodeEnds("end", cleanup_encoder(egl_capture_init(k)))
  <2>1. PICK k \in 0 .. 10 : EncodeEnds("end", cleanup_encoder(egl_capture_init(k)))
    BY <1>2, <1>4
  <2>2. cleanup_encoder(egl_capture_init(k)) = {}
    BY StartUndone
  <2>3. EncodeEnds("end", {})
    BY <2>1, <2>2, Zenon
  <2> QED BY <1>1, <1>4, <2>3, EncoderEnds
<1>5. CASE "encode" \in ses.cancelled /\ \E k \in 1 .. Len(Pieces) : EncodeEnds("cut", Acquired(k))
  <2>1. PICK k \in 1 .. 11 : EncodeEnds("cut", Acquired(k))
    BY <1>2, <1>5
  <2>2. Acquired(k) \in SUBSET HS
    BY AcquiredType
  <2> QED BY <1>1, <1>5, <2>1, <2>2, EncoderEnds
<1> QED BY <1>3, <1>4, <1>5 DEF encoder_startup

\* The head of the loop of encode_main, and a frame that is dropped.
LEMMA EncodeLoopStep == IInv /\ (EncodeLoop \/ EncodeDrop) /\ UNCHANGED env => IInv'
<1> SUFFICES ASSUME IInv, EncodeLoop \/ EncodeDrop, UNCHANGED env PROVE IInv'
  OBVIOUS
<1>1. UNCHANGED <<main, ses, th, tr, video, cl, wrong>> /\ th["encode"] = "run"
  BY DEF EncodeLoop, EncodeDrop
<1>2. EncType' /\ enc'.count = enc.count /\ enc'.pc # "frame"
  BY DEF IInv, Types, EncType, EncodeLoop, EncodeDrop
<1>3. VideoType'
  BY <1>1 DEF IInv, Types, VideoType
<1>4. Pending' <= Pending
  BY <1>1, <1>2 DEF Pending
<1> QED BY <1>1, <1>2, <1>3, <1>4, EncoderGoesOn

\* The frame that waits becomes the one in hand.
LEMMA EncodeWaitStep == IInv /\ EncodeWait /\ UNCHANGED env => IInv'
<1> SUFFICES ASSUME IInv, EncodeWait, UNCHANGED env PROVE IInv'
  OBVIOUS
<1>1. /\ UNCHANGED <<main, ses, th, tr, cl, wrong>> /\ th["encode"] = "run"
      /\ enc.pc = "wait" /\ video.frame # "none"
      /\ enc' = [enc EXCEPT !.pc = "frame", !.frame = video.frame]
      /\ video' = [video EXCEPT !.frame = "none"]
  BY DEF EncodeWait
<1>2. /\ VideoType' /\ video'.queue = video.queue /\ video'.shown = video.shown
      /\ video'.frame = "none" /\ video.frame \in {"none", "shm", "dma"}
  BY <1>1 DEF IInv, Types, VideoType
<1>3. EncType' /\ enc'.count = enc.count /\ enc'.pc = "frame"
  BY <1>1, <1>2 DEF IInv, Types, EncType
<1>4. Pending' <= Pending
  BY <1>1, <1>2, <1>3 DEF Pending
<1> QED BY <1>1, <1>2, <1>3, <1>4, EncoderGoesOn

\* The packet of a frame follows the ones before it; the queue has room for it.
LEMMA PushStep ==
    ASSUME IInv, th["encode"] = "run", enc.pc = "frame", ~Dropped, NEW held \in SUBSET HS,
           avcodec_send_and_receive(held), UNCHANGED <<main, ses, tr, cl, wrong, env>>
    PROVE  IInv'
<1> USE DEF IInv, Types
<1> DEFINE p == [n |-> enc.count, is_description |-> enc.count % GopSize = 0]
<1>1. ses.connected /\ Len(video.queue) < VideoCap
  <2>1. Len(video.queue) \in Nat /\ Len(video.queue) <= VideoCap /\ VideoCap \in Nat
    BY SessionAssumption DEF VideoType, FramesInv
  <2> QED BY <2>1 DEF Dropped
<1>2. /\ video' = [video EXCEPT !.queue = Append(@, p)]
      /\ enc' = [enc EXCEPT !.pc = "loop", !.frame = "none", !.count = @ + 1, !.held = held]
      /\ UNCHANGED th
  BY <1>1 DEF avcodec_send_and_receive
<1>3. /\ EncType' /\ enc'.count = enc.count + 1 /\ enc'.pc = "loop" /\ enc.count \in Nat
  <2>1. enc.count \in Nat
    BY DEF EncType
  <2>2. enc.count + 1 \in Nat
    BY <2>1
  <2>3. enc' = [enc EXCEPT !.pc = "loop", !.frame = "none", !.count = enc.count + 1,
                           !.held = held]
    BY <1>2
  <2> DEFINE k == enc.count + 1
  <2> HIDE DEF k
  <2>4. EncType' /\ enc'.count = k /\ enc'.pc = "loop"
    BY <2>2, <2>3 DEF EncType, k
  <2> QED BY <2>1, <2>4 DEF k
<1>4. enc.count + Pending <= video.shown /\ video.shown <= MaxFrames /\ video.shown \in Nat
  <2>1. env.frames \in 0 .. MaxFrames /\ MaxFrames \in Nat
    BY SessionAssumption
  <2>2. video.shown \in Nat /\ enc.count \in Nat
    BY DEF VideoType, EncType
  <2>3. video.shown <= env.frames /\ enc.count + Pending <= video.shown
    BY DEF FramesInv
  <2> QED BY <2>1, <2>2, <2>3
<1>5. p \in Packet
  <2>1. enc.count < MaxFrames
    BY <1>3, <1>4, SessionAssumption DEF Pending
  <2>2. enc.count \in 0 .. MaxFrames - 1
    BY <1>3, <2>1, SessionAssumption
  <2> QED BY <2>2 DEF Packet
<1>6. /\ VideoType' /\ video'.queue = Append(video.queue, p) /\ video'.shown = video.shown
      /\ video'.frame = video.frame /\ video.queue \in Seq(Packet)
      /\ Len(video'.queue) = Len(video.queue) + 1
  <2>1. video.queue \in Seq(Packet)
    BY DEF VideoType
  <2>2. Append(video.queue, p) \in Seq(Packet) /\ Len(Append(video.queue, p)) = Len(video.queue) + 1
    BY <1>5, <2>1, AppendProperties
  <2> HIDE DEF p
  <2> QED BY <1>2, <2>1, <2>2 DEF VideoType
<1>7. MainType' /\ SesType' /\ ThType' /\ ThreadsInv'
  BY <1>2, SameThreads
<1>8. TrType' /\ ClType' /\ env' \in Profiles
  BY DEF TrType, ClType
<1>9. EncoderLeavesNothing' /\ VisitorInv'
  BY <1>2 DEF EncoderLeavesNothing, VisitorInv
<1>10. FramesInv'
  <2>1. enc'.count + Pending' <= video'.shown
    BY <1>3, <1>4, <1>6 DEF Pending
  <2>2. Len(video'.queue) <= VideoCap
    BY <1>1, <1>6, SessionAssumption
  <2> QED BY <1>6, <2>1, <2>2 DEF FramesInv
<1>11. StreamInv'
  <2>1. tr.visitor # NULL /\ tr.visitor \in Clients
    BY <1>1 DEF StreamInv, TrType
  <2> DEFINE v == tr.visitor
  <2>2. cl[v].got \in Seq(Packet) /\ cl[v].buf \in Seq(Packet)
    BY <2>1 DEF ClType
  <2>3. cl[v].got \o cl[v].buf \in Seq(Packet)
    BY <2>2, ConcatProperties
  <2>4. (cl[v].got \o cl[v].buf) \o video.queue = Packets(enc.count)
    BY <2>1 DEF StreamInv
  <2>5. (cl[v].got \o cl[v].buf) \o Append(video.queue, p)
           = Append((cl[v].got \o cl[v].buf) \o video.queue, p)
    <3> DEFINE s == cl[v].got \o cl[v].buf
    <3>1. s \in Seq(Packet) /\ video.queue \in Seq(Packet) /\ p \in Packet
      BY <1>5, <1>6, <2>3
    <3> HIDE DEF p, v, s
    <3>2. s \o Append(video.queue, p) = Append(s \o video.queue, p)
      BY <3>1, ConcatAppend
    <3> QED BY <3>2 DEF s
  <2>6. Packets(enc.count + 1) = Append(Packets(enc.count), p)
    BY <1>3, NextPacket
  <2>7. (cl'[v].got \o cl'[v].buf) \o video'.queue = Packets(enc'.count)
    <3> HIDE DEF p, v
    <3> QED BY <1>3, <1>6, <2>4, <2>5, <2>6
  <2> QED BY <2>1, <2>7 DEF StreamInv
<1> QED BY <1>3, <1>6, <1>7, <1>8, <1>9, <1>10, <1>11

\* A frame of shared memory is encoded, or the encoder fails.
LEMMA VideoFrameStep == IInv /\ encode_video_frame /\ UNCHANGED env => IInv'
<1> SUFFICES ASSUME IInv, encode_video_frame, UNCHANGED env PROVE IInv'
  OBVIOUS
<1>1. /\ UNCHANGED <<main, ses, tr, cl, wrong>> /\ th["encode"] = "run"
      /\ enc.pc = "frame" /\ ~Dropped
  BY DEF encode_video_frame
<1>2. enc.held \in SUBSET HS
  BY DEF IInv, Types, EncType
<1>3. CASE avcodec_send_and_receive(enc.held)
  BY <1>1, <1>2, <1>3, PushStep
<1>4. CASE /\ env.fault = "encode" /\ EncodeEnds("end", encoder_teardown(enc.held))
           /\ UNCHANGED video
  <2>1. encoder_teardown(enc.held) \subseteq {"pixel_data"}
    BY <1>2, TeardownLeaves
  <2>2. encoder_teardown(enc.held) \in SUBSET HS
    BY <2>1 DEF HS
  <2> QED BY <1>1, <1>4, <2>1, <2>2, EncoderEnds
<1> QED BY <1>3, <1>4 DEF encode_video_frame

\* A DMA buffer is read back and encoded, or the encoder fails.
LEMMA DmaFrameStep == IInv /\ dma_encode_video_frame /\ UNCHANGED env => IInv'
<1> SUFFICES ASSUME IInv, dma_encode_video_frame, UNCHANGED env PROVE IInv'
  OBVIOUS
<1>1. /\ UNCHANGED <<main, ses, tr, cl, wrong>> /\ th["encode"] = "run"
      /\ enc.pc = "frame" /\ ~Dropped
  BY DEF dma_encode_video_frame
<1>2. enc.held \in SUBSET HS
  BY DEF IInv, Types, EncType
<1>3. /\ egl_capture_dmabuf_frame(enc.held, TRUE) \in SUBSET HS
      /\ egl_capture_dmabuf_frame(enc.held, FALSE) \union {"pixel_data"} \in SUBSET HS
  BY <1>2 DEF egl_capture_dmabuf_frame, HS
<1>4. CASE avcodec_send_and_receive(egl_capture_dmabuf_frame(enc.held, TRUE))
  BY <1>1, <1>3, <1>4, PushStep
<1>5. CASE /\ env.fault = "encode"
           /\ \E held \in {enc.held,
                          egl_capture_dmabuf_frame(enc.held, FALSE) \union {"pixel_data"},
                          egl_capture_dmabuf_frame(enc.held, TRUE)} :
                EncodeEnds("end", encoder_teardown(held))
           /\ UNCHANGED video
  <2>1. PICK held \in SUBSET HS : EncodeEnds("end", encoder_teardown(held))
    BY <1>2, <1>3, <1>5
  <2>2. encoder_teardown(held) \subseteq {"pixel_data"}
    BY TeardownLeaves
  <2>3. encoder_teardown(held) \in SUBSET HS
    BY <2>2 DEF HS
  <2> QED BY <1>1, <1>5, <2>1, <2>2, <2>3, EncoderEnds
<1> QED BY <1>4, <1>5 DEF dma_encode_video_frame

\* A cancelled encoder runs encoder_teardown.
LEMMA EncodeCancelledStep == IInv /\ EncodeCancelled /\ UNCHANGED env => IInv'
<1> SUFFICES ASSUME IInv, EncodeCancelled, UNCHANGED env PROVE IInv'
  OBVIOUS
<1>1. enc.held \in SUBSET HS
  BY DEF IInv, Types, EncType
<1>2. encoder_teardown(enc.held) \subseteq {"pixel_data"}
  BY <1>1, TeardownLeaves
<1>3. encoder_teardown(enc.held) \in SUBSET HS
  BY <1>2 DEF HS
<1> QED BY <1>2, <1>3, EncoderEnds DEF EncodeCancelled

-----------------------------------------------------------------------------
(* The steps of the transport *)

\* The transport and the clients move, and the encoder and the main thread stay.
LEMMA TransportKeeps ==
    ASSUME IInv, UNCHANGED <<main, enc, env>>, MainType', SesType', ThType', ThreadsInv',
           TrType', VideoType', ClType', VisitorInv', StreamInv',
           th'["encode"] = th["encode"], ses'.cancelled = ses.cancelled,
           video'.frame = video.frame, video'.shown = video.shown,
           Len(video'.queue) <= VideoCap, \A c \in Clients : Len(cl'[c].buf) <= Window
    PROVE  IInv'
<1> USE DEF IInv, Types
<1>1. EncType' /\ env' \in Profiles
  BY DEF EncType
<1>2. EncoderLeavesNothing'
  BY DEF EncoderLeavesNothing
<1>3. FramesInv'
  BY DEF FramesInv, Pending
<1> QED BY <1>1, <1>2, <1>3

\* The certificate exists when the transport starts, if the start had not
\* failed.
LEMMA TransportInitStep == IInv /\ transport_init /\ UNCHANGED env => IInv'
<1> SUFFICES ASSUME IInv, transport_init, UNCHANGED env PROVE IInv'
  OBVIOUS
<1> USE DEF IInv, Types
<1>1. /\ UNCHANGED <<main, ses, th, enc, video, cl>> /\ th["transport"] = "run"
      /\ tr' = [tr EXCEPT !.pc = "loop"]
      /\ wrong' = IF "cert" \in ses.live THEN wrong ELSE wrong \union {"destroyed in use"}
  BY DEF transport_init
<1>2. MainType' /\ SesType' /\ ThType' /\ VideoType' /\ ClType'
  BY <1>1 DEF MainType, SesType, ThType, VideoType, ClType
<1>3. /\ TrType' /\ tr'.pc = "loop" /\ tr'.active = tr.active /\ tr'.visitor = tr.visitor
  BY <1>1 DEF TrType
<1>4. ~main.failed => wrong' = wrong
  <2>1. "transport" \in TS /\ "cert" \in RS
    BY DEF TS, RS
  <2>2. main.pc \notin {"create", "done"}
    BY <1>1, <2>1 DEF ThreadsInv
  <2>3. ~main.failed => ses.live = RS
    BY <2>2 DEF ThreadsInv
  <2> QED BY <1>1, <2>1, <2>3
<1>5. ThreadsInv'
  BY <1>1, <1>4 DEF ThreadsInv
<1>6. "visitor gone" \notin wrong'
  BY <1>1 DEF VisitorInv
<1>7. VisitorInv'
  BY <1>1, <1>3, <1>6 DEF VisitorInv
<1>8. StreamInv'
  BY <1>1, <1>3 DEF StreamInv
<1>9. Len(video'.queue) <= VideoCap /\ \A c \in Clients : Len(cl'[c].buf) <= Window
  BY <1>1 DEF FramesInv
<1> QED BY <1>1, <1>2, <1>3, <1>5, <1>7, <1>8, <1>9, TransportKeeps

\* Steps of the loop that move no packet.
LEMMA TransportLoopStep ==
    ASSUME IInv, UNCHANGED env, TransportLoop \/ EventsDone
    PROVE  IInv'
<1> USE DEF IInv, Types
<1>1. UNCHANGED <<main, ses, th, enc, video, cl, wrong>>
  BY DEF TransportLoop, EventsDone
<1>2. MainType' /\ SesType' /\ ThType' /\ ThreadsInv' /\ VideoType' /\ ClType'
  BY <1>1, SameThreads DEF VideoType, ClType
<1>3. /\ TrType' /\ tr'.active = tr.active /\ tr'.visitor = tr.visitor
      /\ tr'.pc = "video" => tr.active
  BY DEF TrType, TransportLoop, EventsDone, InEvents
<1>4. VisitorInv'
  BY <1>1, <1>3 DEF VisitorInv
<1>5. StreamInv'
  BY <1>1, <1>3 DEF StreamInv
<1>6. Len(video'.queue) <= VideoCap /\ \A c \in Clients : Len(cl'[c].buf) <= Window
  BY <1>1 DEF FramesInv
<1> QED BY <1>1, <1>2, <1>3, <1>4, <1>5, <1>6, TransportKeeps

\* The thread ends by itself or cancelled.
LEMMA TransportEndStep ==
    IInv /\ (transport_main \/ TransportCancelled) /\ UNCHANGED env => IInv'
<1> SUFFICES ASSUME IInv, transport_main \/ TransportCancelled, UNCHANGED env PROVE IInv'
  OBVIOUS
<1> USE DEF IInv, Types
<1>1. /\ UNCHANGED <<main, ses, enc, tr, video, cl, wrong>> /\ th["transport"] = "run"
      /\ th' = [th EXCEPT !["transport"] = "ended"]
  BY DEF transport_main, TransportCancelled
<1>2. "transport" \in TS /\ "encode" \in TS
  BY DEF TS
<1>3. MainType' /\ SesType' /\ ThType' /\ ThreadsInv'
  BY <1>1, <1>2, EndedThread
<1>4. TrType' /\ VideoType' /\ ClType' /\ th'["encode"] = th["encode"]
  BY <1>1, <1>2 DEF TrType, VideoType, ClType, ThType
<1>5. VisitorInv' /\ StreamInv'
  BY <1>1 DEF VisitorInv, StreamInv
<1>6. Len(video'.queue) <= VideoCap /\ \A c \in Clients : Len(cl'[c].buf) <= Window
  BY <1>1 DEF FramesInv
<1> QED BY <1>1, <1>3, <1>4, <1>5, <1>6, TransportKeeps

\* A packet goes from the queue to the visitor's stream, or stays.
LEMMA SubmitStep == IInv /\ transport_thread /\ UNCHANGED env => IInv'
<1> SUFFICES ASSUME IInv, transport_thread, UNCHANGED env PROVE IInv'
  OBVIOUS
<1> USE DEF IInv, Types
<1> DEFINE v == tr.visitor
<1>1. /\ UNCHANGED <<main, ses, th, enc>> /\ th["transport"] = "run" /\ tr.pc = "video"
      /\ tr' = [tr EXCEPT !.pc = "events"]
  BY DEF transport_thread
<1>2. TrType' /\ tr'.pc = "events" /\ tr'.active = tr.active /\ tr'.visitor = v
  BY <1>1 DEF TrType
<1>3. v \in Clients \union {NULL} /\ tr.active /\ video.queue \in Seq(Packet)
  BY <1>1 DEF TrType, VisitorInv, VideoType
<1>4. video.queue # << >> => v \in Clients
  BY <1>3 DEF StreamInv
<1>5. wrong' = wrong
  <2>1. v \in Clients => cl[v].st # "closed"
    BY <1>3 DEF VisitorInv
  <2>2. NULL \notin Clients
    BY SessionAssumption
  <2> QED BY <1>4, <2>1, <2>2 DEF transport_thread
<1>6. MainType' /\ SesType' /\ ThType' /\ ThreadsInv'
  BY <1>1, <1>5, SameThreads
<1>7. CASE UNCHANGED <<cl, video>>
  <2>1. VideoType' /\ ClType'
    BY <1>7 DEF VideoType, ClType
  <2>2. VisitorInv'
    BY <1>2, <1>5, <1>7 DEF VisitorInv
  <2>3. StreamInv'
    BY <1>1, <1>2, <1>7 DEF StreamInv
  <2>4. Len(video'.queue) <= VideoCap /\ \A c \in Clients : Len(cl'[c].buf) <= Window
    BY <1>7 DEF FramesInv
  <2> QED BY <1>1, <1>2, <1>6, <1>7, <2>1, <2>2, <2>3, <2>4, TransportKeeps
<1>8. CASE /\ video.queue # << >> /\ Len(cl[v].buf) < Window
           /\ cl' = [cl EXCEPT ![v].buf = Append(@, Head(video.queue))]
           /\ video' = [video EXCEPT !.queue = Tail(@)]
  <2>1. v \in Clients /\ v # NULL
    BY <1>4, <1>8, SessionAssumption
  <2>2. Head(video.queue) \in Packet /\ Tail(video.queue) \in Seq(Packet)
        /\ Len(Tail(video.queue)) = Len(video.queue) - 1
    BY <1>3, <1>8, HeadTailProperties
  <2>3. /\ VideoType' /\ video'.queue = Tail(video.queue) /\ video'.frame = video.frame
        /\ video'.shown = video.shown
    BY <1>8, <2>2 DEF VideoType
  <2> DEFINE b == Append(cl[v].buf, Head(video.queue))
  <2>4. cl[v].buf \in Seq(Packet) /\ cl[v].got \in Seq(Packet)
    BY <2>1 DEF ClType
  <2>5. b \in Seq(Packet) /\ Len(b) = Len(cl[v].buf) + 1
    BY <2>2, <2>4, AppendProperties
  <2>6. cl' = [cl EXCEPT ![v].buf = b]
    BY <1>8
  <2> HIDE DEF b, v
  <2>7. /\ ClType' /\ cl'[v].buf = b /\ cl'[v].got = cl[v].got /\ cl'[v].st = cl[v].st
        /\ \A c \in Clients : c # v => cl'[c] = cl[c]
    BY <2>1, <2>5, <2>6 DEF ClType
  <2>8. VisitorInv'
    <3>1. \A c \in Clients : cl'[c].st = cl[c].st
      BY <2>7
    <3> QED BY <1>2, <1>5, <3>1 DEF VisitorInv
  <2>9. StreamInv'
    <3> DEFINE g == cl[v].got
               a == cl[v].buf
               q == video.queue
    <3>1. g \in Seq(Packet) /\ a \in Seq(Packet) /\ q \in Seq(Packet) /\ q # << >>
      BY <1>3, <1>8, <2>4
    <3>2. (g \o a) \o q = Packets(enc.count)
      BY <2>1 DEF StreamInv, v
    <3> HIDE DEF g, a, q
    <3>3. g \o a \in Seq(Packet) /\ Head(q) \in Packet
      BY <3>1, ConcatProperties, HeadTailProperties
    <3>4. g \o Append(a, Head(q)) = Append(g \o a, Head(q))
      BY <3>1, <3>3, ConcatAppend
    <3>5. Append(g \o a, Head(q)) \o Tail(q) = (g \o a) \o q
      BY <3>1, <3>3, MoveHead
    <3>6. (cl'[v].got \o cl'[v].buf) \o video'.queue = Packets(enc.count)
      BY <2>3, <2>7, <3>2, <3>4, <3>5 DEF g, a, q, b
    <3>7. ses.connected <=> tr.visitor # NULL
      BY DEF StreamInv
    <3>8. \A c \in Clients : c # v => cl[c].got = << >> /\ cl[c].buf = << >>
      BY DEF StreamInv, v
    <3> QED BY <1>1, <1>2, <2>1, <2>7, <3>6, <3>7, <3>8 DEF StreamInv, v
  <2>10. Len(video'.queue) <= VideoCap
    <3>1. Len(video.queue) \in Nat /\ Len(video.queue) <= VideoCap /\ VideoCap \in Nat
      BY <1>3, SessionAssumption DEF FramesInv
    <3> QED BY <2>2, <2>3, <3>1
  <2>11. \A c \in Clients : Len(cl'[c].buf) <= Window
    <3>1. Len(cl[v].buf) \in Nat /\ Window \in Nat /\ Len(cl[v].buf) < Window
      BY <1>8, <2>4, SessionAssumption DEF v
    <3>2. Len(cl'[v].buf) <= Window
      BY <2>5, <2>7, <3>1
    <3> QED BY <2>7, <3>2 DEF FramesInv
  <2> QED BY <1>1, <1>2, <1>6, <2>3, <2>7, <2>8, <2>9, <2>10, <2>11, TransportKeeps
<1>9. v \in Clients => v # NULL
  BY SessionAssumption
<1> QED BY <1>4, <1>7, <1>8, <1>9 DEF transport_thread, SubmitVideoDataToStream

\* ProcessRequest: the first client becomes the visitor before anything is
\* encoded, the others are refused.
LEMMA RequestStep ==
    ASSUME IInv, UNCHANGED env, NEW c \in Clients, ProcessRequest(c)
    PROVE  IInv'
<1> USE DEF IInv, Types
<1>1. /\ UNCHANGED <<main, th, enc, video, wrong>> /\ InEvents /\ cl[c].st = "asked"
  BY DEF ProcessRequest
<1>2. VideoType' /\ MainType' /\ ThType' /\ c # NULL
  BY <1>1, SessionAssumption DEF VideoType, MainType, ThType
<1>3. PICK st \in {"in", "refused"} : cl' = [cl EXCEPT ![c].st = st]
  BY DEF ProcessRequest
<1>4. /\ ClType'
      /\ \A d \in Clients : cl'[d].got = cl[d].got /\ cl'[d].buf = cl[d].buf
      /\ \A d \in Clients : cl'[d].st = "closed" => cl[d].st = "closed"
  BY <1>3 DEF ClType
<1>5. Len(video'.queue) <= VideoCap /\ \A d \in Clients : Len(cl'[d].buf) <= Window
  BY <1>1, <1>4 DEF FramesInv
<1>6. CASE tr.visitor = NULL
  <2>1. /\ tr' = OnSessionReady([tr EXCEPT !.visitor = c])
        /\ ses' = [ses EXCEPT !.connected = TRUE]
    BY <1>6 DEF ProcessRequest
  <2>2. TrType' /\ tr'.visitor = c /\ tr'.active = tr.active /\ tr'.pc = tr.pc
    BY <2>1 DEF TrType, OnSessionReady, OnCanCreateNewOutgoingUnidirectionalStream
  <2>3. /\ SesType' /\ ses'.connected /\ ses'.cancelled = ses.cancelled
        /\ ses'.live = ses.live /\ ses'.ptr = ses.ptr /\ ses'.states = ses.states
    BY <2>1 DEF SesType
  <2>4. ThreadsInv'
    BY <1>1, <2>3 DEF ThreadsInv
  <2>5. VisitorInv'
    BY <1>1, <1>4, <2>2 DEF VisitorInv
  <2>6. StreamInv'
    <3>1. /\ enc.count = 0 /\ video.queue = << >>
          /\ \A d \in Clients : cl[d].got = << >> /\ cl[d].buf = << >>
      BY <1>2, <1>6, SessionAssumption DEF StreamInv
    <3>2. (<< >> \o << >>) \o << >> = Packets(0)
      <4>1. Packets(0) = << >>
        BY DEF Packets
      <4>2. << >> \o << >> = << >>
        OBVIOUS
      <4> QED BY <4>1, <4>2
    <3>3. (cl'[c].got \o cl'[c].buf) \o video'.queue = Packets(enc'.count)
      BY <1>1, <1>4, <3>1, <3>2
    <3>4. \A d \in Clients : cl'[d].got = << >> /\ cl'[d].buf = << >>
      BY <1>4, <3>1
    <3> QED BY <1>2, <2>2, <2>3, <3>3, <3>4 DEF StreamInv
  <2> QED BY <1>1, <1>2, <1>4, <1>5, <2>2, <2>3, <2>4, <2>5, <2>6, TransportKeeps
<1>7. CASE tr.visitor # NULL
  <2>1. UNCHANGED <<tr, ses>>
    BY <1>7 DEF ProcessRequest
  <2>2. TrType' /\ SesType'
    BY <2>1 DEF TrType, SesType
  <2>3. ThreadsInv'
    BY <1>1, <2>1 DEF ThreadsInv
  <2>4. VisitorInv'
    BY <1>1, <1>4, <2>1 DEF VisitorInv
  <2>5. StreamInv'
    BY <1>1, <1>4, <2>1 DEF StreamInv
  <2> QED BY <1>1, <1>2, <1>4, <1>5, <2>1, <2>2, <2>3, <2>4, <2>5, TransportKeeps
<1> QED BY <1>6, <1>7

\* OnSessionClosed ends the loop before the visitor is used again.
LEMMA ClosedStep ==
    ASSUME IInv, UNCHANGED env, NEW c \in Clients, OnSessionClosed(c)
    PROVE  IInv'
<1> USE DEF IInv, Types
<1>1. /\ UNCHANGED <<main, ses, th, enc, video, wrong>> /\ tr.pc = "events"
      /\ cl' = [cl EXCEPT ![c].st = "closed"] /\ tr' = [tr EXCEPT !.active = FALSE]
  BY DEF OnSessionClosed, InEvents
<1>2. MainType' /\ SesType' /\ ThType' /\ ThreadsInv' /\ VideoType'
  BY <1>1, SameThreads DEF VideoType
<1>3. TrType' /\ tr'.pc = "events" /\ ~tr'.active /\ tr'.visitor = tr.visitor
  BY <1>1 DEF TrType
<1>4. ClType' /\ \A d \in Clients : cl'[d].got = cl[d].got /\ cl'[d].buf = cl[d].buf
  BY <1>1 DEF ClType
<1>5. VisitorInv'
  BY <1>1, <1>3 DEF VisitorInv
<1>6. StreamInv'
  BY <1>1, <1>3, <1>4 DEF StreamInv
<1>7. Len(video'.queue) <= VideoCap /\ \A d \in Clients : Len(cl'[d].buf) <= Window
  BY <1>1, <1>4 DEF FramesInv
<1> QED BY <1>1, <1>2, <1>3, <1>4, <1>5, <1>6, <1>7, TransportKeeps

-----------------------------------------------------------------------------
(* The other threads, the game, the clients and the clock *)

\* One of the other four threads ends.
LEMMA ThreadEndsStep ==
    ASSUME IInv, UNCHANGED env, NEW t \in OtherThreads, ThreadEnds(t)
    PROVE  IInv'
<1> USE DEF IInv, Types
<1>1. /\ UNCHANGED <<main, ses, enc, tr, video, cl, wrong>> /\ th[t] = "run"
      /\ th' = [th EXCEPT ![t] = "ended"]
  BY DEF ThreadEnds
<1>2. t \in TS /\ "encode" \in TS /\ t # "encode"
  BY DEF TS, OtherThreads
<1>3. MainType' /\ SesType' /\ ThType' /\ ThreadsInv'
  BY <1>1, <1>2, EndedThread
<1>4. TrType' /\ VideoType' /\ ClType' /\ th'["encode"] = th["encode"]
  BY <1>1, <1>2 DEF TrType, VideoType, ClType, ThType
<1>5. VisitorInv' /\ StreamInv'
  BY <1>1 DEF VisitorInv, StreamInv
<1>6. Len(video'.queue) <= VideoCap /\ \A c \in Clients : Len(cl'[c].buf) <= Window
  BY <1>1 DEF FramesInv
<1> QED BY <1>1, <1>3, <1>4, <1>5, <1>6, TransportKeeps

\* The game shows one more frame.
LEMMA FrameStep == IInv /\ Frame /\ UNCHANGED env => IInv'
<1> SUFFICES ASSUME IInv, Frame, UNCHANGED env PROVE IInv'
  OBVIOUS
<1> USE DEF IInv, Types
<1>1. /\ UNCHANGED <<main, ses, th, enc, tr, cl, wrong>> /\ video.shown < env.frames
      /\ video' = [video EXCEPT !.frame = env.kind, !.shown = video.shown + 1]
  BY DEF Frame
<1>2. env.frames \in 0 .. MaxFrames /\ MaxFrames \in Nat /\ env.kind \in {"shm", "dma"}
  BY SessionAssumption
<1>3. video.shown \in Nat /\ enc.count \in Nat
  BY DEF VideoType, EncType
<1> DEFINE k == video.shown + 1
<1>4. k \in Nat /\ k <= env.frames
  BY <1>1, <1>2, <1>3
<1> HIDE DEF k
<1>5. VideoType' /\ video'.shown = k /\ video'.queue = video.queue
  BY <1>1, <1>2, <1>4 DEF VideoType, k
<1>6. MainType' /\ SesType' /\ ThType' /\ ThreadsInv'
  BY <1>1, SameThreads
<1>7. EncType' /\ TrType' /\ ClType' /\ env' \in Profiles
  BY <1>1 DEF EncType, TrType, ClType
<1>8. EncoderLeavesNothing' /\ VisitorInv'
  BY <1>1 DEF EncoderLeavesNothing, VisitorInv
<1>9. FramesInv'
  <2>1. Pending \in Nat /\ Pending' \in Nat /\ Pending' <= Pending + 1
    BY <1>1 DEF Pending
  <2>2. enc.count + Pending <= video.shown
    BY DEF FramesInv
  <2>3. enc.count + Pending' <= k
    BY <1>3, <2>1, <2>2 DEF k
  <2> QED BY <1>1, <1>4, <1>5, <2>3 DEF FramesInv
<1>10. StreamInv'
  BY <1>1, <1>5 DEF StreamInv
<1> QED BY <1>5, <1>6, <1>7, <1>8, <1>9, <1>10

\* Only the game's process moves.
LEMMA GameStep == IInv /\ (GameStarts \/ GameExits) /\ UNCHANGED env => IInv'
<1> SUFFICES ASSUME IInv, GameStarts \/ GameExits, UNCHANGED env PROVE IInv'
  OBVIOUS
<1>1. UNCHANGED <<main, ses, th, enc, tr, video, cl, wrong>>
  BY DEF GameStarts, GameExits
<1>2. MainType' /\ SesType' /\ ThType' /\ ThreadsInv' /\ "visitor gone" \notin wrong'
  BY <1>1, SameThreads DEF IInv, VisitorInv
<1> QED BY <1>1, <1>2, MainKeeps

\* CLIENT_CONNECT_TIMEOUT passes.
LEMMA LateStep == IInv /\ Late /\ UNCHANGED env => IInv'
<1> SUFFICES ASSUME IInv, Late, UNCHANGED env PROVE IInv'
  OBVIOUS
<1> USE DEF IInv, Types
<1>1. UNCHANGED <<main, th, enc, tr, video, cl, wrong>> /\ ses' = [ses EXCEPT !.late = TRUE]
  BY DEF Late
<1>2. /\ SesType' /\ ses'.connected = ses.connected /\ ses'.cancelled = ses.cancelled
      /\ ses'.live = ses.live /\ ses'.ptr = ses.ptr /\ ses'.states = ses.states
  BY <1>1 DEF SesType
<1>3. MainType' /\ ThType' /\ "visitor gone" \notin wrong'
  BY <1>1 DEF MainType, ThType, VisitorInv
<1>4. ThreadsInv'
  BY <1>1, <1>2 DEF ThreadsInv
<1> QED BY <1>1, <1>2, <1>3, <1>4, MainKeeps

\* A client asks for a session or leaves it.
LEMMA ClientStep ==
    ASSUME IInv, UNCHANGED env, NEW c \in Clients, ClientAsks(c) \/ ClientLeaves(c)
    PROVE  IInv'
<1> USE DEF IInv, Types
<1>1. UNCHANGED <<main, ses, th, enc, tr, video, wrong>>
  BY DEF ClientAsks, ClientLeaves
<1>2. PICK st \in {"asked", "leaving"} : cl' = [cl EXCEPT ![c].st = st]
  BY DEF ClientAsks, ClientLeaves
<1>3. /\ ClType'
      /\ \A d \in Clients : cl'[d].got = cl[d].got /\ cl'[d].buf = cl[d].buf
      /\ \A d \in Clients : cl'[d].st = "closed" => cl[d].st = "closed"
  BY <1>2 DEF ClType
<1>4. MainType' /\ SesType' /\ ThType' /\ ThreadsInv' /\ VideoType' /\ TrType'
  BY <1>1, SameThreads DEF VideoType, TrType
<1>5. VisitorInv'
  BY <1>1, <1>3 DEF VisitorInv
<1>6. StreamInv'
  BY <1>1, <1>3 DEF StreamInv
<1>7. Len(video'.queue) <= VideoCap /\ \A d \in Clients : Len(cl'[d].buf) <= Window
  BY <1>1, <1>3 DEF FramesInv
<1> QED BY <1>1, <1>3, <1>4, <1>5, <1>6, <1>7, TransportKeeps

\* A packet goes from the stream to the client.
LEMMA ReadStep ==
    ASSUME IInv, UNCHANGED env, NEW c \in Clients, ClientReads(c)
    PROVE  IInv'
<1> USE DEF IInv, Types
<1> DEFINE g == Append(cl[c].got, Head(cl[c].buf))
           b == Tail(cl[c].buf)
<1>1. /\ UNCHANGED <<main, ses, th, enc, tr, video, wrong>> /\ cl[c].buf # << >>
      /\ cl' = [cl EXCEPT ![c].got = g, ![c].buf = b]
  BY DEF ClientReads
<1>2. cl[c].got \in Seq(Packet) /\ cl[c].buf \in Seq(Packet)
  BY DEF ClType
<1>3. Head(cl[c].buf) \in Packet /\ b \in Seq(Packet) /\ Len(b) = Len(cl[c].buf) - 1
  BY <1>1, <1>2, HeadTailProperties
<1>4. g \in Seq(Packet)
  BY <1>2, <1>3, AppendProperties
<1>5. g \o b = cl[c].got \o cl[c].buf
  <2> DEFINE s == cl[c].got
             q == cl[c].buf
  <2>1. s \in Seq(Packet) /\ q \in Seq(Packet) /\ q # << >>
    BY <1>1, <1>2
  <2> HIDE DEF s, q
  <2>2. Append(s, Head(q)) \o Tail(q) = s \o q
    BY <2>1, MoveHead
  <2> QED BY <2>2 DEF s, q
<1> HIDE DEF g, b
<1>6. /\ ClType' /\ cl'[c].got = g /\ cl'[c].buf = b /\ cl'[c].st = cl[c].st
      /\ \A d \in Clients : d # c => cl'[d] = cl[d]
  BY <1>1, <1>3, <1>4 DEF ClType
<1>7. MainType' /\ SesType' /\ ThType' /\ ThreadsInv' /\ VideoType' /\ TrType'
  BY <1>1, SameThreads DEF VideoType, TrType
<1>8. VisitorInv'
  <2>1. \A d \in Clients : cl'[d].st = cl[d].st
    BY <1>6
  <2> QED BY <1>1, <2>1 DEF VisitorInv
<1>9. StreamInv'
  <2>1. c = tr.visitor
    BY <1>1 DEF StreamInv
  <2>2. (cl'[c].got \o cl'[c].buf) \o video.queue = Packets(enc.count)
    <3>1. (cl[c].got \o cl[c].buf) \o video.queue = Packets(enc.count)
      BY <2>1 DEF StreamInv
    <3> QED BY <1>5, <1>6, <3>1
  <2>3. /\ ses.connected <=> tr.visitor # NULL
        /\ tr.visitor = NULL => enc.count = 0 /\ video.queue = << >>
        /\ \A d \in Clients : d # c => cl[d].got = << >> /\ cl[d].buf = << >>
    BY <2>1 DEF StreamInv
  <2>4. (cl'[c].got \o cl'[c].buf) \o video'.queue = Packets(enc'.count)
    BY <1>1, <2>2
  <2>5. \A d \in Clients : d # c => cl'[d].got = << >> /\ cl'[d].buf = << >>
    BY <1>6, <2>3
  <2>6. ses' = ses /\ tr' = tr /\ enc' = enc /\ video' = video
    BY <1>1
  <2> QED BY <2>1, <2>3, <2>4, <2>5, <2>6 DEF StreamInv
<1>10. Len(video'.queue) <= VideoCap /\ \A d \in Clients : Len(cl'[d].buf) <= Window
  <2>1. Len(cl[c].buf) \in Nat /\ Window \in Nat /\ Len(cl[c].buf) <= Window
    BY <1>2, SessionAssumption DEF FramesInv
  <2>2. Len(cl'[c].buf) <= Window
    BY <1>3, <1>6, <2>1
  <2> QED BY <1>1, <1>6, <2>2 DEF FramesInv
<1> QED BY <1>1, <1>6, <1>7, <1>8, <1>9, <1>10, TransportKeeps

-----------------------------------------------------------------------------
(* Theorems *)

\* The invariant holds before session_start.
LEMMA InitInv == Init => IInv
<1> SUFFICES ASSUME Init PROVE IInv
  OBVIOUS
<1>1. /\ main = [pc |-> "create", i |-> 1, failed |-> FALSE]
      /\ ses = [active |-> TRUE, connected |-> FALSE, late |-> FALSE, pid |-> "none",
                states |-> [t \in TS |-> 0], cancelled |-> {}, live |-> {}, ptr |-> {}]
      /\ th = [t \in TS |-> "none"]
      /\ wrong = {}
  BY ThreadSet DEF Init
<1>2. /\ enc = [pc |-> "startup", frame |-> "none", count |-> 0, held |-> {}]
      /\ tr = [pc |-> "init", active |-> TRUE, visitor |-> NULL, stream |-> FALSE]
      /\ video = [frame |-> "none", shown |-> 0, queue |-> << >>]
      /\ cl = [c \in Clients |-> [st |-> "away", buf |-> << >>, got |-> << >>]]
      /\ env \in Profiles
  BY DEF Init
<1>3. MainType /\ SesType /\ ThType
  <2>1. MainType /\ ThType
    BY <1>1 DEF MainType, ThType
  <2>2. [t \in TS |-> 0] \in [TS -> {0, 1}]
    OBVIOUS
  <2>3. SesType
    BY <1>1, <2>2 DEF SesType
  <2> QED BY <2>1, <2>3
<1>4. EncType /\ TrType /\ VideoType /\ ClType
  <2>1. << >> \in Seq(Packet)
    BY EmptySeq
  <2> HIDE DEF Packet
  <2>2. EncType
    BY <1>2 DEF EncType
  <2>3. TrType
    BY <1>2 DEF TrType
  <2>4. VideoType
    BY <1>2, <2>1 DEF VideoType
  <2> DEFINE C == [st : {"away", "asked", "in", "refused", "leaving", "closed"},
                   buf : Seq(Packet), got : Seq(Packet)]
  <2>5. [st |-> "away", buf |-> << >>, got |-> << >>] \in C
    BY <2>1
  <2> HIDE DEF C
  <2>6. cl \in [Clients -> C]
    BY <1>2, <2>5
  <2> QED BY <2>2, <2>3, <2>4, <2>6 DEF ClType, C
<1>6. ThreadsInv /\ EncoderLeavesNothing
  BY <1>1 DEF ThreadsInv, EncoderLeavesNothing, TS
<1>7. VisitorInv
  BY <1>1, <1>2 DEF VisitorInv
<1>8. FramesInv
  <2>1. env.frames \in 0 .. MaxFrames /\ MaxFrames \in Nat /\ VideoCap \in Nat /\ Window \in Nat
    BY <1>2, SessionAssumption
  <2>2. enc.count + Pending <= video.shown /\ video.shown = 0
    BY <1>2 DEF Pending
  <2>3. Len(video.queue) = 0 /\ \A c \in Clients : Len(cl[c].buf) = 0
    BY <1>2
  <2> QED BY <2>1, <2>2, <2>3 DEF FramesInv
<1>9. StreamInv
  BY <1>1, <1>2, SessionAssumption DEF StreamInv
<1> QED BY <1>2, <1>3, <1>4, <1>6, <1>7, <1>8, <1>9 DEF IInv, Types

\* Every step of every thread, of the game and of the clients keeps the
\* invariant.
LEMMA NextInv == IInv /\ [Next]_vars => IInv'
<1> SUFFICES ASSUME IInv, [Next]_vars PROVE IInv'
  OBVIOUS
<1>1. CASE UNCHANGED vars
  <2>1. UNCHANGED <<main, ses, th, enc, tr, video, cl, wrong, env>>
    BY <1>1 DEF vars
  <2>2. MainType' /\ SesType' /\ ThType' /\ ThreadsInv' /\ "visitor gone" \notin wrong'
    BY <2>1, SameThreads DEF IInv, VisitorInv
  <2> QED BY <2>1, <2>2, MainKeeps
<1>2. ASSUME Next PROVE IInv'
  <2>1. UNCHANGED env
    BY <1>2 DEF Next
  <2>2. CASE MainStep \/ SidecarExits
    BY <2>1, <2>2, StartStep, LaunchStep, UnwindStep, PollStep, SidecarStep, NotifyStep,
       CancelStep, JoinStep, KillStep, DestroyStep DEF MainStep
  <2>3. CASE EncodeStep
    BY <2>1, <2>3, StartupStep, EncodeLoopStep, EncodeWaitStep, VideoFrameStep,
       DmaFrameStep, EncodeCancelledStep DEF EncodeStep
  <2>4. CASE TransportStep
    BY <2>1, <2>4, TransportInitStep, TransportLoopStep, SubmitStep, TransportEndStep
       DEF TransportStep
  <2>5. CASE Callback
    BY <2>1, <2>5, RequestStep, ClosedStep DEF Callback
  <2>6. CASE Frame \/ GameStarts \/ GameExits \/ Late
    BY <2>1, <2>6, FrameStep, GameStep, LateStep
  <2>7. CASE \E t \in OtherThreads : ThreadEnds(t)
    BY <2>1, <2>7, ThreadEndsStep
  <2>8. CASE \E c \in Clients : ClientAsks(c) \/ ClientReads(c) \/ ClientLeaves(c)
    BY <2>1, <2>8, ClientStep, ReadStep
  <2> QED BY <1>2, <2>2, <2>3, <2>4, <2>5, <2>6, <2>7, <2>8 DEF Next
<1> QED BY <1>1, <1>2

\* The inductive invariant holds in every reachable state, whatever the
\* interleaving of session.c, the encoder, the transport and the clients.
THEOREM Invariant == Spec => []IInv
BY InitInv, NextInv, PTL DEF Spec

\* The invariant contains the types and the capacities.
LEMMA TypesHold == IInv => TypeOK
<1> SUFFICES ASSUME IInv PROVE TypeOK
  OBVIOUS
<1> USE DEF IInv, Types
<1>1. main.i \in 1 .. Len(Threads) + 1
  BY ThreadOrder DEF MainType
<1>2. ses.live \subseteq Range(Resources) /\ ses.ptr \subseteq Range(Resources)
  BY ResourceSet DEF SesType
<1>3. \A t \in Range(Threads) : /\ th[t] \in {"none", "run", "ended", "gone"}
                                /\ ses.states[t] \in {0, 1}
  BY ThreadSet DEF SesType, ThType
<1>4. tr.visitor \in Clients \union {NULL}
  BY DEF TrType
<1>5. video.queue \in Seq(Packet) /\ Len(video.queue) <= VideoCap
  BY DEF VideoType, FramesInv
<1>6. \A c \in Clients : cl[c].buf \in Seq(Packet) /\ Len(cl[c].buf) <= Window
  BY DEF ClType, FramesInv
<1> QED BY <1>1, <1>2, <1>3, <1>4, <1>5, <1>6 DEF TypeOK

\* What a client has got, and what is on its way, are the first packets of the
\* encoder with no gap, and the key frames are where avcodec put them.
THEOREM StreamIsContiguous == Spec => []VideoContiguous
<1>1. IInv => VideoContiguous
  <2> SUFFICES ASSUME IInv, NEW c \in Clients,
                      NEW i \in DOMAIN (cl[c].got \o cl[c].buf)
               PROVE  /\ (cl[c].got \o cl[c].buf)[i].n = i - 1
                      /\ (cl[c].got \o cl[c].buf)[i].is_description = ((i - 1) % GopSize = 0)
    BY TypesHold DEF VideoContiguous
  <2> DEFINE s == cl[c].got \o cl[c].buf
             q == video.queue
  <2>1. cl[c].got \in Seq(Packet) /\ cl[c].buf \in Seq(Packet) /\ q \in Seq(Packet)
    BY DEF IInv, Types, ClType, VideoType
  <2>2. s \in Seq(Packet)
    BY <2>1, ConcatProperties
  <2>3. c = tr.visitor
    <3>1. CASE c # tr.visitor
      <4>1. cl[c].got = << >> /\ cl[c].buf = << >>
        BY <3>1 DEF IInv, StreamInv
      <4>2. DOMAIN (<< >> \o << >>) = {}
        OBVIOUS
      <4> QED BY <4>1, <4>2
    <3> QED BY <3>1
  <2>4. s \o q = Packets(enc.count)
    BY <2>3 DEF IInv, StreamInv
  <2> HIDE DEF s, q
  <2>5. i \in 1 .. Len(s) /\ Len(s) \in Nat /\ Len(q) \in Nat
    BY <2>1, <2>2, LenProperties DEF s
  <2>6. (s \o q)[i] = s[i] /\ Len(s \o q) = Len(s) + Len(q) /\ s \o q \in Seq(Packet)
    BY <2>1, <2>2, <2>5, ConcatProperties
  <2>7. i \in DOMAIN (s \o q)
    <3>1. DOMAIN (s \o q) = 1 .. Len(s) + Len(q)
      BY <2>6, LenProperties
    <3> QED BY <2>5, <3>1
  <2>8. i \in DOMAIN Packets(enc.count)
    BY <2>4, <2>7
  <2>9. Packets(enc.count)[i] = [n |-> i - 1, is_description |-> (i - 1) % GopSize = 0]
    BY <2>8 DEF Packets
  <2>10. s[i] = [n |-> i - 1, is_description |-> (i - 1) % GopSize = 0]
    BY <2>4, <2>6, <2>9
  <2> QED BY <2>10 DEF s
<1> QED BY <1>1, Invariant, PTL

\* On every way out of encode_main what it acquired is freed, but for the two
\* cases the property names.
THEOREM EncoderFreesItsPieces == Spec => []EncoderLeavesNothing
<1>1. IInv => EncoderLeavesNothing
  BY DEF IInv
<1> QED BY <1>1, Invariant, PTL

\* session_teardown destroys nothing twice and nothing a thread uses, unless
\* session_start failed, and the transport never submits to a visitor that is
\* gone.
THEOREM NothingDestroyedInUse == Spec => []SharedOutlivesThreads
<1>1. IInv => SharedOutlivesThreads
  BY DEF IInv, ThreadsInv, VisitorInv, SharedOutlivesThreads, Bad
<1> QED BY <1>1, Invariant, PTL
=============================================================================
