---------------------------- MODULE InputPipeline ----------------------------
(***************************************************************************)
(* Controller input from the player's gamepad to the game's: the web       *)
(* client's loop (InputClient) writes packets to the stream that the       *)
(* streaming node (Input) reads.  The two share the packets sent.          *)
(* Failures, unmounting and the end of the session are in the modules of   *)
(* the two sides; here both sides go on.                                   *)
(***************************************************************************)
EXTENDS Input

CONSTANTS Pads, States, MaxChanges

VARIABLES connected, raw, manual, mounted, changes, lpc, phase, polled, todo,
          current, outgoing, tracked, available, nextIndex, lastSent

Client == INSTANCE InputClient WITH
              StateLength <- ButtonCount + AxisCount,
              gamepads <- polled,
              wire <- sent

\* The variables of the client that the node does not share.
clientOwn == <<connected, raw, manual, mounted, changes, lpc, phase, polled, todo,
               current, outgoing, tracked, available, nextIndex, lastSent>>

PipelineVars == <<vars, clientOwn>>

PipelineInit == Init /\ Client!Init

\* The client's write is the packet that enters the stream.
ClientWrites == Client!Written /\ ClientSends(outgoing)

NodeStep ==
    \/ \E n \in 0 .. Len(stream) : OnCanRead(n)
    \/ ThreadStep

PipelineNext ==
    \/ ClientWrites
    \/ (Client!PlayerStep \/ Client!LoopStep) /\ UNCHANGED vars
    \/ NodeStep /\ UNCHANGED clientOwn

PipelineSpec == PipelineInit /\ [][PipelineNext]_PipelineVars

\* The fairness of the two sides.
PipelineFairSpec ==
    /\ PipelineSpec
    /\ WF_PipelineVars(Client!LoopStep /\ UNCHANGED vars)
    /\ WF_PipelineVars(ClientWrites)
    /\ WF_PipelineVars(ThreadStep /\ UNCHANGED clientOwn)
    /\ WF_PipelineVars(\E n \in 1 .. Len(stream) : OnCanRead(n) /\ UNCHANGED clientOwn)

-----------------------------------------------------------------------------

\* What the player's gamepads, or the on-screen buttons, ask of device i.
Wanted(i) ==
    IF \E b \in connected : tracked[b] = i
    THEN Client!createGamepadState(CHOOSE b \in connected : tracked[b] = i, i)
    ELSE IF i = 0 /\ connected = {}
         THEN Client!createVirtualManualGamepadState
         ELSE Client!createNeutralGamepadState(i)

\* The game's devices show it; a device that was never needed does not exist.
DevicesAgree ==
    \A i \in Indexes :
        IF device[i] = Closed THEN GamepadState(Wanted(i)) = Neutral
        ELSE device[i] = GamepadState(Wanted(i))

\* Once the player's last change is sent and all is read, every device shows the
\* state of its gamepad and every other device is at rest, as long as no chunk
\* was lost: releaseClientGamepadIndex, sendStateIfChanged and input_recv_raw
\* together leave no button stuck.
NoButtonStuck ==
    Client!InSync /\ Quiet /\ lost = {} => DevicesAgree

\* The pipeline settles: once the player stops, all that was sent is in the
\* devices, or bytes were lost, or the Input thread has crashed.
ReachesTheGame ==
    <>[](\/ tpc = "crashed"
         \/ lost # {}
         \/ DOMAIN tracked = connected /\ DevicesAgree)
=============================================================================
