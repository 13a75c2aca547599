----------------------------- MODULE InputClient -----------------------------
(***************************************************************************)
(* The web client's side of controller input,                              *)
(* frontend/src/lib/transport/hooks/inputStream.ts: a loop that runs once  *)
(* per animation frame, gives every connected gamepad an index, and sends  *)
(* a packet whenever the state of an index has changed.                    *)
(*                                                                         *)
(* The loop awaits the writer between computing a packet and having sent   *)
(* it.  Gamepads and on-screen buttons change meanwhile.                   *)
(***************************************************************************)
EXTENDS Integers, Sequences, FiniteSetsExt, Functions

CONSTANTS Pads,        \* browser indexes a gamepad can have
          StateLength, \* buttons and axes of a gamepad
          States,      \* states a gamepad can report, each a sequence
          MaxChanges   \* bound on what the player does

neutral == [k \in 1 .. StateLength |-> 0]

ASSUME PadsAssumption == IsFiniteSet(Pads) /\ Pads \subseteq Nat
ASSUME StatesAssumption ==
    /\ StateLength \in Nat \ {0}
    /\ neutral \in States
    /\ \A s \in States : s \in Seq(Nat) /\ Len(s) = StateLength
ASSUME MaxChangesAssumption == MaxChanges \in Nat

VARIABLES
    connected,  \* gamepads that navigator.getGamepads returns
    raw,        \* the state each gamepad reports
    manual,     \* the on-screen button, the first of a gamepad, is pressed
    mounted,    \* the component is mounted
    changes,    \* what the player has done so far
    lpc,        \* where the loop is
    phase,      \* which of the loop's three parts it is in
    gamepads,   \* connected gamepads when the frame began
    todo,       \* gamepads the part has yet to look at
    current,    \* the gamepad whose packet is being sent
    outgoing,   \* that packet
    tracked,    \* trackedGamepads: browser index to clientIndex
    available,  \* availableClientGamepadIndexes
    nextIndex,  \* nextClientGamepadIndex
    lastSent,   \* lastSentPackets: clientIndex to packet
    wire        \* packets written to the stream

playerVars == <<connected, raw, manual, mounted, changes>>
loopVars == <<lpc, phase, gamepads, todo, current, outgoing>>
indexVars == <<tracked, available, nextIndex>>
vars == <<playerVars, loopVars, indexVars, lastSent, wire>>

None == -1

\* The state of the hook when its effect starts.
Init ==
    /\ connected = {} /\ raw = [b \in Pads |-> neutral]
    /\ manual = FALSE /\ mounted = TRUE /\ changes = 0
    /\ lpc = "frame" /\ phase = "release"
    /\ gamepads = {} /\ todo = {} /\ current = None /\ outgoing = <<>>
    /\ tracked = <<>> /\ available = {} /\ nextIndex = 0
    /\ lastSent = <<>>
    /\ wire = <<>>

-----------------------------------------------------------------------------
(* Packets *)

\* encodeGamepadState: the index, then the state.
encodeGamepadState(index, state) == <<index>> \o state

applyManualButtons(state) == IF manual THEN <<1>> \o Tail(state) ELSE state

\* On-screen buttons belong to the gamepad with index 0.
createGamepadState(b, index) ==
    encodeGamepadState(index, IF index = 0 THEN applyManualButtons(raw[b]) ELSE raw[b])

createNeutralGamepadState(index) == encodeGamepadState(index, neutral)

\* With no gamepad the on-screen buttons are a gamepad of their own.
createVirtualManualGamepadState == encodeGamepadState(0, applyManualButtons(neutral))

arePacketsEqual(index, packet) ==
    index \in DOMAIN lastSent /\ lastSent[index] = packet

-----------------------------------------------------------------------------
(* The player *)

Changes ==
    /\ mounted
    /\ changes < MaxChanges
    /\ changes' = changes + 1
    /\ UNCHANGED <<mounted, loopVars, indexVars, lastSent, wire>>

\* A gamepad is plugged in, in some state.
Connect(b, s) ==
    /\ b \notin connected
    /\ connected' = connected \union {b}
    /\ raw' = [raw EXCEPT ![b] = s]
    /\ Changes
    /\ UNCHANGED manual

Disconnect(b) ==
    /\ b \in connected
    /\ connected' = connected \ {b}
    /\ Changes
    /\ UNCHANGED <<raw, manual>>

Press(b, s) ==
    /\ b \in connected /\ raw[b] # s
    /\ raw' = [raw EXCEPT ![b] = s]
    /\ Changes
    /\ UNCHANGED <<connected, manual>>

setManualButton ==
    /\ manual' = ~manual
    /\ Changes
    /\ UNCHANGED <<connected, raw>>

\* The component goes away: the loop is disposed, the buttons are forgotten.
Unmount ==
    /\ mounted
    /\ mounted' = FALSE
    /\ manual' = FALSE
    /\ UNCHANGED <<connected, raw, changes, loopVars, indexVars, lastSent, wire>>

-----------------------------------------------------------------------------
(* The loop *)

\* The start of a frame: which gamepads are connected, which have gone.
StartFrame ==
    /\ lpc = "frame" /\ mounted
    /\ gamepads' = connected
    /\ todo' = DOMAIN tracked \ connected
    /\ phase' = "release"
    /\ lpc' = "next"
    /\ UNCHANGED <<playerVars, current, outgoing, indexVars, lastSent, wire>>

\* A disposed loop ends at its next frame.
Disposed ==
    /\ lpc = "frame" /\ ~mounted
    /\ lpc' = "stopped"
    /\ UNCHANGED <<playerVars, phase, gamepads, todo, current, outgoing,
                   indexVars, lastSent, wire>>

\* The gamepad is forgotten, and its index can be given to another.
releaseClientGamepadIndex(b) ==
    /\ tracked' = Restrict(tracked, DOMAIN tracked \ {b})
    /\ available' = available \union {tracked[b]}

\* sendStateIfChanged up to its first await.  b is done at once if the packet is
\* the one sent last; otherwise the loop waits for the writer.
SendIfChanged(b, packet) ==
    /\ current' = b
    /\ outgoing' = packet
    /\ lpc' = IF arePacketsEqual(packet[1], packet) THEN "done" ELSE "write"

\* First part of a frame: a tracked gamepad that is gone goes neutral.
ReleaseOne ==
    /\ lpc = "next" /\ phase = "release" /\ todo # {}
    /\ \E b \in todo :
        /\ todo' = todo \ {b}
        /\ SendIfChanged(b, createNeutralGamepadState(tracked[b]))
    /\ UNCHANGED <<playerVars, phase, gamepads, indexVars, lastSent, wire>>

\* Every gamepad that is gone has been released.
ReleasedAll ==
    /\ lpc = "next" /\ phase = "release" /\ todo = {}
    /\ phase' = "poll"
    /\ todo' = gamepads
    /\ UNCHANGED <<playerVars, lpc, gamepads, current, outgoing,
                   indexVars, lastSent, wire>>

\* Mutant: a freed index is not taken out of the list.
getNextClientGamepadIndex_keeps(b) ==
    \/ /\ available # {}
       /\ tracked' = [x \in DOMAIN tracked \union {b} |->
                        IF x = b THEN Min(available) ELSE tracked[x]]
       /\ UNCHANGED <<available, nextIndex>>
    \/ /\ available = {}
       /\ tracked' = [x \in DOMAIN tracked \union {b} |->
                        IF x = b THEN nextIndex ELSE tracked[x]]
       /\ nextIndex' = nextIndex + 1
       /\ UNCHANGED available

\* The smallest index given back, or else a new one.
getNextClientGamepadIndex(b) ==
    \/ /\ available # {}
       /\ tracked' = [x \in DOMAIN tracked \union {b} |->
                        IF x = b THEN Min(available) ELSE tracked[x]]
       /\ available' = available \ {Min(available)}
       /\ UNCHANGED nextIndex
    \/ /\ available = {}
       /\ tracked' = [x \in DOMAIN tracked \union {b} |->
                        IF x = b THEN nextIndex ELSE tracked[x]]
       /\ nextIndex' = nextIndex + 1
       /\ UNCHANGED available

\* Second part: the gamepads in the browser's order, new ones getting an index.
PollOne ==
    /\ lpc = "next" /\ phase = "poll" /\ todo # {}
    /\ LET b == Min(todo) IN
        /\ todo' = todo \ {b}
        /\ \/ /\ b \in DOMAIN tracked
              /\ UNCHANGED indexVars
           \/ /\ b \notin DOMAIN tracked
              /\ getNextClientGamepadIndex(b)
        /\ SendIfChanged(b, createGamepadState(b, tracked'[b]))
    /\ UNCHANGED <<playerVars, phase, gamepads, lastSent, wire>>

\* Third part: with no gamepad, the on-screen buttons are sent for index 0.
PollVirtual ==
    /\ lpc = "next" /\ phase = "poll" /\ todo = {} /\ gamepads = {}
    /\ phase' = "virtual"
    /\ SendIfChanged(None, createVirtualManualGamepadState)
    /\ UNCHANGED <<playerVars, gamepads, todo, indexVars, lastSent, wire>>

\* Nothing is left to do: requestAnimationFrame(loop).
EndFrame ==
    /\ lpc = "next"
    /\ \/ phase = "virtual"
       \/ phase = "poll" /\ todo = {} /\ gamepads # {}
    /\ lpc' = "frame"
    /\ UNCHANGED <<playerVars, phase, gamepads, todo, current, outgoing,
                   indexVars, lastSent, wire>>

\* Mutant: what is recorded as sent by a poll is the state after the await.
WrittenRereads ==
    /\ lpc = "write"
    /\ wire' = Append(wire, outgoing)
    /\ LET now == CASE phase = "release" -> outgoing
                    [] phase = "virtual" -> createVirtualManualGamepadState
                    [] phase = "poll"    -> createGamepadState(current, outgoing[1])
       IN  lastSent' = [x \in DOMAIN lastSent \union {outgoing[1]} |->
                          IF x = outgoing[1] THEN now ELSE lastSent[x]]
    /\ lpc' = "done"
    /\ UNCHANGED <<playerVars, phase, gamepads, todo, current, outgoing, indexVars>>

\* The writer was ready and has taken the packet.
Written ==
    /\ lpc = "write"
    /\ wire' = Append(wire, outgoing)
    /\ lastSent' = [x \in DOMAIN lastSent \union {outgoing[1]} |->
                      IF x = outgoing[1] THEN outgoing ELSE lastSent[x]]
    /\ lpc' = "done"
    /\ UNCHANGED <<playerVars, phase, gamepads, todo, current, outgoing, indexVars>>

\* The writer fails: the loop logs it, drops the writer and does not go on.
WriteFails ==
    /\ lpc = "write"
    /\ lpc' = "stopped"
    /\ UNCHANGED <<playerVars, phase, gamepads, todo, current, outgoing,
                   indexVars, lastSent, wire>>

\* What follows sendStateIfChanged in the loop.
AfterSend ==
    /\ lpc = "done"
    /\ \/ /\ phase = "release"
          /\ releaseClientGamepadIndex(current)
       \/ /\ phase # "release"
          /\ UNCHANGED <<tracked, available>>
    /\ lpc' = "next"
    /\ UNCHANGED <<playerVars, phase, gamepads, todo, current, outgoing,
                   nextIndex, lastSent, wire>>

-----------------------------------------------------------------------------

PlayerStep ==
    \/ \E b \in Pads, s \in States : Connect(b, s) \/ Press(b, s)
    \/ \E b \in Pads : Disconnect(b)
    \/ setManualButton

\* Steps of the loop other than the write itself.
LoopStep ==
    \/ StartFrame
    \/ Disposed
    \/ ReleaseOne
    \/ ReleasedAll
    \/ PollOne
    \/ PollVirtual
    \/ EndFrame
    \/ AfterSend

Next == PlayerStep \/ Unmount \/ LoopStep \/ Written \/ WriteFails

Spec == Init /\ [][Next]_vars

\* The browser keeps calling back for frames, and the writer gets ready or fails.
FairSpec == Spec /\ WF_vars(LoopStep) /\ WF_vars(Written \/ WriteFails)

-----------------------------------------------------------------------------
(* Properties *)

\* A function's domain and range, for the maps that start out empty.
MapOf(f, D, R) == DOMAIN f \subseteq D /\ \A x \in DOMAIN f : f[x] \in R

\* Types; a packet is remembered under the index it was sent for.
TypeOK ==
    /\ connected \subseteq Pads /\ gamepads \subseteq Pads /\ todo \subseteq Pads
    /\ raw \in [Pads -> States]
    /\ manual \in BOOLEAN /\ mounted \in BOOLEAN /\ changes \in 0 .. MaxChanges
    /\ lpc \in {"frame", "next", "write", "done", "stopped"}
    /\ phase \in {"release", "poll", "virtual"}
    /\ current \in Pads \union {None}
    /\ MapOf(tracked, Pads, Nat)
    /\ available \subseteq Nat /\ nextIndex \in Nat
    /\ \A x \in DOMAIN lastSent : lastSent[x][1] = x

\* No two gamepads send under one index, and every index ever handed out is in
\* use by one gamepad or in the list of free ones.
IndexesPartitioned ==
    /\ IsInjective(tracked)
    /\ Range(tracked) \intersect available = {}
    /\ Range(tracked) \union available = 0 .. nextIndex - 1

\* getNextClientGamepadIndex reuses indexes: however often gamepads come and go,
\* an index stays below the number of gamepads the browser can report at once.
IndexesStayLow == nextIndex <= Cardinality(Pads)

\* Between frames no index that belongs to no gamepad is left with a button down
\* or an axis off centre, except that index 0 carries the on-screen buttons
\* while there is no gamepad.
NothingHeld ==
    lpc = "frame" => \A x \in DOMAIN lastSent :
        \/ x \in Range(tracked)
        \/ lastSent[x] = createNeutralGamepadState(x)
        \/ x = 0 /\ tracked = <<>>

\* The packet is the last one the stream carries for its index.
LastOnWire(packet) ==
    \E k \in DOMAIN wire :
        /\ wire[k] = packet
        /\ \A l \in k + 1 .. Len(wire) : wire[l][1] # packet[1]

\* The stream ends with the state of every gamepad.
InSync ==
    /\ DOMAIN tracked = connected
    /\ \A b \in connected : LastOnWire(createGamepadState(b, tracked[b]))
    /\ connected = {} => LastOnWire(createVirtualManualGamepadState)

\* When the player stops, sendStateIfChanged has sent the final state of every
\* gamepad although it awaited the writer with older packets in hand, unless the
\* loop has ended.
FinalStateIsSent == <>[](lpc = "stopped" \/ InSync)
=============================================================================
