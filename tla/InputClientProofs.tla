-------------------------- MODULE InputClientProofs --------------------------
(***************************************************************************)
(* inputStream.ts, for every set of gamepads: indexes are never shared and *)
(* stay low, and an index that was given back is never left pressed.       *)
(***************************************************************************)
EXTENDS InputClient, FiniteSetTheorems, FunctionTheorems, WellFoundedInduction, TLAPS

\* A frame is under way.
InFrame == lpc \in {"next", "write", "done"}

\* The gamepad whose packet has been computed and not been dealt with.
InHand == IF lpc \in {"write", "done"} THEN {current} ELSE {}

\* The first part of a frame: todo and InHand are the gamepads to be released,
\* all others that have an index were connected when the frame began.
ReleaseInv ==
    InFrame /\ phase = "release" =>
        /\ todo \subseteq DOMAIN tracked
        /\ InHand \subseteq DOMAIN tracked \ todo
        /\ DOMAIN tracked \subseteq gamepads \union todo \union InHand
        /\ lpc \in {"write", "done"} => outgoing = createNeutralGamepadState(tracked[current])
        /\ lpc = "done" => outgoing[1] \in DOMAIN lastSent /\ lastSent[outgoing[1]] = outgoing

\* The second: only connected gamepads have an index.
PollInv ==
    InFrame /\ phase = "poll" =>
        /\ todo \subseteq gamepads
        /\ DOMAIN tracked \subseteq gamepads
        /\ lpc \in {"write", "done"} =>
              current \in DOMAIN tracked /\ outgoing[1] = tracked[current]

\* The third: none has.
VirtualInv ==
    InFrame /\ phase = "virtual" =>
        /\ DOMAIN tracked = {}
        /\ lpc \in {"write", "done"} => outgoing[1] = 0

\* NothingHeld in the middle of a frame.
HeldInv ==
    \A x \in DOMAIN lastSent :
        \/ x \in Range(tracked)
        \/ lastSent[x] = createNeutralGamepadState(x)
        \/ x = 0 /\ DOMAIN tracked = {}

\* The table of indexes.
IndexInv ==
    /\ tracked \in [DOMAIN tracked -> Nat]
    /\ IndexesPartitioned
    /\ IndexesStayLow

IInv ==
    /\ TypeOK
    /\ IndexInv
    /\ ReleaseInv /\ PollInv /\ VirtualInv
    /\ HeldInv

-----------------------------------------------------------------------------
(* Facts about the operators *)

\* Min of FiniteSetsExt is what it says, on natural numbers.
LEMMA MinOfNats ==
    ASSUME NEW S, S \subseteq Nat, S # {}
    PROVE  Min(S) \in S /\ \A y \in S : Min(S) <= y
<1> DEFINE R == {ss \in Nat \X Nat : ss[1] < ss[2]}
<1>1. IsWellFoundedOn(R, Nat)
  BY NatLessThanWellFounded DEF OpToRel
<1>2. ASSUME NEW x \in Nat, NEW y \in Nat, y < x PROVE <<y, x>> \in R
  <2>1. <<y, x>> \in Nat \X Nat /\ <<y, x>>[1] = y /\ <<y, x>>[2] = x
    OBVIOUS
  <2> QED BY <2>1, <1>2
<1> HIDE DEF R
<1>3. PICK m \in S : \A y \in S : ~ (<<y, m>> \in R)
  BY <1>1, WFMin
<1>4. \A y \in S : m <= y
  <2> SUFFICES ASSUME NEW y \in S, ~(m <= y) PROVE FALSE
    OBVIOUS
  <2>1. m \in Nat /\ y \in Nat
    OBVIOUS
  <2>2. <<y, m>> \in R
    BY <1>2, <2>1
  <2> QED BY <1>3, <2>2
<1> QED BY <1>4 DEF Min

\* A packet begins with its index.
LEMMA PacketIndex ==
    ASSUME NEW x \in Nat, NEW s \in Seq(Nat)
    PROVE  encodeGamepadState(x, s)[1] = x
BY DEF encodeGamepadState

\* States are sequences, with the on-screen button too.
LEMMA ManualState ==
    ASSUME NEW s \in States
    PROVE  s \in Seq(Nat) /\ applyManualButtons(s) \in Seq(Nat)
<1>1. s \in Seq(Nat) /\ s # << >>
  BY StatesAssumption
<1>2. Tail(s) \in Seq(Nat)
  BY <1>1
<1> QED BY <1>1, <1>2 DEF applyManualButtons

\* The index of the packets of the three parts of a frame.
LEMMA IndexOfPackets ==
    ASSUME TypeOK
    PROVE  /\ \A x \in Nat : createNeutralGamepadState(x)[1] = x
           /\ createVirtualManualGamepadState[1] = 0
           /\ \A b \in Pads, x \in Nat : createGamepadState(b, x)[1] = x
<1>1. neutral \in States
  BY StatesAssumption
<1>2. \A x \in Nat : createNeutralGamepadState(x)[1] = x
  BY <1>1, ManualState, PacketIndex DEF createNeutralGamepadState
<1>3. createVirtualManualGamepadState[1] = 0
  BY <1>1, ManualState, PacketIndex DEF createVirtualManualGamepadState
<1>4. ASSUME NEW b \in Pads, NEW x \in Nat PROVE createGamepadState(b, x)[1] = x
  <2>1. raw[b] \in States
    BY DEF TypeOK
  <2> QED BY <2>1, ManualState, PacketIndex DEF createGamepadState
<1> QED BY <1>2, <1>3, <1>4

-----------------------------------------------------------------------------
(* The table of indexes *)

\* getNextClientGamepadIndex: the index is free, and no new one is made while
\* one is left over.
LEMMA NewIndex ==
    ASSUME TypeOK, IndexInv, NEW b \in Pads, b \notin DOMAIN tracked,
           getNextClientGamepadIndex(b)
    PROVE  /\ IndexInv'
           /\ DOMAIN tracked' = DOMAIN tracked \union {b}
           /\ tracked'[b] \in Nat
           /\ available' \subseteq Nat /\ nextIndex' \in Nat
           /\ MapOf(tracked, Pads, Nat)'
           /\ Range(tracked) \subseteq Range(tracked')
           /\ DOMAIN tracked = {} => tracked'[b] = 0
<1>1. PICK x \in {Min(available), nextIndex} :
          tracked' = [c \in DOMAIN tracked \union {b} |-> IF c = b THEN x ELSE tracked[c]]
  BY DEF getNextClientGamepadIndex
<1>2. /\ DOMAIN tracked' = DOMAIN tracked \union {b}
      /\ tracked'[b] = x
      /\ \A c \in DOMAIN tracked : tracked'[c] = tracked[c]
  BY <1>1
<1>3. Range(tracked') = Range(tracked) \union {x}
  BY <1>2 DEF Range
<1>4. /\ Range(tracked) \intersect available = {}
      /\ Range(tracked) \union available = 0 .. nextIndex - 1
      /\ available \subseteq Nat /\ nextIndex \in Nat /\ nextIndex <= Cardinality(Pads)
      /\ IsInjective(tracked)
  BY DEF IndexInv, IndexesPartitioned, IndexesStayLow, TypeOK
<1> DEFINE Fresh ==
      /\ x \in Nat /\ x \notin Range(tracked)
      /\ Range(tracked') \intersect available' = {}
      /\ Range(tracked') \union available' = 0 .. nextIndex' - 1
      /\ available' \subseteq Nat /\ nextIndex' \in Nat /\ nextIndex' <= Cardinality(Pads)
      /\ DOMAIN tracked = {} => x = 0
<1>5. ASSUME available # {} PROVE Fresh
  <2>1. /\ x = Min(available) /\ available' = available \ {Min(available)} /\ nextIndex' = nextIndex
    BY <1>5, <1>2 DEF getNextClientGamepadIndex
  <2>2. x \in available /\ \A y \in available : x <= y
    BY <2>1, <1>4, <1>5, MinOfNats
  <2>3. /\ x \in Nat /\ x \notin Range(tracked)
        /\ Range(tracked') \intersect available' = {}
        /\ Range(tracked') \union available' = 0 .. nextIndex' - 1
        /\ available' \subseteq Nat /\ nextIndex' \in Nat
    BY <2>1, <2>2, <1>3, <1>4
  <2>4. DOMAIN tracked = {} => x = 0
    <3> SUFFICES ASSUME DOMAIN tracked = {} PROVE x = 0
      OBVIOUS
    <3>1. Range(tracked) = {}
      BY DEF Range
    <3>2. 0 \in available
      BY <3>1, <2>2, <1>4
    <3> QED BY <3>2, <2>2, <2>3
  <2> QED BY <2>1, <2>3, <2>4, <1>4
<1>6. ASSUME available = {} PROVE Fresh
  <2>1. /\ x = nextIndex /\ available' = {} /\ nextIndex' = nextIndex + 1
    BY <1>6, <1>2 DEF getNextClientGamepadIndex
  <2>2. Range(tracked) = 0 .. nextIndex - 1
    BY <1>4, <1>6
  <2>3. /\ x \in Nat /\ x \notin Range(tracked)
        /\ Range(tracked') \intersect available' = {}
        /\ Range(tracked') \union available' = 0 .. nextIndex' - 1
        /\ available' \subseteq Nat /\ nextIndex' \in Nat
    BY <2>1, <2>2, <1>3, <1>4
  <2>4. DOMAIN tracked = {} => x = 0
    <3> SUFFICES ASSUME DOMAIN tracked = {}, x # 0 PROVE FALSE
      OBVIOUS
    <3>1. Range(tracked) = {}
      BY DEF Range
    <3>2. 0 \in 0 .. nextIndex - 1
      BY <2>1, <1>4
    <3> QED BY <3>1, <3>2, <2>2
  \* The gamepads with an index are as many as the indexes, and b is one more.
  <2>5. nextIndex + 1 <= Cardinality(Pads)
    <3>1. DOMAIN tracked \subseteq Pads /\ IsFiniteSet(Pads)
      BY PadsAssumption DEF TypeOK, MapOf
    <3>2. IsFiniteSet(DOMAIN tracked)
      BY <3>1, FS_Subset
    <3>3. tracked \in Surjection(DOMAIN tracked, 0 .. nextIndex - 1)
      BY <2>2 DEF IndexInv, Range, Surjection
    <3>4. Cardinality(0 .. nextIndex - 1) <= Cardinality(DOMAIN tracked)
      BY <3>2, <3>3, FS_Surjection
    <3>5. Cardinality(0 .. nextIndex - 1) = nextIndex
      BY <1>4, FS_Interval
    <3>6. Cardinality(DOMAIN tracked \union {b}) = Cardinality(DOMAIN tracked) + 1
      BY <3>2, FS_AddElement
    <3>7. Cardinality(DOMAIN tracked \union {b}) <= Cardinality(Pads)
      BY <3>1, FS_Subset
    <3>8. Cardinality(DOMAIN tracked) \in Nat /\ Cardinality(Pads) \in Nat
      BY <3>1, <3>2, FS_CardinalityType
    <3> QED BY <3>4, <3>5, <3>6, <3>7, <3>8, <1>4
  <2> QED BY <2>1, <2>3, <2>4, <2>5
<1>7. Fresh
  BY <1>5, <1>6
<1>8. IsInjective(tracked')
  BY <1>2, <1>4, <1>7 DEF IsInjective, Range
<1>9. tracked' \in [DOMAIN tracked' -> Nat] /\ MapOf(tracked', Pads, Nat)
  BY <1>1, <1>2, <1>7 DEF IndexInv, MapOf, TypeOK
<1> QED BY <1>2, <1>3, <1>7, <1>8, <1>9 DEF IndexInv, IndexesPartitioned, IndexesStayLow, MapOf

\* releaseClientGamepadIndex: the index is free again.
LEMMA FreedIndex ==
    ASSUME TypeOK, IndexInv, NEW b \in DOMAIN tracked,
           releaseClientGamepadIndex(b), nextIndex' = nextIndex
    PROVE  /\ IndexInv'
           /\ DOMAIN tracked' = DOMAIN tracked \ {b}
           /\ available' \subseteq Nat
           /\ MapOf(tracked, Pads, Nat)'
           /\ Range(tracked) = Range(tracked') \union {tracked[b]}
<1>1. /\ tracked' = [c \in DOMAIN tracked \ {b} |-> tracked[c]]
      /\ available' = available \union {tracked[b]}
  BY DEF releaseClientGamepadIndex, Restrict
<1>2. /\ DOMAIN tracked' = DOMAIN tracked \ {b}
      /\ \A c \in DOMAIN tracked \ {b} : tracked'[c] = tracked[c]
  BY <1>1
<1>3. /\ IsInjective(tracked) /\ tracked \in [DOMAIN tracked -> Nat]
      /\ Range(tracked) \intersect available = {}
      /\ Range(tracked) \union available = 0 .. nextIndex - 1
      /\ available \subseteq Nat /\ DOMAIN tracked \subseteq Pads
  BY DEF IndexInv, IndexesPartitioned, TypeOK, MapOf
<1>4. Range(tracked) = Range(tracked') \union {tracked[b]} /\ tracked[b] \notin Range(tracked')
  BY <1>2, <1>3 DEF Range, IsInjective
<1>5. IsInjective(tracked')
  BY <1>2, <1>3 DEF IsInjective
<1>6. tracked' \in [DOMAIN tracked' -> Nat] /\ MapOf(tracked', Pads, Nat)
  BY <1>1, <1>2, <1>3 DEF MapOf
<1>7. /\ Range(tracked') \intersect available' = {}
      /\ Range(tracked') \union available' = 0 .. nextIndex' - 1
      /\ available' \subseteq Nat
  BY <1>1, <1>3, <1>4
<1> QED BY <1>2, <1>4, <1>5, <1>6, <1>7 DEF IndexInv, IndexesPartitioned, IndexesStayLow, MapOf

-----------------------------------------------------------------------------
(* The steps *)

\* The hook starts in the invariant.
LEMMA InitIInv == Init => IInv
<1> SUFFICES ASSUME Init PROVE IInv
  OBVIOUS
<1> USE DEF Init
<1>1. DOMAIN tracked = {} /\ DOMAIN lastSent = {} /\ tracked \in [DOMAIN tracked -> Nat]
  OBVIOUS
<1>2. TypeOK
  <2>1. raw \in [Pads -> States]
    BY StatesAssumption
  <2>2. manual \in BOOLEAN /\ mounted \in BOOLEAN
    OBVIOUS
  <2>3. changes \in 0 .. MaxChanges
    BY MaxChangesAssumption
  <2> QED BY <1>1, <2>1, <2>2, <2>3 DEF TypeOK, MapOf
<1>3. Cardinality(Pads) \in Nat
  BY PadsAssumption, FS_CardinalityType
<1>4. IndexInv
  BY <1>1, <1>3 DEF IndexInv, IndexesPartitioned, IndexesStayLow, IsInjective, Range
<1>5. ReleaseInv /\ PollInv /\ VirtualInv /\ HeldInv
  BY <1>1 DEF ReleaseInv, PollInv, VirtualInv, HeldInv, InFrame
<1> QED BY <1>2, <1>4, <1>5 DEF IInv

\* Steps that leave the table and the packets sent alone.
LEMMA SameTable ==
    ASSUME IInv, UNCHANGED <<indexVars, lastSent>>
    PROVE  IndexInv' /\ HeldInv'
BY DEF IInv, indexVars, IndexInv, IndexesPartitioned, IndexesStayLow, HeldInv, Range, IsInjective,
       createNeutralGamepadState, encodeGamepadState

\* What the player does changes nothing that the loop keeps.
LEMMA PlayerKeeps == ASSUME IInv, PlayerStep \/ Unmount PROVE IInv'
<1>1. UNCHANGED <<loopVars, indexVars, lastSent>>
  BY DEF PlayerStep, Connect, Press, Disconnect, setManualButton, Changes, Unmount
<1>2. TypeOK'
  <2>1. connected' \subseteq Pads /\ raw' \in [Pads -> States]
    BY DEF IInv, TypeOK, PlayerStep, Connect, Press, Disconnect, setManualButton, Unmount
  <2>2. manual' \in BOOLEAN /\ mounted' \in BOOLEAN
    BY DEF IInv, TypeOK, PlayerStep, Connect, Press, Disconnect, setManualButton, Changes, Unmount
  <2>3. changes' \in 0 .. MaxChanges
    <3>1. changes' = changes \/ (changes < MaxChanges /\ changes' = changes + 1)
      BY DEF PlayerStep, Connect, Press, Disconnect, setManualButton, Changes, Unmount
    <3> QED BY <3>1, MaxChangesAssumption DEF IInv, TypeOK
  <2> QED BY <1>1, <2>1, <2>2, <2>3 DEF IInv, TypeOK, loopVars, indexVars, MapOf
<1>3. ReleaseInv' /\ PollInv' /\ VirtualInv'
  BY <1>1 DEF IInv, ReleaseInv, PollInv, VirtualInv, InFrame, InHand, loopVars, indexVars,
              createNeutralGamepadState, encodeGamepadState
<1> QED BY <1>1, <1>2, <1>3, SameTable DEF IInv

\* The steps of a frame that send nothing.
LEMMA FrameKeeps ==
    ASSUME IInv, StartFrame \/ Disposed \/ ReleasedAll \/ EndFrame \/ WriteFails
    PROVE  IInv'
<1>1. UNCHANGED <<indexVars, lastSent, playerVars, current>>
  BY DEF StartFrame, Disposed, ReleasedAll, EndFrame, WriteFails
<1>2. TypeOK'
  BY <1>1 DEF IInv, TypeOK, StartFrame, Disposed, ReleasedAll, EndFrame, WriteFails, indexVars,
              playerVars, MapOf
<1>3. ReleaseInv' /\ PollInv' /\ VirtualInv'
  BY <1>1 DEF IInv, ReleaseInv, PollInv, VirtualInv, InFrame, InHand, indexVars,
              StartFrame, Disposed, ReleasedAll, EndFrame, WriteFails
<1> QED BY <1>1, <1>2, <1>3, SameTable DEF IInv

\* A packet that equals the last one counts as sent.
LEMMA SentIfEqual ==
    ASSUME NEW b, NEW packet, SendIfChanged(b, packet)
    PROVE  /\ current' = b /\ outgoing' = packet /\ lpc' \in {"write", "done"}
           /\ lpc' = "done" => packet[1] \in DOMAIN lastSent /\ lastSent[packet[1]] = packet
BY DEF SendIfChanged, arePacketsEqual

\* ReleaseOne computes the neutral packet.
LEMMA ReleaseKeeps == ASSUME IInv, ReleaseOne PROVE IInv'
<1>1. PICK b \in todo : todo' = todo \ {b} /\ SendIfChanged(b, createNeutralGamepadState(tracked[b]))
  BY DEF ReleaseOne
<1>2. /\ lpc = "next" /\ phase = "release" /\ phase' = "release"
      /\ UNCHANGED <<playerVars, gamepads, indexVars, lastSent>>
  BY DEF ReleaseOne
<1>3. /\ current' = b /\ outgoing' = createNeutralGamepadState(tracked[b]) /\ lpc' \in {"write", "done"}
      /\ lpc' = "done" => outgoing'[1] \in DOMAIN lastSent /\ lastSent[outgoing'[1]] = outgoing'
  BY <1>1, SentIfEqual
<1>4. b \in Pads /\ b \in DOMAIN tracked
  BY <1>2 DEF IInv, ReleaseInv, InFrame, TypeOK
<1>5. TypeOK'
  BY <1>1, <1>2, <1>3, <1>4 DEF IInv, TypeOK, playerVars, indexVars, MapOf
<1>6. ReleaseInv'
  <2>1. createNeutralGamepadState(tracked[b])' = createNeutralGamepadState(tracked[b])
    BY <1>2 DEF indexVars, createNeutralGamepadState, encodeGamepadState
  <2> QED BY <1>1, <1>2, <1>3, <1>4, <2>1 DEF IInv, ReleaseInv, InFrame, InHand, indexVars
<1>7. PollInv' /\ VirtualInv'
  BY <1>2 DEF PollInv, VirtualInv
<1> QED BY <1>2, <1>5, <1>6, <1>7, SameTable DEF IInv

\* The on-screen buttons are sent only when no gamepad has an index.
LEMMA VirtualKeeps == ASSUME IInv, PollVirtual PROVE IInv'
<1>1. /\ lpc = "next" /\ phase = "poll" /\ gamepads = {} /\ phase' = "virtual"
      /\ UNCHANGED <<playerVars, gamepads, todo, indexVars, lastSent>>
      /\ SendIfChanged(None, createVirtualManualGamepadState)
  BY DEF PollVirtual
<1>2. current' = None /\ outgoing' = createVirtualManualGamepadState /\ lpc' \in {"write", "done"}
  BY <1>1, SentIfEqual
<1>3. outgoing'[1] = 0
  BY <1>2, IndexOfPackets DEF IInv
<1>4. DOMAIN tracked = {}
  BY <1>1 DEF IInv, PollInv, InFrame
<1>5. TypeOK'
  BY <1>1, <1>2 DEF IInv, TypeOK, playerVars, indexVars, MapOf
<1>6. ReleaseInv' /\ PollInv' /\ VirtualInv'
  BY <1>1, <1>3, <1>4 DEF ReleaseInv, PollInv, VirtualInv, indexVars
<1> QED BY <1>1, <1>5, <1>6, SameTable DEF IInv

\* A gamepad's packet goes under the gamepad's own index.
LEMMA PollKeeps == ASSUME IInv, PollOne PROVE IInv'
<1> DEFINE b == Min(todo)
<1>1. /\ lpc = "next" /\ phase = "poll" /\ phase' = "poll" /\ todo # {} /\ todo' = todo \ {b}
      /\ UNCHANGED <<playerVars, gamepads, lastSent>>
      /\ SendIfChanged(b, createGamepadState(b, tracked'[b]))
  BY DEF PollOne
<1>2. \/ b \in DOMAIN tracked /\ UNCHANGED indexVars
      \/ b \notin DOMAIN tracked /\ getNextClientGamepadIndex(b)
  BY DEF PollOne
<1>3. b \in todo /\ b \in Pads /\ b \in gamepads
  <2>1. todo \subseteq Nat
    BY PadsAssumption DEF IInv, TypeOK
  <2>2. b \in todo
    BY <1>1, <2>1, MinOfNats
  <2> QED BY <1>1, <2>2 DEF IInv, TypeOK, PollInv, InFrame
<1> HIDE DEF b
<1>4. /\ IndexInv'
      /\ DOMAIN tracked' = DOMAIN tracked \union {b}
      /\ tracked'[b] \in Nat
      /\ available' \subseteq Nat /\ nextIndex' \in Nat
      /\ MapOf(tracked, Pads, Nat)'
      /\ Range(tracked) \subseteq Range(tracked')
      /\ DOMAIN tracked = {} => tracked'[b] = 0
  <2>1. CASE b \in DOMAIN tracked /\ UNCHANGED indexVars
    <3>1. IndexInv'
      BY <2>1, <1>1, SameTable
    <3> QED BY <2>1, <3>1 DEF IInv, TypeOK, MapOf, indexVars
  <2>2. CASE b \notin DOMAIN tracked /\ getNextClientGamepadIndex(b)
    BY <2>2, <1>3, NewIndex DEF IInv
  <2> QED BY <1>2, <2>1, <2>2
<1>5. /\ current' = b /\ outgoing' = createGamepadState(b, tracked'[b]) /\ lpc' \in {"write", "done"}
  BY <1>1, SentIfEqual
<1>6. outgoing'[1] = tracked'[b]
  BY <1>3, <1>4, <1>5, IndexOfPackets DEF IInv
<1>7. TypeOK'
  BY <1>1, <1>3, <1>4, <1>5 DEF IInv, TypeOK, playerVars
<1>8. ReleaseInv' /\ PollInv' /\ VirtualInv'
  BY <1>1, <1>3, <1>4, <1>5, <1>6 DEF IInv, ReleaseInv, PollInv, VirtualInv, InFrame
<1>9. HeldInv'
  <2>1. tracked'[b] \in Range(tracked')
    BY <1>4 DEF Range
  <2> QED BY <1>1, <1>4, <2>1 DEF IInv, HeldInv, createNeutralGamepadState, encodeGamepadState
<1> QED BY <1>4, <1>7, <1>8, <1>9 DEF IInv

\* What was awaited is written for an index that is in use, or for 0.
LEMMA WrittenKeeps == ASSUME IInv, Written PROVE IInv'
<1>1. /\ lpc = "write" /\ lpc' = "done"
      /\ UNCHANGED <<playerVars, phase, gamepads, todo, current, outgoing, indexVars>>
      /\ lastSent' = [x \in DOMAIN lastSent \union {outgoing[1]} |->
                        IF x = outgoing[1] THEN outgoing ELSE lastSent[x]]
  BY DEF Written
<1>2. /\ DOMAIN lastSent' = DOMAIN lastSent \union {outgoing[1]}
      /\ lastSent'[outgoing[1]] = outgoing
      /\ \A x \in DOMAIN lastSent : x # outgoing[1] => lastSent'[x] = lastSent[x]
  BY <1>1
<1>3. TypeOK'
  BY <1>1, <1>2 DEF IInv, TypeOK, playerVars, indexVars, MapOf
<1>4. IndexInv'
  BY <1>1 DEF IInv, indexVars, IndexInv, IndexesPartitioned, IndexesStayLow, Range, IsInjective
<1>5. ReleaseInv' /\ PollInv' /\ VirtualInv'
  BY <1>1, <1>2 DEF IInv, ReleaseInv, PollInv, VirtualInv, InFrame, InHand, indexVars,
                    createNeutralGamepadState, encodeGamepadState
<1>6. \/ outgoing[1] \in Range(tracked)
      \/ outgoing[1] = 0 /\ DOMAIN tracked = {}
  <2>1. CASE phase = "release"
    <3>1. current \in DOMAIN tracked /\ outgoing = createNeutralGamepadState(tracked[current])
      BY <1>1, <2>1 DEF IInv, ReleaseInv, InFrame, InHand
    <3>2. outgoing[1] = tracked[current]
      BY <3>1, IndexOfPackets DEF IInv, TypeOK, MapOf
    <3> QED BY <3>1, <3>2 DEF Range
  <2>2. CASE phase = "poll"
    BY <1>1, <2>2 DEF IInv, PollInv, InFrame, Range
  <2>3. CASE phase = "virtual"
    BY <1>1, <2>3 DEF IInv, VirtualInv, InFrame
  <2> QED BY <2>1, <2>2, <2>3 DEF IInv, TypeOK
<1>7. HeldInv'
  BY <1>1, <1>2, <1>6 DEF IInv, HeldInv, indexVars, createNeutralGamepadState, encodeGamepadState
<1> QED BY <1>3, <1>4, <1>5, <1>7 DEF IInv

\* An index is given back only after its neutral packet went out.
LEMMA AfterSendKeeps == ASSUME IInv, AfterSend PROVE IInv'
<1>1. /\ lpc = "done" /\ lpc' = "next" /\ nextIndex' = nextIndex
      /\ UNCHANGED <<playerVars, phase, gamepads, todo, current, outgoing, lastSent>>
  BY DEF AfterSend
<1>2. CASE phase # "release"
  <2>1. UNCHANGED indexVars
    BY <1>1, <1>2 DEF AfterSend, indexVars
  <2>2. TypeOK'
    BY <1>1, <2>1 DEF IInv, TypeOK, playerVars, indexVars, MapOf
  <2>3. ReleaseInv' /\ PollInv' /\ VirtualInv'
    BY <1>1, <1>2, <2>1 DEF IInv, ReleaseInv, PollInv, VirtualInv, InFrame, indexVars
  <2> QED BY <1>1, <2>1, <2>2, <2>3, SameTable DEF IInv
<1>3. CASE phase = "release"
  <2>1. releaseClientGamepadIndex(current)
    BY <1>3 DEF AfterSend
  <2>2. /\ current \in DOMAIN tracked /\ current \notin todo /\ todo \subseteq DOMAIN tracked
        /\ DOMAIN tracked \subseteq gamepads \union todo \union {current}
        /\ outgoing = createNeutralGamepadState(tracked[current])
        /\ outgoing[1] \in DOMAIN lastSent /\ lastSent[outgoing[1]] = outgoing
    BY <1>1, <1>3 DEF IInv, ReleaseInv, InFrame, InHand
  <2>3. outgoing[1] = tracked[current]
    BY <2>2, IndexOfPackets DEF IInv, TypeOK, MapOf
  <2>4. /\ IndexInv'
        /\ DOMAIN tracked' = DOMAIN tracked \ {current}
        /\ available' \subseteq Nat
        /\ MapOf(tracked, Pads, Nat)'
        /\ Range(tracked) = Range(tracked') \union {tracked[current]}
    BY <1>1, <2>1, <2>2, FreedIndex DEF IInv
  <2>5. TypeOK'
    BY <1>1, <2>4 DEF IInv, TypeOK, playerVars
  <2>6. ReleaseInv' /\ PollInv' /\ VirtualInv'
    BY <1>1, <1>3, <2>2, <2>4 DEF ReleaseInv, PollInv, VirtualInv, InHand
  <2>7. HeldInv'
    <3> SUFFICES ASSUME NEW x \in DOMAIN lastSent, x \notin Range(tracked')
                 PROVE  lastSent[x] = createNeutralGamepadState(x)
      BY <1>1 DEF HeldInv, createNeutralGamepadState, encodeGamepadState
    <3>1. CASE x = tracked[current]
      BY <3>1, <2>2, <2>3
    <3>2. CASE x # tracked[current]
      <4>1. x \notin Range(tracked)
        BY <3>2, <2>4
      <4> QED BY <4>1, <2>2 DEF IInv, HeldInv
    <3> QED BY <3>1, <3>2
  <2> QED BY <2>4, <2>5, <2>6, <2>7 DEF IInv
<1> QED BY <1>2, <1>3

\* Every step preserves the invariant.
LEMMA NextIInv == IInv /\ [Next]_vars => IInv'
<1> SUFFICES ASSUME IInv, [Next]_vars PROVE IInv'
  OBVIOUS
<1>1. CASE PlayerStep \/ Unmount
  BY <1>1, PlayerKeeps
<1>2. CASE LoopStep
  BY <1>2, FrameKeeps, ReleaseKeeps, PollKeeps, VirtualKeeps, AfterSendKeeps DEF LoopStep
<1>3. CASE Written
  BY <1>3, WrittenKeeps
<1>4. CASE WriteFails
  BY <1>4, FrameKeeps
<1>5. CASE UNCHANGED vars
  <2>1. UNCHANGED <<playerVars, loopVars, indexVars, lastSent>>
    BY <1>5 DEF vars
  <2>2. TypeOK'
    BY <2>1 DEF IInv, TypeOK, playerVars, loopVars, indexVars, MapOf
  <2>3. ReleaseInv' /\ PollInv' /\ VirtualInv'
    BY <2>1 DEF IInv, ReleaseInv, PollInv, VirtualInv, InFrame, InHand, loopVars, indexVars,
                createNeutralGamepadState, encodeGamepadState
  <2> QED BY <2>1, <2>2, <2>3, SameTable DEF IInv
<1> QED BY <1>1, <1>2, <1>3, <1>4, <1>5 DEF Next

-----------------------------------------------------------------------------
(* Theorems *)

\* The invariant of the loop, in the middle of frames and of awaits.
THEOREM LoopInvariant == Spec => []IInv
BY InitIInv, NextIInv, PTL DEF Spec

\* Every variable of the loop keeps its type.
THEOREM ClientTypeCorrect == Spec => []TypeOK
<1>1. IInv => TypeOK
  BY DEF IInv
<1> QED BY <1>1, LoopInvariant, PTL

\* getNextClientGamepadIndex and releaseClientGamepadIndex never let two
\* gamepads share an index and never lose one, for any set of gamepads.
THEOREM IndexesNeverShared == Spec => []IndexesPartitioned
<1>1. IInv => IndexesPartitioned
  BY DEF IInv, IndexInv
<1> QED BY <1>1, LoopInvariant, PTL

\* However often gamepads come and go, an index stays below the number of
\* gamepads there can be at once.
THEOREM IndexesBounded == Spec => []IndexesStayLow
<1>1. IInv => IndexesStayLow
  BY DEF IInv, IndexInv
<1> QED BY <1>1, LoopInvariant, PTL

\* Between frames an index that belongs to no gamepad is neutral: a gamepad
\* that is unplugged with a button down, even while a packet of another one is
\* awaited, leaves nothing pressed.
THEOREM NothingStaysHeld == Spec => []NothingHeld
<1>1. IInv => NothingHeld
  <2> SUFFICES ASSUME IInv PROVE NothingHeld
    OBVIOUS
  <2>1. DOMAIN tracked = {} => tracked = << >>
    BY DEF IInv, IndexInv
  <2> QED BY <2>1 DEF IInv, HeldInv, NothingHeld
<1> QED BY <1>1, LoopInvariant, PTL
=============================================================================
