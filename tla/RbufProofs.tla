----------------------------- MODULE RbufProofs -----------------------------
(***************************************************************************)
(* Proofs about the pointer ring, for every size and every number of       *)
(* pushes.  Slots are addressed by their offset from head; the lemmas      *)
(* below turn the ring's modular index arithmetic into linear arithmetic,  *)
(* after which each step is a matter of a few comparisons.                 *)
(*                                                                         *)
(* The last sections show that rbuf2.c implements the bounded queue of     *)
(* RbufContract.  Under the inductive invariant the abstract queue is a    *)
(* run of consecutive push numbers, popped + 1 .. pushed, so each step is  *)
(* judged by what it does to the two counters.                             *)
(***************************************************************************)
EXTENDS Rbuf, SequenceTheorems, TLAPS

-----------------------------------------------------------------------------
(* Index arithmetic *)

\* The remainder of a number below Size is the number itself.
LEMMA ModLow ==
    ASSUME NEW x \in Nat, x < Size
    PROVE  x % Size = x
BY SizeAssumption

\* One wrap-around subtracts Size once.
LEMMA ModHigh ==
    ASSUME NEW x \in Nat, x >= Size, x < 2 * Size
    PROVE  x % Size = x - Size
BY SizeAssumption

\* The value of rbuf_used_capacity for a head h and a tail t.
LEMMA UsedArith ==
    ASSUME NEW h \in Slots, NEW t \in Slots
    PROVE  (h - t - 1 + Size) % Size = IF h > t THEN h - t - 1 ELSE h - t - 1 + Size
<1> DEFINE x == h - t - 1 + Size
<1>1. x \in Nat /\ x < 2 * Size
  BY SizeAssumption DEF Slots
<1>2. CASE h > t
  <2>1. x >= Size /\ x - Size = h - t - 1
    BY <1>2, SizeAssumption DEF Slots
  <2>2. x % Size = x - Size
    BY <1>1, <2>1, ModHigh
  <2> QED BY <1>2, <2>1, <2>2
<1>3. CASE ~(h > t)
  <2>1. x < Size
    BY <1>3, SizeAssumption DEF Slots
  <2>2. x % Size = x
    BY <1>1, <2>1, ModLow
  <2> QED BY <1>3, <2>2
<1> QED BY <1>2, <1>3

\* The slot at offset j from a head h.
LEMMA OffArith ==
    ASSUME NEW h \in Slots, NEW j \in 0 .. Size
    PROVE  (h + j) % Size = IF h + j < Size THEN h + j ELSE h + j - Size
<1>1. CASE h + j < Size
  BY <1>1, ModLow, SizeAssumption DEF Slots
<1>2. CASE ~(h + j < Size)
  BY <1>2, ModHigh, SizeAssumption DEF Slots
<1> QED BY <1>1, <1>2

\* Used and free capacity are the two parts of the usable capacity.
LEMMA UsedValue ==
    ASSUME head \in Slots, tail \in Slots
    PROVE  /\ rbuf_used_capacity = IF head > tail THEN head - tail - 1
                                   ELSE head - tail - 1 + Size
           /\ rbuf_used_capacity \in Slots
           /\ rbuf_free_capacity = Size - 1 - rbuf_used_capacity
           /\ rbuf_free_capacity \in Slots
<1>1. rbuf_used_capacity = IF head > tail THEN head - tail - 1 ELSE head - tail - 1 + Size
  BY UsedArith DEF rbuf_used_capacity
<1> QED BY <1>1, SizeAssumption DEF Slots, rbuf_free_capacity

\* Off as a case distinction instead of a remainder.
LEMMA OffValue ==
    ASSUME head \in Slots, NEW j \in 0 .. Size
    PROVE  /\ Off(j) = IF head + j < Size THEN head + j ELSE head + j - Size
           /\ Off(j) \in Slots
<1>1. Off(j) = IF head + j < Size THEN head + j ELSE head + j - Size
  BY OffArith DEF Off
<1> QED BY <1>1, SizeAssumption DEF Slots

\* Different offsets are different slots.
LEMMA OffInjective ==
    ASSUME head \in Slots, NEW j \in Slots, NEW k \in Slots, Off(j) = Off(k)
    PROVE  j = k
BY OffValue, SizeAssumption DEF Slots

\* Every slot is at some offset.
LEMMA OffSurjective ==
    ASSUME head \in Slots, NEW s \in Slots
    PROVE  \E j \in Slots : s = Off(j)
<1>1. CASE s >= head
  <2>1. s - head \in Slots /\ s = Off(s - head)
    BY <1>1, OffValue, SizeAssumption DEF Slots
  <2> QED BY <2>1
<1>2. CASE s < head
  <2>1. s - head + Size \in Slots /\ s = Off(s - head + Size)
    BY <1>2, OffValue, SizeAssumption DEF Slots
  <2> QED BY <2>1
<1> QED BY <1>1, <1>2, SizeAssumption DEF Slots

\* The last popped entry and the next one to pop, as offsets.
LEMMA TailOffset ==
    ASSUME head \in Slots, tail \in Slots
    PROVE  /\ tail = Off(rbuf_free_capacity)
           /\ NextSlot = Off(rbuf_free_capacity + 1)
           /\ NextSlot \in Slots
<1>1. rbuf_free_capacity \in Slots /\ rbuf_free_capacity + 1 \in 0 .. Size
  BY UsedValue, SizeAssumption DEF Slots
<1>2. rbuf_free_capacity = IF head > tail THEN Size - head + tail ELSE tail - head
  BY UsedValue, SizeAssumption DEF Slots
<1>3. tail = Off(rbuf_free_capacity)
  BY <1>1, <1>2, OffValue, SizeAssumption DEF Slots
<1>4. NextSlot = IF tail + 1 < Size THEN tail + 1 ELSE 0
  <2>1. NextSlot = IF tail + 1 < Size THEN tail + 1 ELSE tail + 1 - Size
    BY OffArith, SizeAssumption DEF NextSlot
  <2> QED BY <2>1, SizeAssumption DEF Slots
<1>5. NextSlot = Off(rbuf_free_capacity + 1)
  BY <1>1, <1>2, <1>4, OffValue, SizeAssumption DEF Slots
<1> QED BY <1>3, <1>4, <1>5, SizeAssumption DEF Slots

\* Moving head by one renumbers the offsets.
LEMMA HeadShift ==
    ASSUME head \in Slots, tail \in Slots, rbuf_free_capacity > 0,
           head' = (head + 1) % Size, tail' = tail
    PROVE  /\ head' \in Slots
           /\ head' = Off(1)
           /\ rbuf_used_capacity' = rbuf_used_capacity + 1
           /\ rbuf_free_capacity' = rbuf_free_capacity - 1
           /\ \A j \in Slots : Off(j)' = Off(j + 1)
           /\ Off(Size) = head
<1>1. head' = Off(1)
  BY DEF Off
<1>2. head' = (IF head + 1 < Size THEN head + 1 ELSE 0) /\ head' \in Slots
  BY <1>1, OffValue, SizeAssumption DEF Slots
<1>3. rbuf_used_capacity' = rbuf_used_capacity + 1
  <2>1. rbuf_used_capacity' = IF head' > tail THEN head' - tail - 1 ELSE head' - tail - 1 + Size
    BY <1>2, UsedArith DEF rbuf_used_capacity
  <2> QED BY <1>2, <2>1, UsedValue, SizeAssumption DEF Slots
<1>4. rbuf_free_capacity' = rbuf_free_capacity - 1
  BY <1>3, UsedValue, SizeAssumption DEF rbuf_free_capacity, Slots
<1>5. ASSUME NEW j \in Slots PROVE Off(j)' = Off(j + 1)
  <2>1. Off(j)' = IF head' + j < Size THEN head' + j ELSE head' + j - Size
    <3>1. j \in 0 .. Size
      BY SizeAssumption DEF Slots
    <3>2. (head' + j) % Size = IF head' + j < Size THEN head' + j ELSE head' + j - Size
      BY <1>2, <3>1, OffArith
    <3> QED BY <3>2 DEF Off
  <2>2. Off(j + 1) = IF head + j + 1 < Size THEN head + j + 1 ELSE head + j + 1 - Size
    BY OffValue, SizeAssumption DEF Slots
  <2> QED BY <1>2, <2>1, <2>2, SizeAssumption DEF Slots
<1>6. Off(Size) = head
  BY OffValue, SizeAssumption DEF Slots
<1> QED BY <1>1, <1>2, <1>3, <1>4, <1>5, <1>6

\* Moving tail by one turns a queued entry into a popped one.
LEMMA TailShift ==
    ASSUME head \in Slots, tail \in Slots, rbuf_used_capacity > 0,
           tail' = (tail + 1) % Size, head' = head
    PROVE  /\ tail' \in Slots
           /\ rbuf_used_capacity' = rbuf_used_capacity - 1
           /\ rbuf_free_capacity' = rbuf_free_capacity + 1
           /\ \A j \in Int : Off(j)' = Off(j)
<1>1. tail' = (IF tail + 1 < Size THEN tail + 1 ELSE 0) /\ tail' \in Slots
  <2>1. tail' = IF tail + 1 < Size THEN tail + 1 ELSE tail + 1 - Size
    BY OffArith, SizeAssumption
  <2> QED BY <2>1, SizeAssumption DEF Slots
<1>2. rbuf_used_capacity' = IF head > tail' THEN head - tail' - 1 ELSE head - tail' - 1 + Size
  BY <1>1, UsedArith DEF rbuf_used_capacity
<1>3. rbuf_used_capacity' = rbuf_used_capacity - 1
  BY <1>1, <1>2, UsedValue, SizeAssumption DEF Slots
<1>4. rbuf_free_capacity' = rbuf_free_capacity + 1
  BY <1>3, UsedValue, SizeAssumption DEF rbuf_free_capacity, Slots
<1> QED BY <1>1, <1>3, <1>4 DEF Off

-----------------------------------------------------------------------------
(* The invariant is preserved by every step *)

\* The invariant holds of the ring that rbuf_init returns.
LEMMA InitInv == Init => Inv
<1> SUFFICES ASSUME Init PROVE Inv
  OBVIOUS
<1> USE DEF Init
<1>1. head \in Slots /\ tail \in Slots
  BY SizeAssumption DEF Slots
<1>2. rbuf_used_capacity = 0 /\ rbuf_free_capacity = Size - 1
  BY <1>1, UsedValue, SizeAssumption DEF Slots
<1>3. \A j \in 1 .. Size - 1 : entries[Off(j)] = NULL
  BY <1>1, OffValue, SizeAssumption
<1>4. TypeOK
  <2>1. (hasFree \in BOOLEAN /\ pushing \in BOOLEAN) /\ (latest \in BOOLEAN /\ blocking \in BOOLEAN)
    BY Zenon
  <2>2. entries \in [Slots -> Nat] /\ i \in 0 .. Size
    BY SizeAssumption DEF NULL
  <2> QED BY <1>1, <2>1, <2>2 DEF TypeOK, NULL
<1>5. NoLeak
  BY DEF NoLeak
<1>6. OrderInv /\ QueuedInv /\ ExpiredInv
  BY <1>2, <1>3, SizeAssumption DEF OrderInv, QueuedInv, ExpiredInv
<1>7. ProducerInv
  BY <1>1 DEF ProducerInv
<1>8. SemInv /\ ConsumerInv
  BY <1>2 DEF SemInv, ConsumerInv, NULL
<1> QED BY <1>4, <1>5, <1>6, <1>7, <1>8 DEF Inv

\* A step that writes neither index nor entry leaves the shape of the ring
\* alone.
LEMMA QuietStep ==
    ASSUME Inv, UNCHANGED <<head, tail, entries, pushed, live>>,
           ppc' # "destroyed", ppc # "destroyed"
    PROVE  /\ NoLeak' /\ OrderInv' /\ QueuedInv' /\ ExpiredInv'
           /\ rbuf_used_capacity' = rbuf_used_capacity
           /\ rbuf_free_capacity' = rbuf_free_capacity
           /\ rbuf_used_capacity \in Slots /\ rbuf_free_capacity \in Slots
           /\ rbuf_used_capacity + rbuf_free_capacity = Size - 1
           /\ \A j : Off(j)' = Off(j)
           /\ entries[head]' = entries[head]
<1>1. rbuf_used_capacity' = rbuf_used_capacity
  BY DEF rbuf_used_capacity
<1>2. rbuf_free_capacity' = rbuf_free_capacity
  BY <1>1 DEF rbuf_free_capacity
<1>3. \A j : Off(j)' = Off(j)
  BY DEF Off
<1>4. NoLeak'
  BY DEF Inv, NoLeak
<1>5. OrderInv' /\ QueuedInv' /\ ExpiredInv'
  BY <1>2, <1>3 DEF Inv, OrderInv, QueuedInv, ExpiredInv
<1>6. rbuf_used_capacity \in Slots /\ rbuf_free_capacity \in Slots
  BY UsedValue DEF Inv, TypeOK
<1>7. rbuf_used_capacity + rbuf_free_capacity = Size - 1
  BY <1>6, UsedValue, SizeAssumption DEF Inv, TypeOK, Slots
<1> QED BY <1>1, <1>2, <1>3, <1>4, <1>5, <1>6, <1>7

\* The producer's bookkeeping steps.
LEMMA ProducerQuiet ==
    ASSUME Inv,
           rbuf_set_free \/ CallFreeExpired \/ CallPush \/ ExpiredGate \/ ExpiredLoop
           \/ PushPost \/ CancelProducer
    PROVE  Inv'
<1>1. UNCHANGED <<head, tail, entries, pushed, live>> /\ ppc' # "destroyed" /\ ppc # "destroyed"
      /\ UNCHANGED <<cpc, latest, blocking, held, popped>>
  BY DEF rbuf_set_free, CallFreeExpired, CallPush, ExpiredGate, ExpiredLoop,
         PushPost, CancelProducer, consumerVars, AfterFreeExpired
<1>2. /\ NoLeak' /\ OrderInv' /\ QueuedInv' /\ ExpiredInv'
      /\ rbuf_used_capacity' = rbuf_used_capacity
      /\ rbuf_free_capacity' = rbuf_free_capacity
      /\ rbuf_used_capacity \in Slots /\ rbuf_free_capacity \in Slots
      /\ rbuf_used_capacity + rbuf_free_capacity = Size - 1
      /\ \A j : Off(j)' = Off(j)
      /\ entries[head]' = entries[head]
  BY <1>1, QuietStep
<1>3. TypeOK'
  <2>1. (hasFree \in BOOLEAN /\ pushing \in BOOLEAN)'
    BY Zenon DEF Inv, TypeOK, rbuf_set_free, CallFreeExpired, CallPush, ExpiredGate,
         ExpiredLoop, PushPost, CancelProducer
  <2>2. i' \in 0 .. Size /\ sem' \in Nat
    BY SizeAssumption DEF Inv, TypeOK, rbuf_set_free, CallFreeExpired, CallPush, ExpiredGate,
         ExpiredLoop, PushPost, CancelProducer
  <2>3. ppc' \in {"idle", "gate", "loop", "free", "store", "dead"}
    BY DEF rbuf_set_free, CallFreeExpired, CallPush, ExpiredGate,
         ExpiredLoop, PushPost, CancelProducer, AfterFreeExpired
  <2> QED BY <1>1, <2>1, <2>2, <2>3 DEF Inv, TypeOK
<1>4. ConsumerInv'
  BY <1>1, <1>2 DEF Inv, ConsumerInv
<1>5. SemInv'
  BY <1>1, <1>2 DEF Inv, TypeOK, SemInv, rbuf_set_free, CallFreeExpired, CallPush, ExpiredGate,
         ExpiredLoop, PushPost, CancelProducer, AfterFreeExpired
<1>6. ProducerInv'
  <2>1. CASE rbuf_set_free \/ CallFreeExpired \/ CancelProducer \/ PushPost
    BY <1>1, <1>2, <2>1 DEF Inv, ProducerInv, rbuf_set_free, CallFreeExpired, CancelProducer, PushPost
  <2>2. CASE CallPush
    BY <1>1, <1>2, <2>2, SizeAssumption DEF Inv, ProducerInv, CallPush, Slots
  <2>3. CASE ExpiredGate
    <3>1. CASE entries[tail] # NULL
      BY <1>1, <1>2, <2>3, <3>1 DEF Inv, ProducerInv, ExpiredGate
    <3>2. CASE entries[tail] = NULL
      <4>1. pushing => rbuf_free_capacity > 0 /\ entries[Off(1)] = NULL
        <5>1. tail = Off(rbuf_free_capacity)
          BY TailOffset DEF Inv, TypeOK
        <5>2. ASSUME pushing PROVE rbuf_free_capacity > 0
          BY <2>3, <5>2 DEF Inv, ProducerInv, ExpiredGate
        <5> QED BY <1>2, <3>2, <5>1, <5>2, SizeAssumption DEF Inv, ExpiredInv, Slots
      <4> QED BY <1>1, <1>2, <2>3, <3>2, <4>1 DEF Inv, ProducerInv, ExpiredGate, AfterFreeExpired
    <3> QED BY <3>1, <3>2
  <2>4. CASE ExpiredLoop
    <3>1. CASE i < Size - rbuf_used_capacity
      BY <1>1, <1>2, <2>4, <3>1, SizeAssumption DEF Inv, TypeOK, ProducerInv, ExpiredLoop, Slots
    <3>2. CASE ~(i < Size - rbuf_used_capacity)
      <4>1. pushing => rbuf_free_capacity > 0 /\ entries[Off(1)] = NULL
        BY <1>2, <2>4, <3>2, SizeAssumption DEF Inv, TypeOK, ProducerInv, ExpiredLoop, Slots
      <4> QED BY <1>1, <1>2, <2>4, <3>2, <4>1 DEF Inv, ProducerInv, ExpiredLoop, AfterFreeExpired
    <3> QED BY <3>1, <3>2
  <2> QED BY <2>1, <2>2, <2>3, <2>4
<1>7. ((ppc = "destroyed") = (cpc = "destroyed"))'
  BY <1>1 DEF Inv
<1> QED BY <1>2, <1>3, <1>4, <1>5, <1>6, <1>7 DEF Inv

\* The consumer's steps that do not move tail.
LEMMA ConsumerQuiet ==
    ASSUME Inv,
           (\E lat, blk \in BOOLEAN : CallPeak(lat, blk)) \/ WaitTake \/ WaitGiveBack
           \/ PopOldLoop \/ PopTake \/ PeakTest \/ PeakRead \/ DoneUsing \/ CancelConsumer
    PROVE  Inv'
<1>1. UNCHANGED <<head, tail, entries, pushed, live, hasFree, ppc, pushing, i, popped>>
      /\ cpc' # "destroyed" /\ cpc # "destroyed"
  BY DEF CallPeak, WaitTake, WaitGiveBack, PopOldLoop, PopTake, PeakTest, PeakRead, DoneUsing,
         CancelConsumer, producerVars
<1>a. ppc' # "destroyed" /\ ppc # "destroyed"
  BY <1>1, Zenon DEF Inv
<1>2. /\ NoLeak' /\ OrderInv' /\ QueuedInv' /\ ExpiredInv'
      /\ rbuf_used_capacity' = rbuf_used_capacity
      /\ rbuf_free_capacity' = rbuf_free_capacity
      /\ rbuf_used_capacity \in Slots /\ rbuf_free_capacity \in Slots
      /\ rbuf_used_capacity + rbuf_free_capacity = Size - 1
      /\ \A j : Off(j)' = Off(j)
      /\ entries[head]' = entries[head]
  BY <1>1, <1>a, QuietStep
<1>3. entries[NextSlot] \in Nat
  BY TailOffset DEF Inv, TypeOK
<1>4. TypeOK'
  <2>1. (latest \in BOOLEAN /\ blocking \in BOOLEAN)'
    BY Zenon DEF Inv, TypeOK, CallPeak, WaitTake, WaitGiveBack, PopOldLoop, PopTake, PeakTest,
         PeakRead, DoneUsing, CancelConsumer
  <2>2. sem' \in Nat /\ held' \in Nat
    BY <1>3 DEF Inv, TypeOK, CallPeak, WaitTake, WaitGiveBack, PopOldLoop, PopTake, PeakTest,
         PeakRead, DoneUsing, CancelConsumer, NULL
  <2>3. cpc' \in {"idle", "wait", "unwait", "old", "oldpop", "oldtail", "peak",
                  "read", "use", "pop", "poptail", "dead"}
    BY DEF CallPeak, WaitTake, WaitGiveBack, PopOldLoop, PopTake, PeakTest,
         PeakRead, DoneUsing, CancelConsumer
  <2> QED BY <1>1, <2>1, <2>2, <2>3 DEF Inv, TypeOK
<1>5. ProducerInv'
  BY <1>1, <1>2 DEF Inv, ProducerInv
<1>6. SemInv'
  BY <1>1, <1>2 DEF Inv, TypeOK, SemInv, CallPeak, WaitTake, WaitGiveBack, PopOldLoop, PopTake,
         PeakTest, PeakRead, DoneUsing, CancelConsumer
<1>7. ConsumerInv'
  <2>1. CASE \E lat, blk \in BOOLEAN : CallPeak(lat, blk)
    BY <1>1, <1>2, <2>1 DEF Inv, ConsumerInv, CallPeak, NULL
  <2>2. CASE WaitTake \/ PopTake \/ PopOldLoop \/ PeakTest
    BY <1>1, <1>2, <2>2 DEF Inv, TypeOK, ConsumerInv, SemInv, WaitTake, PopTake, PopOldLoop,
                            PeakTest, Slots
  <2>3. CASE WaitGiveBack
    BY <1>1, <1>2, <2>3 DEF Inv, TypeOK, ConsumerInv, SemInv, WaitGiveBack
  <2>4. CASE PeakRead
    <3>1. entries[NextSlot] = popped + 1
      <4>1. NextSlot = Off(rbuf_free_capacity + 1)
        BY TailOffset DEF Inv, TypeOK
      <4>2. rbuf_free_capacity + 1 \in 1 .. Size - 1
        BY <1>2, <2>4, SizeAssumption DEF Inv, ConsumerInv, PeakRead, Slots
      <4>3. entries[NextSlot] \in {NULL, pushed + 1 + (rbuf_free_capacity + 1) - Size}
            /\ entries[NextSlot] # NULL
        BY <4>1, <4>2 DEF Inv, OrderInv, QueuedInv
      <4> QED BY <1>2, <4>3, SizeAssumption DEF Inv, TypeOK, ConsumerInv, Slots
    <3> QED BY <1>1, <1>2, <2>4, <3>1 DEF Inv, TypeOK, ConsumerInv, PeakRead, NULL
  <2>5. CASE DoneUsing \/ CancelConsumer
    BY <1>1, <1>2, <2>5 DEF Inv, ConsumerInv, DoneUsing, CancelConsumer
  <2> QED BY <2>1, <2>2, <2>3, <2>4, <2>5
<1>8. ((ppc = "destroyed") = (cpc = "destroyed"))'
  BY <1>1, <1>a
<1> QED BY <1>2, <1>4, <1>5, <1>6, <1>7, <1>8 DEF Inv

\* rbuf_free_expired frees the popped entry at offset i and clears its slot.
LEMMA ExpiredFreeStep == ASSUME Inv, ExpiredFree PROVE Inv'
<1> USE DEF ExpiredFree
<1>1. UNCHANGED <<head, tail, pushed, popped, hasFree, pushing, cpc, latest, blocking, held, sem>>
      /\ ppc = "free" /\ ppc' = "loop" /\ i' = i + 1
  BY DEF consumerVars
<1>2. /\ rbuf_used_capacity' = rbuf_used_capacity
      /\ rbuf_free_capacity' = rbuf_free_capacity
      /\ \A j : Off(j)' = Off(j)
  BY <1>1 DEF rbuf_used_capacity, rbuf_free_capacity, Off
<1>3. rbuf_free_capacity \in Slots
  BY UsedValue DEF Inv, TypeOK
<1>4. i \in 1 .. rbuf_free_capacity /\ i \in Slots /\ i < Size
  BY <1>1, <1>3, SizeAssumption DEF Inv, TypeOK, ProducerInv, Slots
<1>5. ExpiredSlot = Off(i) /\ Off(i) \in Slots
  BY <1>4, OffValue, SizeAssumption DEF Inv, TypeOK, ExpiredSlot, Off
<1>6. entries \in [Slots -> Nat] /\ entries' = [entries EXCEPT ![Off(i)] = NULL]
  BY <1>5 DEF Inv, TypeOK
<1>7. \A j \in Slots : entries'[Off(j)] = IF j = i THEN NULL ELSE entries[Off(j)]
  BY <1>4, <1>6, OffInjective, OffValue, SizeAssumption DEF Inv, TypeOK, Slots
<1>8. TypeOK'
  <2>1. entries' \in [Slots -> Nat]
    BY <1>5, <1>6 DEF NULL
  <2>2. live' \subseteq Nat
    BY DEF Inv, TypeOK
  <2>3. i' \in 0 .. Size
    BY <1>1, <1>4, SizeAssumption DEF Slots
  <2> QED BY <1>1, <2>1, <2>2, <2>3 DEF Inv, TypeOK
<1>9. \A j \in Slots : Off(j)' = Off(j)
  BY <1>2
<1>10. OrderInv' /\ QueuedInv' /\ ExpiredInv'
  <2>1. OrderInv'
    BY <1>1, <1>2, <1>7, SizeAssumption DEF Inv, OrderInv, Slots
  <2>2. QueuedInv'
    BY <1>1, <1>2, <1>3, <1>4, <1>7, SizeAssumption DEF Inv, QueuedInv, Slots
  <2>3. ExpiredInv'
    <3> SUFFICES ASSUME NEW j \in 1 .. rbuf_free_capacity, NEW k \in 1 .. rbuf_free_capacity,
                        j < k, entries'[Off(j)] # NULL
                 PROVE  entries'[Off(k)] # NULL
      BY <1>2 DEF ExpiredInv
    <3>1. j # i /\ entries[Off(j)] # NULL
      BY <1>3, <1>7, SizeAssumption DEF Slots
    <3>2. ~(j < i)
      BY <1>1, <1>4, <3>1 DEF Inv, ProducerInv
    <3>3. k # i /\ entries[Off(k)] # NULL
      BY <1>4, <3>1, <3>2 DEF Inv, ExpiredInv
    <3> QED BY <1>3, <1>7, <3>3, SizeAssumption DEF Slots
  <2> QED BY <2>1, <2>2, <2>3
<1>11. Off(0) = head
  BY OffValue, SizeAssumption DEF Inv, TypeOK, Slots
<1>12. ProducerInv'
  <2>1. entries'[head] = NULL
    BY <1>1, <1>4, <1>7, <1>11, SizeAssumption DEF Inv, ProducerInv, Slots
  <2>2. \A j \in 1 .. i' - 1 : entries'[Off(j)] = NULL
    BY <1>1, <1>3, <1>4, <1>7, SizeAssumption DEF Inv, ProducerInv, Slots
  <2>3. i' >= 1 /\ hasFree /\ (pushing => rbuf_free_capacity > 0)
    BY <1>1, <1>4 DEF Inv, ProducerInv
  <2> QED BY <1>1, <1>2, <2>1, <2>2, <2>3 DEF ProducerInv
<1>13. SemInv' /\ ConsumerInv'
  BY <1>1, <1>2 DEF Inv, SemInv, ConsumerInv
<1>14. ((ppc = "destroyed") = (cpc = "destroyed"))'
  BY <1>1 DEF Inv
<1>15. NoLeak'
  <2>1. live = {entries[s] : s \in Slots} \ {NULL}
    BY <1>1 DEF Inv, NoLeak
  <2>2. \A s \in Slots : s # Off(i) /\ entries[s] = entries[Off(i)] => entries[s] = NULL
    <3> SUFFICES ASSUME NEW s \in Slots, s # Off(i), entries[s] = entries[Off(i)],
                        entries[s] # NULL
                 PROVE  FALSE
      OBVIOUS
    <3>1. PICK j \in Slots : s = Off(j)
      BY OffSurjective DEF Inv, TypeOK
    <3>2. j # i /\ j # 0
      BY <1>1, <1>11, <3>1 DEF Inv, ProducerInv
    <3>3. entries[Off(j)] = pushed + 1 + j - Size /\ entries[Off(i)] = pushed + 1 + i - Size
      BY <1>4, <3>1, <3>2, SizeAssumption DEF Inv, OrderInv, Slots
    <3> QED BY <1>4, <3>1, <3>2, <3>3, SizeAssumption DEF Inv, TypeOK, Slots
  <2>3. live' = {entries'[s] : s \in Slots} \ {NULL}
    BY <1>5, <1>6, <2>1, <2>2
  <2> QED BY <1>1, <2>3 DEF NoLeak
<1> QED BY <1>8, <1>10, <1>12, <1>13, <1>14, <1>15 DEF Inv

\* rbuf_push stores the new pointer in the slot at head, which is free.
LEMMA PushStoreStep == ASSUME Inv, PushStore PROVE Inv'
<1> USE DEF PushStore
<1>1. UNCHANGED <<head, tail, pushed, popped, hasFree, pushing, i, cpc, latest, blocking, held, sem>>
      /\ ppc = "store" /\ ppc' = "advance"
  BY DEF consumerVars
<1>2. /\ rbuf_used_capacity' = rbuf_used_capacity
      /\ rbuf_free_capacity' = rbuf_free_capacity
      /\ \A j : Off(j)' = Off(j)
  BY <1>1 DEF rbuf_used_capacity, rbuf_free_capacity, Off
<1>3. rbuf_free_capacity \in Slots
  BY UsedValue DEF Inv, TypeOK
<1>4. head \in Slots /\ entries \in [Slots -> Nat] /\ entries[head] = NULL /\ pushed \in Nat
  BY <1>1 DEF Inv, TypeOK, ProducerInv
<1>5. Off(0) = head
  BY <1>4, OffValue, SizeAssumption DEF Slots
<1>6. \A j \in 1 .. Size - 1 : entries'[Off(j)] = entries[Off(j)]
  BY <1>4, <1>5, OffInjective, OffValue, SizeAssumption DEF Slots
<1>7. TypeOK'
  <2>1. entries' \in [Slots -> Nat]
    BY <1>4
  <2>2. live' \subseteq Nat
    BY <1>4 DEF Inv, TypeOK
  <2> QED BY <1>1, <2>1, <2>2 DEF Inv, TypeOK
<1>8. OrderInv' /\ QueuedInv' /\ ExpiredInv'
  <2>1. OrderInv'
    BY <1>1, <1>2, <1>6 DEF Inv, OrderInv
  <2>2. QueuedInv'
    BY <1>2, <1>3, <1>6, SizeAssumption DEF Inv, QueuedInv, Slots
  <2>3. ExpiredInv'
    BY <1>2, <1>3, <1>6, SizeAssumption DEF Inv, ExpiredInv, Slots
  <2> QED BY <2>1, <2>2, <2>3
<1>9. ProducerInv'
  <2>1. entries'[head] = pushed + 1
    BY <1>4
  <2>2. rbuf_free_capacity > 0 /\ entries'[Off(1)] = NULL /\ pushing /\ hasFree
    BY <1>1, <1>6, SizeAssumption DEF Inv, ProducerInv
  <2> QED BY <1>1, <1>2, <2>1, <2>2 DEF ProducerInv
<1>10. SemInv' /\ ConsumerInv'
  BY <1>1, <1>2 DEF Inv, SemInv, ConsumerInv
<1>11. ((ppc = "destroyed") = (cpc = "destroyed"))'
  BY <1>1 DEF Inv
<1>12. NoLeak'
  <2>1. live = {entries[s] : s \in Slots} \ {NULL}
    BY <1>1 DEF Inv, NoLeak
  <2>2. pushed + 1 # NULL
    BY <1>4 DEF NULL
  <2>3. live' = {entries'[s] : s \in Slots} \ {NULL}
    BY <1>4, <2>1, <2>2
  <2> QED BY <1>1, <2>3 DEF NoLeak
<1> QED BY <1>7, <1>8, <1>9, <1>10, <1>11, <1>12 DEF Inv

\* rbuf_push moves head: the stored entry becomes the newest queued one.
LEMMA PushAdvanceStep == ASSUME Inv, PushAdvance PROVE Inv'
<1> USE DEF PushAdvance
<1>1. UNCHANGED <<tail, popped, hasFree, pushing, i, cpc, latest, blocking, held, sem, entries, live>>
      /\ ppc = "advance" /\ ppc' = "post" /\ pushed' = pushed + 1 /\ head' = (head + 1) % Size
  BY DEF consumerVars
<1>2. head \in Slots /\ tail \in Slots /\ pushed \in Nat /\ pushed' \in Nat
      /\ rbuf_free_capacity > 0 /\ entries[Off(1)] = NULL /\ entries[head] = pushed + 1
      /\ hasFree
  BY <1>1 DEF Inv, TypeOK, ProducerInv
<1>3. /\ head' \in Slots
      /\ head' = Off(1)
      /\ rbuf_used_capacity' = rbuf_used_capacity + 1
      /\ rbuf_free_capacity' = rbuf_free_capacity - 1
      /\ \A j \in Slots : Off(j)' = Off(j + 1)
      /\ Off(Size) = head
  BY <1>1, <1>2, HeadShift
<1>4. rbuf_used_capacity \in Slots /\ rbuf_free_capacity \in Slots
      /\ rbuf_used_capacity + rbuf_free_capacity = Size - 1
  BY <1>2, UsedValue, SizeAssumption DEF Slots
<1>5. \A j \in Slots : (entries[Off(j)])' = entries[Off(j + 1)]
  BY <1>1, <1>3
<1>6. TypeOK'
  BY <1>1, <1>2, <1>3 DEF Inv, TypeOK
<1>7. OrderInv'
  <2> SUFFICES ASSUME NEW j \in 1 .. Size - 1
               PROVE  entries[Off(j + 1)] \in {NULL, pushed + 2 + j - Size}
    BY <1>1, <1>2, <1>5, SizeAssumption DEF OrderInv, Slots
  <2>1. CASE j = Size - 1
    BY <1>2, <1>3, <2>1, SizeAssumption
  <2>2. CASE j + 1 \in 1 .. Size - 1
    BY <1>2, <2>2, SizeAssumption DEF Inv, OrderInv
  <2> QED BY <2>1, <2>2, SizeAssumption
<1>8. QueuedInv'
  <2> SUFFICES ASSUME NEW j \in rbuf_free_capacity .. Size - 1
               PROVE  entries[Off(j + 1)] # NULL
    BY <1>2, <1>3, <1>4, <1>5, SizeAssumption DEF QueuedInv, Slots
  <2>1. CASE j = Size - 1
    BY <1>2, <1>3, <2>1, SizeAssumption DEF NULL
  <2>2. CASE j + 1 \in rbuf_free_capacity + 1 .. Size - 1
    BY <2>2 DEF Inv, QueuedInv
  <2> QED BY <1>4, <2>1, <2>2, SizeAssumption DEF Slots
<1>9. ExpiredInv'
  <2> SUFFICES ASSUME NEW j \in 1 .. rbuf_free_capacity - 1, NEW k \in 1 .. rbuf_free_capacity - 1,
                      j < k, entries[Off(j + 1)] # NULL
               PROVE  entries[Off(k + 1)] # NULL
    BY <1>3, <1>4, <1>5, SizeAssumption DEF ExpiredInv, Slots
  <2>1. j + 1 \in 1 .. rbuf_free_capacity /\ k + 1 \in 1 .. rbuf_free_capacity /\ j + 1 < k + 1
    BY <1>4 DEF Slots
  <2> QED BY <2>1 DEF Inv, ExpiredInv
<1>10. ProducerInv'
  <2>1. (entries[head])' = NULL
    BY <1>1, <1>2, <1>3
  <2> QED BY <1>1, <1>2, <2>1 DEF ProducerInv
<1>11. SemInv'
  BY <1>1, <1>3, <1>4 DEF Inv, TypeOK, SemInv, Slots
<1>12. ConsumerInv'
  BY <1>1, <1>3, <1>4 DEF Inv, TypeOK, ConsumerInv, Slots
<1>13. ((ppc = "destroyed") = (cpc = "destroyed"))'
  BY <1>1 DEF Inv
<1>14. NoLeak'
  BY <1>1 DEF Inv, NoLeak
<1> QED BY <1>6, <1>7, <1>8, <1>9, <1>10, <1>11, <1>12, <1>13, <1>14 DEF Inv

\* rbuf_pop moves tail: the oldest queued entry becomes the newest popped one.
LEMMA PopTailStep == ASSUME Inv, PopTail PROVE Inv'
<1> USE DEF PopTail
<1>1. UNCHANGED <<head, pushed, hasFree, ppc, pushing, i, latest, blocking, held, sem, entries, live>>
      /\ cpc \in {"oldtail", "poptail"} /\ cpc' = (IF cpc = "oldtail" THEN "old" ELSE "idle")
      /\ popped' = popped + 1 /\ tail' = (tail + 1) % Size
  BY DEF producerVars
<1>2. head \in Slots /\ tail \in Slots /\ popped \in Nat /\ popped' \in Nat
  BY <1>1 DEF Inv, TypeOK
<1>3. rbuf_used_capacity \in Slots /\ rbuf_free_capacity \in Slots
      /\ rbuf_used_capacity + rbuf_free_capacity = Size - 1
  BY <1>2, UsedValue, SizeAssumption DEF Slots
<1>4. rbuf_used_capacity > 0
  BY <1>1, <1>3 DEF Inv, TypeOK, SemInv, Slots
<1>5. /\ tail' \in Slots
      /\ rbuf_used_capacity' = rbuf_used_capacity - 1
      /\ rbuf_free_capacity' = rbuf_free_capacity + 1
      /\ \A j \in Int : Off(j)' = Off(j)
  BY <1>1, <1>2, <1>4, TailShift
<1>6. \A j \in Int : (entries[Off(j)])' = entries[Off(j)]
  BY <1>1, <1>5
<1>7. TypeOK'
  BY <1>1, <1>2, <1>5 DEF Inv, TypeOK
<1>8. OrderInv'
  BY <1>1, <1>6, SizeAssumption DEF Inv, OrderInv
<1>9. QueuedInv'
  BY <1>3, <1>5, <1>6, SizeAssumption DEF Inv, QueuedInv, Slots
<1>10. ExpiredInv'
  <2> SUFFICES ASSUME NEW j \in 1 .. rbuf_free_capacity + 1, NEW k \in 1 .. rbuf_free_capacity + 1,
                      j < k, entries[Off(j)] # NULL
               PROVE  entries[Off(k)] # NULL
    BY <1>3, <1>5, <1>6, SizeAssumption DEF ExpiredInv, Slots
  <2>1. CASE k = rbuf_free_capacity + 1
    BY <1>3, <1>4, <2>1, SizeAssumption DEF Inv, QueuedInv, Slots
  <2>2. CASE k \in 1 .. rbuf_free_capacity
    BY <1>3, <2>2 DEF Inv, ExpiredInv, Slots
  <2> QED BY <1>3, <2>1, <2>2 DEF Slots
<1>11. ProducerInv'
  <2>1. (ppc \in {"loop", "free"} =>
          i >= 1 /\ \A j \in 1 .. i - 1 : entries[Off(j)] = NULL)'
    BY <1>1, <1>6 DEF Inv, TypeOK, ProducerInv
  <2>2. (entries[Off(1)])' = entries[Off(1)] /\ (entries[head])' = entries[head]
    BY <1>1, <1>6
  <2>3. (ppc = "free" => i <= rbuf_free_capacity)'
    BY <1>1, <1>3, <1>5 DEF Inv, TypeOK, ProducerInv, Slots
  <2>4. rbuf_free_capacity' > 0
    BY <1>3, <1>5 DEF Slots
  <2> QED BY <1>1, <2>1, <2>2, <2>3, <2>4 DEF Inv, ProducerInv
<1>12. SemInv'
  BY <1>1, <1>3, <1>5 DEF Inv, TypeOK, SemInv, Slots
<1>13. ConsumerInv'
  <2>1. ConsumerInv /\ popped \in Nat /\ pushed \in Nat
    BY DEF Inv, TypeOK
  <2>2. rbuf_used_capacity \in Nat
    BY <1>3, SizeAssumption DEF Slots
  <2>3. popped' + rbuf_used_capacity' = pushed'
    BY <1>1, <1>5, <2>1, <2>2 DEF ConsumerInv
  <2>4. cpc' = "old" => rbuf_used_capacity' > 0
    BY <1>1, <1>5, <2>1, <2>2 DEF ConsumerInv
  <2>5. held' = NULL /\ cpc' \in {"old", "idle"}
    BY <1>1, <2>1 DEF ConsumerInv
  <2> QED BY <2>3, <2>4, <2>5 DEF ConsumerInv
<1>14. ((ppc = "destroyed") = (cpc = "destroyed"))'
  BY <1>1 DEF Inv
<1>15. NoLeak'
  BY <1>1 DEF Inv, NoLeak
<1> QED BY <1>7, <1>8, <1>9, <1>10, <1>11, <1>12, <1>13, <1>14, <1>15 DEF Inv

\* rbuf_destroy frees everything that is left in a slot.
LEMMA DestroyStep == ASSUME Inv, rbuf_destroy PROVE Inv'
<1> USE DEF rbuf_destroy
<1>1. UNCHANGED <<head, tail, entries, pushed, popped, hasFree, pushing, i, latest, blocking, held, sem>>
      /\ ppc = "dead" /\ ppc' = "destroyed" /\ cpc = "dead" /\ cpc' = "destroyed"
  OBVIOUS
<1>2. /\ rbuf_used_capacity' = rbuf_used_capacity
      /\ rbuf_free_capacity' = rbuf_free_capacity
      /\ \A j : Off(j)' = Off(j)
  BY <1>1 DEF rbuf_used_capacity, rbuf_free_capacity, Off
<1>3. live' = {}
  <2>1. live = {entries[s] : s \in Slots} \ {NULL}
    BY <1>1 DEF Inv, NoLeak
  <2>2. CASE hasFree
    BY <2>1, <2>2
  <2>3. CASE ~hasFree
    <3>1. \A s \in Slots : entries[s] = NULL
      <4> SUFFICES ASSUME NEW s \in Slots PROVE entries[s] = NULL
        OBVIOUS
      <4>1. PICK j \in Slots : s = Off(j)
        BY OffSurjective DEF Inv, TypeOK
      <4>2. CASE j = 0
        BY <1>1, <4>1, <4>2, OffValue, SizeAssumption DEF Inv, TypeOK, ProducerInv, Slots
      <4>3. CASE j # 0
        <5>1. entries[s] \in {NULL, pushed + 1 + j - Size} /\ entries[s] \in Nat /\ pushed = 0
          BY <2>3, <4>1, <4>3, SizeAssumption DEF Inv, TypeOK, OrderInv, ProducerInv, Slots
        <5> QED BY <5>1, SizeAssumption DEF Slots, NULL
      <4> QED BY <4>2, <4>3
    <3> QED BY <2>1, <2>3, <3>1
  <2> QED BY <2>2, <2>3
<1>4. TypeOK'
  BY <1>1, <1>3 DEF Inv, TypeOK
<1>5. NoLeak' /\ ((ppc = "destroyed") = (cpc = "destroyed"))'
  BY <1>1, <1>3 DEF NoLeak
<1>6. OrderInv' /\ QueuedInv' /\ ExpiredInv'
  BY <1>1, <1>2 DEF Inv, OrderInv, QueuedInv, ExpiredInv
<1>7. ProducerInv' /\ SemInv' /\ ConsumerInv'
  <2>1. ProducerInv /\ SemInv /\ ConsumerInv
    BY DEF Inv
  <2>2. ProducerInv'
    BY <1>1, <1>2, <2>1 DEF ProducerInv
  <2>3. SemInv'
    BY <1>1, <1>2, <2>1 DEF SemInv
  <2>4. ConsumerInv'
    BY <1>1, <1>2, <2>1 DEF ConsumerInv
  <2> QED BY <2>2, <2>3, <2>4
<1> QED BY <1>4, <1>5, <1>6, <1>7 DEF Inv

-----------------------------------------------------------------------------
(* Theorems *)

\* Every step of either thread, and of the teardown, preserves the invariant.
LEMMA NextInv == Inv /\ [Next]_vars => Inv'
<1> SUFFICES ASSUME Inv, [Next]_vars PROVE Inv'
  OBVIOUS
<1>1. CASE Producer
  BY <1>1, ProducerQuiet, ExpiredFreeStep, PushStoreStep, PushAdvanceStep DEF Producer
<1>2. CASE Consumer
  BY <1>2, ConsumerQuiet, PopTailStep DEF Consumer
<1>3. CASE Teardown
  BY <1>3, ProducerQuiet, ConsumerQuiet, DestroyStep DEF Teardown
<1>4. CASE UNCHANGED vars
  <2>1. UNCHANGED <<head, hasFree, ppc, pushing, i, pushed, tail, cpc, latest, blocking,
                    held, popped, entries, sem, live>>
    BY <1>4 DEF vars, producerVars, consumerVars
  <2>2. /\ rbuf_used_capacity' = rbuf_used_capacity /\ rbuf_free_capacity' = rbuf_free_capacity
        /\ \A j : Off(j)' = Off(j)
    BY <2>1 DEF rbuf_used_capacity, rbuf_free_capacity, Off
  <2>3. /\ TypeOK /\ NoLeak /\ OrderInv /\ QueuedInv /\ ExpiredInv
        /\ ProducerInv /\ SemInv /\ ConsumerInv
    BY DEF Inv
  <2>4. TypeOK' /\ NoLeak'
    BY <2>1, <2>2, <2>3 DEF TypeOK, NoLeak
  <2>5. OrderInv' /\ QueuedInv'
    BY <2>1, <2>2, <2>3 DEF OrderInv, QueuedInv
  <2>6. ExpiredInv'
    BY <2>1, <2>2, <2>3 DEF ExpiredInv
  <2>7. ProducerInv'
    BY <2>1, <2>2, <2>3 DEF ProducerInv
  <2>8. SemInv' /\ ConsumerInv'
    BY <2>1, <2>2, <2>3 DEF SemInv, ConsumerInv
  <2>9. ((ppc = "destroyed") = (cpc = "destroyed"))'
    BY <2>1 DEF Inv
  <2> QED BY <2>4, <2>5, <2>6, <2>7, <2>8, <2>9 DEF Inv
<1> QED BY <1>1, <1>2, <1>3, <1>4 DEF Next

\* The inductive invariant of rbuf2.c holds in every reachable state of a ring
\* of any size, for any interleaving of the two threads.
THEOREM RingInvariant == Spec => []Inv
BY InitInv, NextInv, PTL DEF Spec

\* The indices stay inside the entries array and every counter keeps its type.
THEOREM TypeCorrect == Spec => []TypeOK
<1>1. Inv => TypeOK
  BY DEF Inv
<1> QED BY <1>1, RingInvariant, PTL

\* rbuf_free_expired never frees an entry the consumer is using.
THEOREM HeldEntryIsLive == Spec => []HeldIsLive
<1>1. Inv => HeldIsLive
  <2> SUFFICES ASSUME Inv, held # NULL PROVE held \in live /\ held = popped + 1
    BY DEF HeldIsLive
  <2>1. cpc = "use" /\ held = popped + 1 /\ rbuf_used_capacity > 0 /\ ppc # "destroyed"
    BY DEF Inv, ConsumerInv
  <2>2. rbuf_used_capacity \in Slots /\ rbuf_free_capacity = Size - 1 - rbuf_used_capacity
    BY UsedValue DEF Inv, TypeOK
  <2>3. rbuf_free_capacity + 1 \in 1 .. Size - 1 /\ rbuf_free_capacity + 1 \in 0 .. Size
    BY <2>1, <2>2, SizeAssumption DEF Slots
  <2>4. entries[Off(rbuf_free_capacity + 1)] = pushed + 1 + (rbuf_free_capacity + 1) - Size
    BY <2>3 DEF Inv, OrderInv, QueuedInv
  <2>5. pushed + 1 + (rbuf_free_capacity + 1) - Size = popped + 1
    BY <2>2, SizeAssumption DEF Inv, TypeOK, ConsumerInv, Slots
  <2>6. Off(rbuf_free_capacity + 1) \in Slots
    BY <2>3, OffValue DEF Inv, TypeOK
  <2> QED BY <2>1, <2>4, <2>5, <2>6 DEF Inv, NoLeak
<1> QED BY <1>1, RingInvariant, PTL

\* rbuf_push never overwrites an entry that still has to be freed.
THEOREM NoEntryLeaks == Spec => []NoLeak
<1>1. Inv => NoLeak
  BY DEF Inv
<1> QED BY <1>1, RingInvariant, PTL

\* The assertions of rbuf_pop, _rbuf_peak, rbuf_wait_peak and
\* rbuf_wait_peak_latest never fail.
THEOREM AssertionsHold == Spec => []PeakFindsEntry
<1>1. Inv => PeakFindsEntry
  <2> SUFFICES ASSUME Inv PROVE PeakFindsEntry
    OBVIOUS
  <2>1. rbuf_used_capacity \in Slots /\ rbuf_free_capacity = Size - 1 - rbuf_used_capacity
    BY UsedValue DEF Inv, TypeOK
  <2>2. ASSUME cpc = "read" PROVE entries[NextSlot] # NULL
    <3>1. rbuf_free_capacity + 1 \in rbuf_free_capacity + 1 .. Size - 1
      BY <2>1, <2>2, SizeAssumption DEF Inv, ConsumerInv, Slots
    <3>2. NextSlot = Off(rbuf_free_capacity + 1)
      BY TailOffset DEF Inv, TypeOK
    <3> QED BY <3>1, <3>2 DEF Inv, QueuedInv
  <2>3. cpc \in {"oldtail", "poptail"} => rbuf_used_capacity > 0
    BY <2>1 DEF Inv, TypeOK, SemInv, Slots
  <2> QED BY <2>2, <2>3 DEF Inv, ConsumerInv, PeakFindsEntry
<1> QED BY <1>1, RingInvariant, PTL

-----------------------------------------------------------------------------
(* The refinement mapping *)

\* The refinement mapping of Contract, by name.
Queue ==
    IF cpc = "destroyed" THEN << >>
    ELSE [k \in 1 .. rbuf_used_capacity |-> entries[(tail + k) % Size]]

Retired == {x \in live : x <= popped}

\* The push numbers from + 1 .. to, oldest first.
Run(from, to) == [k \in 1 .. to - from |-> from + k]

-----------------------------------------------------------------------------
(* Runs of push numbers *)

\* A run is a sequence of the expected length.
LEMMA RunIsSequence ==
    ASSUME NEW f \in Nat, NEW t \in Nat, f <= t
    PROVE  Run(f, t) \in Seq(Nat) /\ Len(Run(f, t)) = t - f
<1>1. t - f \in Nat /\ \A k \in 1 .. t - f : f + k \in Nat
  OBVIOUS
<1> QED BY <1>1 DEF Run

\* Moving head appends the number of the push.
LEMMA RunAppend ==
    ASSUME NEW f \in Nat, NEW t \in Nat, f <= t
    PROVE  Run(f, t + 1) = Append(Run(f, t), t + 1)
<1>1. Run(f, t) \in Seq(Nat) /\ Len(Run(f, t)) = t - f
  BY RunIsSequence
<1>2. Run(f, t + 1) \in Seq(Nat) /\ Len(Run(f, t + 1)) = t + 1 - f
  BY RunIsSequence
<1> QED BY <1>1, <1>2 DEF Run

\* Moving tail removes the oldest number.
LEMMA RunTail ==
    ASSUME NEW f \in Nat, NEW t \in Nat, f < t
    PROVE  /\ Run(f, t) # << >>
           /\ Head(Run(f, t)) = f + 1
           /\ Run(f + 1, t) = Tail(Run(f, t))
<1>1. Run(f, t) \in Seq(Nat) /\ Len(Run(f, t)) = t - f
  BY RunIsSequence
<1>2. Run(f + 1, t) \in Seq(Nat) /\ Len(Run(f + 1, t)) = t - (f + 1)
  BY RunIsSequence
<1>3. Run(f, t) # << >> /\ Head(Run(f, t)) = f + 1
  BY <1>1 DEF Run
<1>4. /\ Tail(Run(f, t)) \in Seq(Nat)
      /\ Len(Tail(Run(f, t))) = t - (f + 1)
      /\ \A k \in 1 .. t - (f + 1) : Tail(Run(f, t))[k] = Run(f, t)[k + 1]
  BY <1>1, <1>3, HeadTailProperties
<1>5. \A k \in 1 .. t - (f + 1) : Run(f, t)[k + 1] = Run(f + 1, t)[k]
  BY DEF Run
<1>6. Run(f + 1, t) = Tail(Run(f, t))
  BY <1>2, <1>4, <1>5, SeqEqual
<1> QED BY <1>3, <1>6

-----------------------------------------------------------------------------
(* The mapping under the invariant *)

\* The slots after tail, in ring order, are the queued ones.
LEMMA QueuedSlot ==
    ASSUME Inv, NEW k \in 1 .. rbuf_used_capacity
    PROVE  /\ entries[(tail + k) % Size] = popped + k
           /\ (tail + k) % Size \in Slots
<1> DEFINE j == rbuf_free_capacity + k
<1>1. /\ head \in Slots /\ tail \in Slots
      /\ rbuf_used_capacity \in Slots
      /\ rbuf_free_capacity = Size - 1 - rbuf_used_capacity
      /\ rbuf_used_capacity = IF head > tail THEN head - tail - 1 ELSE head - tail - 1 + Size
  BY UsedValue DEF Inv, TypeOK
<1>2. j \in rbuf_free_capacity + 1 .. Size - 1 /\ j \in 1 .. Size - 1 /\ j \in 0 .. Size /\ k \in 0 .. Size
  BY <1>1, SizeAssumption DEF Slots
<1>3. Off(j) = IF head + j < Size THEN head + j ELSE head + j - Size
  BY <1>1, <1>2, OffValue
<1>4. (tail + k) % Size = IF tail + k < Size THEN tail + k ELSE tail + k - Size
  BY <1>1, <1>2, OffArith
<1>5. (tail + k) % Size = Off(j)
  BY <1>1, <1>3, <1>4, SizeAssumption DEF Slots
<1>6. entries[Off(j)] = pushed + 1 + j - Size
  BY <1>2 DEF Inv, OrderInv, QueuedInv
<1>7. pushed + 1 + j - Size = popped + k
  BY <1>1, SizeAssumption DEF Inv, TypeOK, ConsumerInv, Slots
<1>8. Off(j) \in Slots
  BY <1>1, <1>2, OffValue
<1> QED BY <1>5, <1>6, <1>7, <1>8

\* What the mapping comes to.
QueueIsRun ==
    /\ Queue = IF cpc = "destroyed" THEN << >> ELSE Run(popped, pushed)
    /\ popped \in Nat /\ pushed \in Nat /\ popped <= pushed
    /\ rbuf_used_capacity = pushed - popped

\* The invariant makes the abstract queue a run.
LEMMA QueueValue == Inv => QueueIsRun
<1> SUFFICES ASSUME Inv PROVE QueueIsRun
  OBVIOUS
<1>1. rbuf_used_capacity \in Slots
  BY UsedValue DEF Inv, TypeOK
<1>2. /\ popped \in Nat /\ pushed \in Nat /\ popped <= pushed
      /\ rbuf_used_capacity = pushed - popped
  BY <1>1, SizeAssumption DEF Inv, TypeOK, ConsumerInv, Slots
<1>3. ASSUME cpc # "destroyed" PROVE Queue = Run(popped, pushed)
  BY <1>2, <1>3, QueuedSlot DEF Queue, Run
<1> QED BY <1>2, <1>3 DEF Queue, QueueIsRun

\* The same of the state after a step.
LEMMA QueueValueNext == Inv' => QueueIsRun'
BY QueueValue, PTL

-----------------------------------------------------------------------------
(* The steps *)

\* Equal pieces give an equal abstract state.
LEMMA MapUnchanged ==
    ASSUME Inv, Inv', UNCHANGED <<pushed, popped, held>>,
           cpc # "destroyed", cpc' # "destroyed", Retired' = Retired
    PROVE  UNCHANGED <<Queue, held, Retired, pushed>>
<1>1. QueueIsRun /\ QueueIsRun'
  BY QueueValue, QueueValueNext
<1> QED BY <1>1 DEF QueueIsRun, Run

\* Every step of either thread or of the teardown is a step of the contract
\* or leaves the abstract queue alone.
LEMMA StepSimulates ==
    ASSUME Inv, Inv', [Next]_vars
    PROVE  [Contract!Next]_(Contract!vars)
<1> DEFINE Stutter == UNCHANGED <<Queue, held, Retired, pushed>>
<1>a. Stutter => UNCHANGED Contract!vars
  BY DEF Contract!vars, Queue, Retired
<1>b. /\ cpc # "destroyed" => Queue = Run(popped, pushed)
      /\ popped \in Nat /\ pushed \in Nat /\ popped <= pushed
      /\ rbuf_used_capacity = pushed - popped
  BY QueueValue DEF QueueIsRun
<1>c. /\ cpc' # "destroyed" => Queue' = Run(popped', pushed')
      /\ cpc' = "destroyed" => Queue' = << >>
  BY QueueValueNext DEF QueueIsRun, Run
<1>d. ((ppc = "destroyed") = (cpc = "destroyed")) /\ ((ppc' = "destroyed") = (cpc' = "destroyed"))
  BY DEF Inv
<1>e. /\ rbuf_used_capacity \in Slots
      /\ rbuf_free_capacity = Size - 1 - rbuf_used_capacity
  BY UsedValue DEF Inv, TypeOK
<1>1. CASE \/ rbuf_set_free \/ CallFreeExpired \/ CallPush \/ ExpiredGate \/ ExpiredLoop
           \/ PushPost \/ CancelProducer
  <2>1. UNCHANGED <<pushed, popped, held, live, cpc>> /\ ppc # "destroyed"
    BY <1>1 DEF rbuf_set_free, CallFreeExpired, CallPush, ExpiredGate, ExpiredLoop, PushPost,
                CancelProducer, consumerVars
  <2>2. Stutter
    BY <2>1, <1>d, MapUnchanged DEF Retired
  <2> QED BY <2>2, <1>a
<1>2. CASE \/ \E lat, blk \in BOOLEAN : CallPeak(lat, blk)
           \/ WaitTake \/ WaitGiveBack \/ PopOldLoop \/ PopTake \/ PeakTest
  <2>1. UNCHANGED <<pushed, popped, held, live>> /\ cpc # "destroyed" /\ cpc' # "destroyed"
    BY <1>2 DEF CallPeak, WaitTake, WaitGiveBack, PopOldLoop, PopTake, PeakTest, producerVars
  <2>2. Stutter
    BY <2>1, MapUnchanged DEF Retired
  <2> QED BY <2>2, <1>a
<1>3. CASE ExpiredFree
  <2> DEFINE x == entries[ExpiredSlot]
  <2>1. /\ UNCHANGED <<pushed, popped, held, cpc>> /\ ppc = "free"
        /\ live' = live \ {x}
    BY <1>3 DEF ExpiredFree, consumerVars
  <2>2. Retired' = Retired \ {x}
    BY <2>1 DEF Retired
  <2>3. Queue' = Queue
    BY <2>1, <1>b, <1>c, <1>d
  <2>4. CASE x \in Retired
    BY <2>1, <2>2, <2>3, <2>4 DEF Contract!Next, Contract!Free, Queue, Retired
  <2>5. CASE x \notin Retired
    <3>1. Stutter
      BY <2>1, <2>2, <2>3, <2>5
    <3> QED BY <3>1, <1>a
  <2> QED BY <2>4, <2>5
<1>4. CASE PushStore
  <2>1. /\ UNCHANGED <<pushed, popped, held, cpc>> /\ ppc = "store"
        /\ live' = live \union {pushed + 1}
    BY <1>4 DEF PushStore, consumerVars
  <2>2. Retired' = Retired
    BY <2>1, <1>b DEF Retired
  <2>3. Stutter
    BY <2>1, <2>2, <1>d, MapUnchanged
  <2> QED BY <2>3, <1>a
<1>5. CASE PushAdvance
  <2>1. /\ UNCHANGED <<popped, held, cpc, live>> /\ ppc = "advance" /\ pushed' = pushed + 1
    BY <1>5 DEF PushAdvance, consumerVars
  <2>2. Queue = Run(popped, pushed) /\ Queue' = Append(Queue, pushed + 1)
    BY <2>1, <1>b, <1>c, <1>d, RunAppend
  <2>3. Len(Queue) < Size - 1
    <3>1. rbuf_free_capacity > 0
      BY <2>1 DEF Inv, ProducerInv
    <3>2. Len(Queue) = rbuf_used_capacity
      BY <2>2, <1>b, RunIsSequence
    <3> QED BY <3>1, <3>2, <1>e, SizeAssumption DEF Slots
  <2>4. Retired' = Retired
    BY <2>1 DEF Retired
  <2> QED BY <2>1, <2>2, <2>3, <2>4 DEF Contract!Next, Contract!Push, Queue, Retired
<1>6. CASE PopTail
  <2>1. /\ UNCHANGED <<pushed, held, live>> /\ popped' = popped + 1
        /\ cpc \in {"oldtail", "poptail"} /\ cpc' \in {"old", "idle"}
    BY <1>6 DEF PopTail, producerVars
  <2>2. rbuf_used_capacity > 0
    <3>1. SemInv /\ sem \in Nat
      BY DEF Inv, TypeOK
    <3> QED BY <2>1, <3>1, <1>e DEF SemInv, Slots
  <2>3. popped < pushed
    BY <2>2, <1>b
  <2>4. /\ Queue # << >>
        /\ Head(Queue) = popped + 1
        /\ Queue' = Tail(Queue)
    BY <2>1, <2>3, <1>b, <1>c, RunTail
  <2>5. popped + 1 \in live
    <3>1. /\ entries[(tail + 1) % Size] = popped + 1
          /\ (tail + 1) % Size \in Slots
      BY <2>2, <1>e, QueuedSlot DEF Slots
    <3>2. ppc # "destroyed" /\ popped + 1 # NULL
      BY <2>1, <1>b, <1>d DEF Inv, NULL
    <3>3. popped + 1 \in {entries[x] : x \in Slots} \ {NULL}
      BY <3>1, <3>2
    <3> QED BY <3>2, <3>3 DEF Inv, NoLeak
  <2>6. Retired' = Retired \union {popped + 1}
    <3>1. \A x \in live : x \in Nat
      BY DEF Inv, TypeOK
    <3>2. \A x \in live : x <= popped + 1 <=> x <= popped \/ x = popped + 1
      BY <3>1, <1>b
    <3> QED BY <2>1, <2>5, <3>2, Zenon DEF Retired
  <2>7. held = 0
    BY <2>1 DEF Inv, ConsumerInv, NULL
  <2> QED BY <2>1, <2>4, <2>6, <2>7 DEF Contract!Next, Contract!Pop, Queue, Retired
<1>7. CASE PeakRead
  <2>1. /\ UNCHANGED <<pushed, popped, live>> /\ cpc = "read" /\ cpc' = "use"
        /\ held' = entries[(tail + 1) % Size]
    BY <1>7 DEF PeakRead, producerVars, NextSlot
  <2>2. rbuf_used_capacity > 0
    BY <2>1 DEF Inv, ConsumerInv
  <2>3. held' = popped + 1
    BY <2>1, <2>2, <1>e, QueuedSlot DEF Slots
  <2>4. Queue # << >> /\ Head(Queue) = popped + 1 /\ Queue' = Queue
    BY <2>1, <2>2, <1>b, <1>c, RunTail
  <2>5. Retired' = Retired /\ held = 0
    BY <2>1 DEF Retired, Inv, ConsumerInv, NULL
  <2> QED BY <2>1, <2>3, <2>4, <2>5 DEF Contract!Next, Contract!Peek, Queue, Retired
<1>8. CASE DoneUsing \/ CancelConsumer
  <2>1. /\ UNCHANGED <<pushed, popped, live>> /\ held' = 0
        /\ cpc # "destroyed" /\ cpc' # "destroyed"
    BY <1>8 DEF DoneUsing, CancelConsumer, producerVars, NULL
  <2>2. Queue' = Queue /\ Retired' = Retired
    BY <2>1, <1>b, <1>c DEF Retired
  <2>3. CASE held = 0
    <3>1. Stutter
      BY <2>1, <2>2, <2>3
    <3> QED BY <3>1, <1>a
  <2>4. CASE held # 0
    BY <2>1, <2>2, <2>4 DEF Contract!Next, Contract!StopUsing, Queue, Retired
  <2> QED BY <2>3, <2>4
<1>9. CASE rbuf_destroy
  <2>1. UNCHANGED <<pushed, held>> /\ cpc = "dead" /\ cpc' = "destroyed" /\ ppc' = "destroyed"
    BY <1>9 DEF rbuf_destroy
  <2>2. live' = {}
    BY <2>1 DEF Inv, NoLeak
  <2>3. Queue' = << >> /\ Retired' = {} /\ held = 0
    BY <2>1, <2>2, <1>c DEF Retired, Inv, ConsumerInv, NULL
  <2> QED BY <2>1, <2>3 DEF Contract!Next, Contract!Destroy, Queue, Retired
<1>10. CASE UNCHANGED vars
  <2>1. Stutter
    BY <1>10 DEF vars, producerVars, consumerVars, Queue, Retired, rbuf_used_capacity
  <2> QED BY <2>1, <1>a
<1> QED BY <1>1, <1>2, <1>3, <1>4, <1>5, <1>6, <1>7, <1>8, <1>9, <1>10
        DEF Next, Producer, Consumer, Teardown

\* The ring starts as the empty queue.
LEMMA InitSimulates == Init => Contract!Init
BY SizeAssumption DEF Init, Contract!Init, NULL, rbuf_used_capacity

-----------------------------------------------------------------------------
(* The theorem *)

\* rbuf2.c implements the queue of RbufContract: for a ring of any size and
\* any interleaving of the two threads and the teardown, entries come out in
\* push order, no more than size - 1 are queued, and an entry is freed only
\* after it was popped, and once (rbuf2.h:4-19).
THEOREM RingImplementsContract == Spec => ImplementsContract
<1>1. Inv /\ Inv' /\ [Next]_vars => [Contract!Next]_(Contract!vars)
  BY StepSimulates
<1> QED BY <1>1, InitSimulates, RingInvariant, PTL DEF Spec, ImplementsContract, Contract!Spec
=============================================================================
