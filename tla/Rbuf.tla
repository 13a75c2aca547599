-------------------------------- MODULE Rbuf --------------------------------
(***************************************************************************)
(* The pointer ring of stratusd/Common/src/rbuf2.c: the single-producer,   *)
(* single-consumer queue between Capture and Encode, Encode and Transport, *)
(* AudioEncode and Transport, Transport and Input.                         *)
(*                                                                         *)
(* The two threads share head, tail, the entries and a semaphore without   *)
(* a lock.  An action here is at most one access to a word the other       *)
(* thread writes, so TLC interleaves the threads at the grain of the C     *)
(* code's loads and stores.  Stores become visible in program order.       *)
(*                                                                         *)
(* A pointer is the number of the successful push that stored it, and      *)
(* NULL is 0.                                                              *)
(***************************************************************************)
EXTENDS Integers, Sequences

CONSTANTS Size,     \* buf->size, one more than the usable capacity
          MaxPush   \* bound on the number of successful pushes

ASSUME SizeAssumption == Size \in Nat /\ Size >= 2
ASSUME MaxPushAssumption == MaxPush \in Nat

VARIABLES
    head,      \* index of the next entry to be pushed
    tail,      \* index of the last entry popped
    entries,   \* the slots
    sem,       \* the semaphore the consumer sleeps on
    hasFree,   \* rbuf_set_free has been called
    ppc,       \* where the producer is
    pushing,   \* rbuf_free_expired was called by rbuf_push
    i,         \* loop index of rbuf_free_expired
    cpc,       \* where the consumer is
    latest,    \* the consumer's call is one of the _latest variants
    blocking,  \* the consumer's call is one of the wait_ variants
    held,      \* the pointer the consumer got and may dereference
    live,      \* pointers handed to the queue and not yet freed
    pushed,    \* number of successful pushes
    popped     \* number of pops

producerVars == <<head, hasFree, ppc, pushing, i, pushed>>
consumerVars == <<tail, cpc, latest, blocking, held, popped>>
vars == <<producerVars, consumerVars, entries, sem, live>>

NULL == 0
Slots == 0 .. Size - 1

rbuf_used_capacity == (head - tail - 1 + Size) % Size
rbuf_free_capacity == Size - rbuf_used_capacity - 1

\* The slot that iteration i of rbuf_free_expired looks at.
ExpiredSlot == (head + i) % Size

\* The oldest entry that has not been popped.
NextSlot == (tail + 1) % Size

-----------------------------------------------------------------------------
(* rbuf_init *)

Init ==
    /\ head = 0
    /\ tail = Size - 1
    /\ entries = [s \in Slots |-> NULL]
    /\ sem = 0
    /\ hasFree = FALSE
    /\ ppc = "start"
    /\ pushing = FALSE
    /\ i = 0
    /\ cpc = "idle"
    /\ latest = FALSE
    /\ blocking = FALSE
    /\ held = NULL
    /\ live = {}
    /\ pushed = 0
    /\ popped = 0

-----------------------------------------------------------------------------
(* The producer *)

rbuf_set_free ==
    /\ ppc = "start"
    /\ hasFree' = TRUE
    /\ ppc' = "idle"
    /\ UNCHANGED <<head, pushing, i, pushed, consumerVars, entries, sem, live>>

\* rbuf_free_expired called on its own, as Capture does on every message.
CallFreeExpired ==
    /\ ppc = "idle"
    /\ pushing' = FALSE
    /\ ppc' = "gate"
    /\ UNCHANGED <<head, hasFree, i, pushed, consumerVars, entries, sem, live>>

\* Mutant: rbuf_push without its test for a full ring.
CallPushUnchecked ==
    /\ ppc = "idle"
    /\ pushed < MaxPush
    /\ pushing' = TRUE
    /\ ppc' = "gate"
    /\ UNCHANGED <<head, hasFree, i, pushed, consumerVars, entries, sem, live>>

\* rbuf_push up to its call of rbuf_free_expired; a full ring is an error.
CallPush ==
    /\ ppc = "idle"
    /\ pushed < MaxPush
    /\ \/ /\ rbuf_free_capacity = 0
          /\ UNCHANGED <<ppc, pushing>>
       \/ /\ rbuf_free_capacity # 0
          /\ pushing' = TRUE
          /\ ppc' = "gate"
    /\ UNCHANGED <<head, hasFree, i, pushed, consumerVars, entries, sem, live>>

AfterFreeExpired == IF pushing THEN "store" ELSE "idle"

\* The test that decides whether any entry has expired.
ExpiredGate ==
    /\ ppc = "gate"
    /\ i' = 1
    /\ ppc' = IF entries[tail] # NULL THEN "loop" ELSE AfterFreeExpired
    /\ UNCHANGED <<head, hasFree, pushing, pushed, consumerVars, entries, sem, live>>

\* The loop condition, which reads the consumer's tail again every time.
ExpiredLoop ==
    /\ ppc = "loop"
    /\ ppc' = IF i < Size - rbuf_used_capacity THEN "free" ELSE AfterFreeExpired
    /\ UNCHANGED <<head, hasFree, pushing, i, pushed, consumerVars, entries, sem, live>>

\* One iteration: buf->free on a non-NULL slot, then the slot is cleared.
ExpiredFree ==
    /\ ppc = "free"
    /\ live' = live \ {entries[ExpiredSlot]}
    /\ entries' = [entries EXCEPT ![ExpiredSlot] = NULL]
    /\ i' = i + 1
    /\ ppc' = "loop"
    /\ UNCHANGED <<head, hasFree, pushing, pushed, consumerVars, sem>>

\* The three stores that publish an entry, in the order of the source.
PushStore ==
    /\ ppc = "store"
    /\ entries' = [entries EXCEPT ![head] = pushed + 1]
    /\ live' = live \union {pushed + 1}
    /\ ppc' = "advance"
    /\ UNCHANGED <<head, hasFree, pushing, i, pushed, consumerVars, sem>>

PushAdvance ==
    /\ ppc = "advance"
    /\ head' = (head + 1) % Size
    /\ pushed' = pushed + 1
    /\ ppc' = "post"
    /\ UNCHANGED <<hasFree, pushing, i, consumerVars, entries, sem, live>>

\* Mutant: the consumer is not signalled.
PushPostForgotten ==
    /\ ppc = "post"
    /\ ppc' = "idle"
    /\ UNCHANGED <<head, hasFree, pushing, i, pushed, consumerVars, entries, sem, live>>

PushPost ==
    /\ ppc = "post"
    /\ sem' = sem + 1
    /\ ppc' = "idle"
    /\ UNCHANGED <<head, hasFree, pushing, i, pushed, consumerVars, entries, live>>

-----------------------------------------------------------------------------
(* The consumer *)

\* Entry of rbuf_try_peak, rbuf_wait_peak, rbuf_try_peak_latest and
\* rbuf_wait_peak_latest.
CallPeak(lat, blk) ==
    /\ cpc = "idle"
    /\ latest' = lat
    /\ blocking' = blk
    /\ cpc' = IF blk THEN "wait" ELSE IF lat THEN "old" ELSE "peak"
    /\ UNCHANGED <<producerVars, tail, held, popped, entries, sem, live>>

\* _rbuf_wait: take the semaphore, and give it back.
WaitTake ==
    /\ cpc = "wait"
    /\ sem > 0
    /\ sem' = sem - 1
    /\ cpc' = "unwait"
    /\ UNCHANGED <<producerVars, tail, latest, blocking, held, popped, entries, live>>

WaitGiveBack ==
    /\ cpc = "unwait"
    /\ sem' = sem + 1
    /\ cpc' = IF latest THEN "old" ELSE "peak"
    /\ UNCHANGED <<producerVars, tail, latest, blocking, held, popped, entries, live>>

\* The loop condition of _rbuf_pop_old.
PopOldLoop ==
    /\ cpc = "old"
    /\ cpc' = IF rbuf_used_capacity > 1 THEN "oldpop" ELSE "peak"
    /\ UNCHANGED <<producerVars, tail, latest, blocking, held, popped, entries, sem, live>>

\* rbuf_pop: wait on the semaphore, then move tail.  "oldpop" is the call in
\* _rbuf_pop_old, "pop" the one the consumer makes when it is done.
PopTake ==
    /\ cpc \in {"oldpop", "pop"}
    /\ sem > 0
    /\ sem' = sem - 1
    /\ cpc' = IF cpc = "oldpop" THEN "oldtail" ELSE "poptail"
    /\ UNCHANGED <<producerVars, tail, latest, blocking, held, popped, entries, live>>

PopTail ==
    /\ cpc \in {"oldtail", "poptail"}
    /\ tail' = (tail + 1) % Size
    /\ popped' = popped + 1
    /\ cpc' = IF cpc = "oldtail" THEN "old" ELSE "idle"
    /\ UNCHANGED <<producerVars, latest, blocking, held, entries, sem, live>>

\* _rbuf_peak: NULL when the ring is empty, else the next entry.
PeakTest ==
    /\ cpc = "peak"
    /\ cpc' = IF rbuf_used_capacity = 0 THEN "idle" ELSE "read"
    /\ UNCHANGED <<producerVars, tail, latest, blocking, held, popped, entries, sem, live>>

PeakRead ==
    /\ cpc = "read"
    /\ held' = entries[NextSlot]
    /\ cpc' = "use"
    /\ UNCHANGED <<producerVars, tail, latest, blocking, popped, entries, sem, live>>

\* Mutant: the consumer pops the entry and goes on using it.
DoneUsingKeepsPointer ==
    /\ cpc = "use"
    /\ cpc' = "pop"
    /\ UNCHANGED <<producerVars, tail, latest, blocking, held, popped, entries, sem, live>>

\* The consumer stops using the entry: it pops it, or (Transport, when a
\* submit fails) leaves it for a later peek.
DoneUsing ==
    /\ cpc = "use"
    /\ held' = NULL
    /\ cpc' \in {"pop", "idle"}
    /\ UNCHANGED <<producerVars, tail, latest, blocking, popped, entries, sem, live>>

-----------------------------------------------------------------------------
(* Teardown: session_teardown cancels and joins both threads, then calls   *)
(* rbuf_destroy.  A thread dies only at a cancellation point: in its own   *)
(* code outside the ring's functions, or asleep in sem_wait.               *)

CancelProducer ==
    /\ ppc \in {"start", "idle"}
    /\ ppc' = "dead"
    /\ UNCHANGED <<head, hasFree, pushing, i, pushed, consumerVars, entries, sem, live>>

CancelConsumer ==
    /\ cpc \in {"idle", "use", "wait", "oldpop", "pop"}
    /\ cpc' = "dead"
    /\ held' = NULL
    /\ UNCHANGED <<producerVars, tail, latest, blocking, popped, entries, sem, live>>

rbuf_destroy ==
    /\ ppc = "dead" /\ cpc = "dead"
    /\ live' = IF hasFree THEN live \ {entries[s] : s \in Slots} ELSE live
    /\ ppc' = "destroyed" /\ cpc' = "destroyed"
    /\ UNCHANGED <<head, hasFree, pushing, i, pushed, tail, latest, blocking,
                   held, popped, entries, sem>>

-----------------------------------------------------------------------------
Producer ==
    \/ rbuf_set_free \/ CallFreeExpired \/ CallPush
    \/ ExpiredGate \/ ExpiredLoop \/ ExpiredFree
    \/ PushStore \/ PushAdvance \/ PushPost

Consumer ==
    \/ \E lat, blk \in BOOLEAN : CallPeak(lat, blk)
    \/ WaitTake \/ WaitGiveBack \/ PopOldLoop \/ PopTake \/ PopTail
    \/ PeakTest \/ PeakRead \/ DoneUsing

Teardown == CancelProducer \/ CancelConsumer \/ rbuf_destroy

Next == Producer \/ Consumer \/ Teardown

Spec == Init /\ [][Next]_vars

-----------------------------------------------------------------------------
(* Properties *)

\* Every variable keeps its type; in particular head and tail stay inside
\* the entries array (rbuf2.c:37-39).
TypeOK ==
    /\ head \in Slots /\ tail \in Slots
    /\ entries \in [Slots -> Nat]
    /\ sem \in Nat
    /\ hasFree \in BOOLEAN /\ pushing \in BOOLEAN
    /\ latest \in BOOLEAN /\ blocking \in BOOLEAN
    /\ ppc \in {"start", "idle", "gate", "loop", "free", "store", "advance",
                "post", "dead", "destroyed"}
    /\ cpc \in {"idle", "wait", "unwait", "old", "oldpop", "oldtail", "peak",
                "read", "use", "pop", "poptail", "dead", "destroyed"}
    /\ i \in 0 .. Size
    /\ held \in Nat /\ pushed \in Nat /\ popped \in Nat
    /\ live \subseteq Nat

\* While the consumer may dereference a pointer it peeked at, the producer has
\* not freed it, and it is the next one in push order.  rbuf_free_expired
\* (rbuf2.c:104) runs in the producer's thread at any moment of the
\* consumer's peek, use and pop.
HeldIsLive == held # NULL => held \in live /\ held = popped + 1

\* The ring loses no pointer: one that was pushed and not yet freed is still
\* in a slot, so a later rbuf_free_expired or rbuf_destroy reaches it, and
\* after rbuf_destroy none is left.  It fails when rbuf_push (rbuf2.c:139)
\* overwrites a slot that was never freed.
NoLeak ==
    live = IF ppc = "destroyed" THEN {}
           ELSE {entries[s] : s \in Slots} \ {NULL}

\* The assertions of the consumer's functions hold: rbuf_pop finds the ring
\* non-empty (rbuf2.c:229), an entry counted as used is never NULL
\* (rbuf2.c:172), and a blocking peek always returns an entry (rbuf2.c:194,
\* rbuf2.c:217).
PeakFindsEntry ==
    /\ cpc = "read" => entries[NextSlot] # NULL
    /\ (cpc = "peak" /\ blocking) => rbuf_used_capacity > 0
    /\ cpc \in {"oldtail", "poptail"} => rbuf_used_capacity > 0

-----------------------------------------------------------------------------
(* The inductive invariant.  Positions are offsets from head: offset 0 is  *)
(* the slot the next push writes, offsets 1 .. free are popped entries     *)
(* (some already freed), the rest are queued, oldest first.                *)

Off(j) == (head + j) % Size

\* An entry's offset determines which push stored it.
OrderInv ==
    \A j \in 1 .. Size - 1 :
        entries[Off(j)] \in {NULL, pushed + 1 + j - Size}

\* Queued entries are present.
QueuedInv ==
    \A j \in rbuf_free_capacity + 1 .. Size - 1 : entries[Off(j)] # NULL

\* Among the popped slots the freed ones come first, which is what makes the
\* test of entries[tail] in rbuf_free_expired sufficient.
ExpiredInv ==
    \A j, k \in 1 .. rbuf_free_capacity :
        (j < k /\ entries[Off(j)] # NULL) => entries[Off(k)] # NULL

\* Where the producer is in rbuf_push and rbuf_free_expired.
ProducerInv ==
    /\ entries[head] = IF ppc = "advance" THEN pushed + 1 ELSE NULL
    /\ ppc \in {"loop", "free"} =>
          /\ i >= 1
          /\ \A j \in 1 .. i - 1 : entries[Off(j)] = NULL
    /\ ppc = "free" => i <= rbuf_free_capacity
    /\ ppc \in {"gate", "loop", "free"} /\ pushing => rbuf_free_capacity > 0
    /\ ppc \in {"store", "advance"} =>
          rbuf_free_capacity > 0 /\ entries[Off(1)] = NULL
    /\ ppc \in {"store", "advance"} => pushing
    /\ ppc \notin {"start", "dead", "destroyed"} => hasFree
    /\ ~hasFree => pushed = 0

\* The semaphore counts the queued entries, up to the units the two threads
\* have in hand.
SemInv ==
    rbuf_used_capacity = sem + (IF ppc = "post" THEN 1 ELSE 0)
        + (IF cpc \in {"unwait", "oldtail", "poptail"} THEN 1 ELSE 0)

\* Where the consumer is in its peek or pop.
ConsumerInv ==
    /\ popped + rbuf_used_capacity = pushed
    /\ cpc = "oldpop" => rbuf_used_capacity > 1
    /\ cpc = "oldtail" => rbuf_used_capacity > 1
    /\ cpc \in {"read", "use", "pop"} => rbuf_used_capacity > 0
    /\ (cpc \in {"old", "peak"} /\ blocking) => rbuf_used_capacity > 0
    /\ (cpc = "use") = (held # NULL)
    /\ held \in {NULL, popped + 1}

\* Together with the typing and NoLeak, this is preserved by every step of
\* rbuf2.c.
Inv ==
    /\ TypeOK
    /\ NoLeak
    /\ ((ppc = "destroyed") = (cpc = "destroyed"))
    /\ OrderInv /\ QueuedInv /\ ExpiredInv /\ ProducerInv /\ SemInv /\ ConsumerInv

-----------------------------------------------------------------------------
(* The contract of the ring, and what is owed to a sleeping consumer. *)

Contract == INSTANCE RbufContract WITH
    Capacity <- Size - 1,
    queue <- IF cpc = "destroyed" THEN << >>
             ELSE [k \in 1 .. rbuf_used_capacity |-> entries[(tail + k) % Size]],
    retired <- {x \in live : x <= popped}

\* The ring behaves as the bounded queue of RbufContract: entries come out in
\* push order, none beyond the capacity is accepted, only popped entries are
\* freed and each of them once (rbuf2.h:4-19).
ImplementsContract == Contract!Spec

\* A producer that has moved head goes on to sem_post, and a consumer whose
\* sem_wait can proceed does proceed: neither thread can stop between
\* cancellation points.
FairSpec == Spec /\ WF_vars(PushPost) /\ WF_vars(WaitTake)

\* A consumer asleep in a blocking peek does not sleep on while the ring holds
\* an entry (rbuf2.c:141, rbuf2.c:150).
WakesUp == (cpc = "wait" /\ pushed > popped) ~> (cpc # "wait")

=============================================================================
