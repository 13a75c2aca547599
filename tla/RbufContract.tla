---------------------------- MODULE RbufContract ----------------------------
(***************************************************************************)
(* What rbuf2.h promises its two threads: a bounded first-in first-out     *)
(* queue of pointers whose entries change hands.  The producer gives an    *)
(* entry up when it pushes it, the consumer when it pops it, and only then *)
(* may the queue free it, once.                                            *)
(***************************************************************************)
EXTENDS Integers, Sequences

CONSTANT Capacity

VARIABLES queue,    \* pushed and not yet popped
          held,     \* the entry the consumer may dereference, or 0
          retired,  \* popped and not yet freed
          pushed    \* number of entries ever accepted

vars == <<queue, held, retired, pushed>>

Init == queue = << >> /\ held = 0 /\ retired = {} /\ pushed = 0

Push ==
    /\ Len(queue) < Capacity
    /\ queue' = Append(queue, pushed + 1)
    /\ pushed' = pushed + 1
    /\ UNCHANGED <<held, retired>>

Peek ==
    /\ queue # << >>
    /\ held = 0
    /\ held' = Head(queue)
    /\ UNCHANGED <<queue, retired, pushed>>

StopUsing == held # 0 /\ held' = 0 /\ UNCHANGED <<queue, retired, pushed>>

Pop ==
    /\ queue # << >>
    /\ held = 0
    /\ queue' = Tail(queue)
    /\ retired' = retired \union {Head(queue)}
    /\ UNCHANGED <<held, pushed>>

Free ==
    /\ \E x \in retired : retired' = retired \ {x}
    /\ UNCHANGED <<queue, held, pushed>>

\* Both threads are gone; whatever is left is freed.
Destroy ==
    /\ held = 0
    /\ queue' = << >>
    /\ retired' = {}
    /\ UNCHANGED <<held, pushed>>

Next == Push \/ Peek \/ StopUsing \/ Pop \/ Free \/ Destroy

Spec == Init /\ [][Next]_vars
=============================================================================
