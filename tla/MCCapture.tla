----------------------------- MODULE MCCapture -----------------------------
(***************************************************************************)
(* Capture for TLC: one or two clients, up to two connections over a run,  *)
(* and a queue of one or two frames.                                       *)
(***************************************************************************)
EXTENDS Capture

Uses(ids) ==
    [k \in {"surface", "pool", "shm", "params", "dma", "feedback", "global"} |->
        IF k \in DOMAIN ids THEN ids[k] ELSE {}]

Profile(ids, misfit, kept, clients, conns, capacity) ==
    [misfit |-> misfit, kept |-> kept, clients |-> clients, conns |-> conns,
     capacity |-> capacity] @@ Uses(ids)

\* One buffer after the other at the same id, of which two are kept at once,
\* on one connection after the other.
Shm == Profile([surface |-> {2}, pool |-> {3}, shm |-> {4}], {}, 2, {1}, 2, 2)

\* Two buffers in one pool, more than the queue has places.
Pair == Profile([surface |-> {2}, pool |-> {3}, shm |-> {4, 5}], {}, 1, {1}, 1, 1)

\* dma buffers, the second one for the cursor.
Dma == Profile([surface |-> {2}, params |-> {3}, dma |-> {4, 5}], {5}, 1, {1}, 1, 2)

\* Ids that are reused for objects of other kinds.
Reuse == Profile([surface |-> {2}, pool |-> {3}, params |-> {3}, shm |-> {4},
                  dma |-> {4}, global |-> {3}, feedback |-> {4}], {}, 1, {1}, 1, 2)

\* Two clients at once.
Two == Profile([surface |-> {2}, pool |-> {3}, shm |-> {4}], {}, 1, {1, 2}, 2, 1)

MCProfiles == <<Shm, Pair, Dma, Reuse, Two>>
=============================================================================
