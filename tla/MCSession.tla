----------------------------- MODULE MCSession -----------------------------
(* Sessions with up to two clients and three frames, each with one fault.  *)
EXTENDS Session

MCClients == {1, 2}

Profile(fault, kind, clients, frames, ends) ==
    [fault |-> fault, kind |-> kind, clients |-> clients, credit |-> TRUE,
     frames |-> frames, ends |-> ends]

\* A client that watches and stays; one that leaves, and one that is refused;
\* one that allows no streams.
Watched == {Profile("none", "shm", {1}, 3, {}),
            Profile("none", "dma", {1}, 2, {"client"}),
            Profile("none", "shm", {1, 2}, 1, {"client"}),
            [Profile("none", "shm", {1}, 2, {"client"}) EXCEPT !.credit = FALSE]}

\* Nobody comes, or too late; the daemon loses its server.
Waiting == {Profile("none", "shm", {1}, 1, {"late"}),
            Profile("none", "shm", {}, 0, {"game", "sidecar"})}

\* A step of the start, or one of the modules, fails.
Failing == {Profile("start", "shm", {}, 0, {}), Profile("encode", "dma", {1}, 2, {}),
            Profile("encode", "shm", {1}, 1, {"client"}),
            Profile("capture", "shm", {1}, 1, {}), Profile("capture_pw", "shm", {}, 0, {"game"}),
            Profile("audio_encode", "shm", {}, 0, {}), Profile("input", "shm", {1}, 1, {"client"})}

MCProfiles == Watched \union Waiting \union Failing
=============================================================================
