-------------------------------- MODULE Link --------------------------------
(***************************************************************************)
(* The WebSocket connections between the streaming nodes (libcurl) and the *)
(* coordination server (ws).  A connection delivers messages in order in   *)
(* each direction until it breaks; what was in flight is then cut off at   *)
(* some point, separately in each direction, and the two ends find out     *)
(* separately.                                                             *)
(***************************************************************************)
EXTENDS Integers, Sequences, FiniteSets

CONSTANTS Nodes,     \* streaming nodes
          Conns      \* connections that may ever be opened, numbered from 1

ASSUME ConnsAssumption == Conns \subseteq Nat \ {0}

VARIABLES owner,  \* the node that opened a connection
          link,   \* "unused", "up", "down" (broken or closed by the node),
                  \* or "closed" (the coordination server has noticed)
          up,     \* messages on their way to the coordination server
          down    \* messages on their way to the node

linkVars == <<owner, link, up, down>>

NoConn == 0
Nobody == "nobody"

LinkInit ==
    /\ owner = [c \in Conns |-> Nobody]
    /\ link = [c \in Conns |-> "unused"]
    /\ up = [c \in Conns |-> << >>]
    /\ down = [c \in Conns |-> << >>]

\* The next connection to be opened.
Fresh(c) == link[c] = "unused" /\ \A d \in Conns : d < c => link[d] # "unused"

Prefixes(q) == {SubSeq(q, 1, k) : k \in 0 .. Len(q)}

\* The network drops a connection.
Break(c) ==
    /\ link[c] = "up"
    /\ link' = [link EXCEPT ![c] = "down"]
    /\ \E u \in Prefixes(up[c]) : up' = [up EXCEPT ![c] = u]
    /\ \E d \in Prefixes(down[c]) : down' = [down EXCEPT ![c] = d]
    /\ UNCHANGED owner
=============================================================================
