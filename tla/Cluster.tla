------------------------------- MODULE Cluster -------------------------------
(***************************************************************************)
(* The coordination server and the SideCars of the streaming nodes,        *)
(* interacting over connections that may break.                            *)
(***************************************************************************)
EXTENDS Backend, SideCar

CONSTANT Scenarios   \* bounds of a behaviour: the nodes that run, the play
                     \* requests, a node's undelivered messages

VARIABLE scenario

vars == <<linkVars, backendVars, sideCarVars, scenario>>

Init == LinkInit /\ BackendInit /\ SideCarInit /\ scenario \in Scenarios

InBounds ==
    /\ requests' <= scenario.starts
    /\ \A n \in Nodes \ scenario.nodes : ~running'[n]
    /\ \A c \in Conns : Len(up'[c]) <= scenario.inFlight
    /\ UNCHANGED scenario

Network == (\E c \in Conns : Break(c)) /\ UNCHANGED <<backendVars, sideCarVars>>

Next ==
    /\ \/ Network
       \/ BackendNext /\ UNCHANGED sideCarVars
       \/ SideCarNext /\ UNCHANGED backendVars
    /\ InBounds

Spec == Init /\ [][Next]_vars

-----------------------------------------------------------------------------
(* Properties *)

UpMessages ==
    [type : {"heartbeat"}, sessions : SUBSET SessionIds] \union
    [type : {"start_confirmed", "stop_session", "session_error"}, session : SessionIds]

\* Every variable keeps its type, and a node's connection is its own.
TypeOK ==
    /\ \A c \in Conns : /\ owner[c] \in Nodes \union {Nobody}
                        /\ link[c] \in {"unused", "up", "down", "closed"}
                        /\ link[c] # "unused" => owner[c] \in Nodes
                        /\ up[c] \in Seq(UpMessages)
                        /\ down[c] \in Seq(SessionIds)
    /\ \A c \in Registered : nodes[c].name = Host[owner[c]]
    /\ {order[k] : k \in DOMAIN order} = Registered
    /\ \A j, k \in DOMAIN order : order[j] = order[k] => j = k
    /\ \A c \in Conns : nodes[c].sessions \subseteq SessionIds
    /\ requests \in 0 .. MaxStarts /\ pending \subseteq 1 .. requests
    /\ \A s \in SessionIds : answer[s] \in {"none", "created", "created without ip",
                                            "unavailable", "lost"}
    /\ \A n \in Nodes : /\ running[n] = (conn[n] # NoConn)
                        /\ running[n] => owner[conn[n]] = n
                        /\ active[n] \in SessionIds \union {NoSession}
                        /\ orphaned[n] \subseteq SessionIds

\* A session the server lists (GET of the sessions) is one that a registered
\* node is reserved for, so no node that is gone has records left, and no node
\* has two (node.ts:57, node.ts:84, send.ts:62).
RecordsAreReserved ==
    \A s \in SessionIds : sessions[s] # NoHost =>
        \E c \in Registered : nodes[c].name = sessions[s] /\ nodes[c].sessions = {s}

\* One machine never has two entries, whatever the order in which its old and
\* new connections are heard of and closed (deleteDuplicateNodes, node.ts:106).
OneEntryPerNode ==
    \A c, d \in Registered : Identity(c) = Identity(d) => c = d

\* A request that was answered 503 leaves no session record behind, even when
\* the node's confirmation comes after the timeout (send.ts:73-81, send.ts:93).
NoRecordAfterTimeout ==
    \A s \in SessionIds : answer[s] \in {"unavailable", "lost"} =>
        sessions[s] = NoHost /\ s \notin pending

\* A play request gets one answer: a confirmation after the timeout, or a timer
\* that fires after the confirmation, changes nothing (send.ts:75, send.ts:102).
AnsweredOnce ==
    [][\A s \in SessionIds : answer[s] # "none" => answer'[s] = answer[s]]_vars

\* A session's record disappears through its own request, or because of what
\* happened on a connection of the machine it is recorded for: no other node's
\* heartbeat or disconnection removes it (sessions.ts:31, sessions.ts:40;
\* socket.test.ts:352).
LostOnlyByOwner ==
    [][\A s \in SessionIds : sessions[s] # NoHost /\ sessions'[s] = NoHost =>
          \/ answer'[s] # answer[s]
          \/ \E c \in Conns : /\ link[c] # "unused"
                              /\ Host[owner[c]] = sessions[s]
                              /\ up'[c] # up[c] \/ nodes'[c] # nodes[c]]_vars

\* When the steps that fairness is about can change something.
HeartbeatCan(n) ==
    CanSend(n, 1) /\ link[conn[n]] = "up" /\ Len(up[conn[n]]) < scenario.inFlight
ReceiveCan(c) == up[c] # << >>

\* Weak fairness, with the enabling conditions written out: the heartbeat timer
\* keeps firing while the main loop runs, and the server handles what it has
\* received.
FairSpec ==
    /\ Spec
    /\ \A n \in Nodes :
          []<>~HeartbeatCan(n)
          \/ []<><<sidecar_heartbeat(n) /\ UNCHANGED <<backendVars, scenario>>>>_vars
    /\ \A c \in Conns :
          []<>~ReceiveCan(c)
          \/ []<><<BackendReceive(c) /\ UNCHANGED <<sideCarVars, scenario>>>>_vars

\* The session is not running on any node and no command to start it is under
\* way.
Over(s) ==
    /\ \A n \in Nodes : active[n] # s /\ s \notin orphaned[n]
    /\ \A c \in Conns : \A k \in DOMAIN down[c] : down[c][k] # s

\* A node whose reservation is for a session that is over, because it ended,
\* never started or was given up by the server, becomes available again as long
\* as it stays connected (docs/architecture.md:90: "the coordination server marks
\* the node as available again").
NodeAvailableAgain ==
    \A c \in Conns, s \in SessionIds :
        (link[c] = "up" /\ s \in nodes[c].sessions /\ Over(s))
            ~> (link[c] # "up" \/ s \notin nodes[c].sessions)

-----------------------------------------------------------------------------
(* Statements of the repository that its code does not keep. *)

\* SideCar.c:190 asserts that no session is active when a start command
\* arrives, and stratusd/README.md:17-18 says that an instance supports a
\* single concurrent session.
SingleSession == \A n \in Nodes : orphaned[n] = {}
=============================================================================
