------------------------------- MODULE Backend -------------------------------
(***************************************************************************)
(* The coordination server: the registry of streaming nodes                *)
(* (backend/socket/node.ts), the session records (sessions.ts), the starts *)
(* that wait for a node's confirmation (send.ts) and the handlers of the   *)
(* nodes' messages (messages.ts, server.ts).  JavaScript runs each handler *)
(* to its end, so a handler is one action.                                 *)
(*                                                                         *)
(* A session identifier is the number of the request that made it.  Time   *)
(* is abstracted to what the code asks of it: whether a node's last        *)
(* heartbeat is more than two minutes old, whether the hourly cleaning is  *)
(* due, whether a start's ten seconds are over.                            *)
(***************************************************************************)
EXTENDS Link

CONSTANTS Games,      \* game identifiers
          Host,       \* hostname of each node
          Ip,         \* advertised address of each node
          Installed,  \* games each node has
          MaxStarts   \* bound on the number of play requests

VARIABLES nodes,      \* nodes: a connection's registered node, or NoNode
          order,      \* the keys of that map, in insertion order
          sessions,   \* sessions: the host a session is recorded for, or NoHost
          pending,    \* pendingStarts and pendingStartSessions
          answer,     \* what each play request was answered
          requests    \* number of play requests so far

backendVars == <<nodes, order, sessions, pending, answer, requests>>

SessionIds == 1 .. MaxStarts
NoHost == "no host"
ASSUME BackendAssumption == MaxStarts \in Nat /\ \A n \in Nodes : Host[n] # NoHost

NoNode == [name |-> NoHost, stale |-> FALSE, sessions |-> {}]

Identity(c) == <<Host[owner[c]], Ip[owner[c]]>>
Registered == {c \in Conns : nodes[c] # NoNode}
Stale == {c \in Registered : nodes[c].stale}

BackendInit ==
    /\ nodes = [c \in Conns |-> NoNode]
    /\ order = << >>
    /\ sessions = [s \in SessionIds |-> NoHost]
    /\ pending = {}
    /\ answer = [s \in SessionIds |-> "none"]
    /\ requests = 0

-----------------------------------------------------------------------------
(* sessions.ts: the session records after ... *)

createSession(records, s, host) == [records EXCEPT ![s] = host]

deleteSession(records, s) == [records EXCEPT ![s] = NoHost]

deleteNodeSessions(records, hosts) ==
    [s \in SessionIds |-> IF records[s] \in hosts THEN NoHost ELSE records[s]]

\* Mutants: nothing is pruned; every host's records are pruned.
pruneNothing(records, host, listed) == records

pruneEveryHost(records, host, listed) ==
    [s \in SessionIds |-> IF s \notin listed THEN NoHost ELSE records[s]]

pruneNodeSessions(records, host, listed) ==
    [s \in SessionIds |-> IF records[s] = host /\ s \notin listed THEN NoHost ELSE records[s]]

-----------------------------------------------------------------------------
(* node.ts: the registry after deleteNode of every connection in gone. *)

NodesWithout(gone) == [c \in Conns |-> IF c \in gone THEN NoNode ELSE nodes[c]]
OrderWithout(gone) ==
    LET upto[k \in 0 .. Len(order)] ==
          IF k = 0 THEN << >>
          ELSE IF order[k] \in gone THEN upto[k - 1]
          ELSE Append(upto[k - 1], order[k])
    IN  upto[Len(order)]
SessionsWithout(gone) == deleteNodeSessions(sessions, {nodes[c].name : c \in gone})

deleteNode(c) ==
    LET gone == {c} \intersect Registered
    IN  /\ nodes' = NodesWithout(gone)
        /\ order' = OrderWithout(gone)
        /\ sessions' = SessionsWithout(gone)

deleteDuplicateNodes(c, present) == {d \in present \ {c} : Identity(d) = Identity(c)}

\* Mutants: a heartbeat that lists no session leaves the ones listed before in
\* place; a heartbeat always inserts its connection.
updateHeartbeatKeeping(c, listed) ==
    \E cleared \in {{}, Stale} :
        LET gone == cleared \union deleteDuplicateNodes(c, Registered \ cleared)
            host == Host[owner[c]]
            all == IF listed = {} THEN NodesWithout(gone)[c].sessions ELSE listed
        IN  /\ nodes' = [NodesWithout(gone) EXCEPT ![c] =
                            [name |-> host, stale |-> FALSE, sessions |-> all]]
            /\ order' = IF c \in Registered \ gone THEN OrderWithout(gone)
                        ELSE Append(OrderWithout(gone), c)
            /\ sessions' = pruneNodeSessions(SessionsWithout(gone), host, all)

updateHeartbeatInserting(c, listed) ==
    \E cleared \in {{}, Stale} :
        LET gone == cleared \union deleteDuplicateNodes(c, Registered \ cleared)
            host == Host[owner[c]]
        IN  /\ nodes' = [NodesWithout(gone) EXCEPT ![c] =
                            [name |-> host, stale |-> FALSE, sessions |-> listed]]
            /\ order' = Append(OrderWithout(gone), c)
            /\ sessions' = pruneNodeSessions(SessionsWithout(gone), host, listed)

\* A heartbeat on connection c that lists the node's sessions.  "cleared" is
\* clearUnresponsive, when an hour has passed since it last ran.
updateHeartbeat(c, listed) ==
    \E cleared \in {{}, Stale} :
        LET gone == cleared \union deleteDuplicateNodes(c, Registered \ cleared)
            host == Host[owner[c]]
        IN  /\ nodes' = [NodesWithout(gone) EXCEPT ![c] =
                            [name |-> host, stale |-> FALSE, sessions |-> listed]]
            /\ order' = IF c \in Registered \ gone THEN OrderWithout(gone)
                        ELSE Append(OrderWithout(gone), c)
            /\ sessions' = pruneNodeSessions(SessionsWithout(gone), host, listed)

-----------------------------------------------------------------------------
(* send.ts *)

\* findNodeByGame: the places in the map of the free nodes that have the game.
Free(g) == {k \in DOMAIN order : /\ order[k] \in Registered \ Stale
                                 /\ g \in Installed[owner[order[k]]]
                                 /\ nodes[order[k]].sessions = {}}

\* The first free node is taken; the unresponsive ones met on the way to it,
\* or to the end of the map, are deleted.
startGameSession(g) ==
    /\ requests < MaxStarts
    /\ requests' = requests + 1
    /\ LET s == requests + 1 IN
       \/ /\ Free(g) = {}
          /\ nodes' = NodesWithout(Stale)
          /\ order' = OrderWithout(Stale)
          /\ sessions' = SessionsWithout(Stale)
          /\ answer' = [answer EXCEPT ![s] = "unavailable"]
          /\ UNCHANGED <<pending, down>>
       \/ \E k \in Free(g) :
             LET c == order[k]
                 gone == {order[j] : j \in 1 .. k - 1} \intersect Stale
             IN  /\ \A j \in Free(g) : k <= j
                 /\ nodes' = [NodesWithout(gone) EXCEPT ![c].sessions = {s}]
                 /\ order' = OrderWithout(gone)
                 /\ sessions' = createSession(SessionsWithout(gone), s, Host[owner[c]])
                 /\ down' = IF link[c] = "up" THEN [down EXCEPT ![c] = Append(@, s)] ELSE down
                 /\ pending' = pending \union {s}
                 /\ UNCHANGED answer
    /\ UNCHANGED <<owner, link, up>>

\* Mutant: the timer does not delete the record.
StartTimeoutKeepsRecord(s) ==
    /\ s \in pending
    /\ pending' = pending \ {s}
    /\ answer' = [answer EXCEPT ![s] = "unavailable"]
    /\ UNCHANGED <<sessions, nodes, order, requests, linkVars>>

\* The ten-second timer of a start that has not been confirmed.
StartTimeout(s) ==
    /\ s \in pending
    /\ pending' = pending \ {s}
    /\ sessions' = deleteSession(sessions, s)
    /\ answer' = [answer EXCEPT ![s] = "unavailable"]
    /\ UNCHANGED <<nodes, order, requests, linkVars>>

\* resolveStart, called by start_confirmed with the address of the node
\* registered on the connection, if there is one.
resolveStart(c, s) ==
    IF s \in pending
    THEN /\ pending' = pending \ {s}
         /\ answer' = [answer EXCEPT ![s] =
                          IF c \in Registered THEN "created" ELSE "created without ip"]
    ELSE UNCHANGED <<pending, answer>>

-----------------------------------------------------------------------------
(* messages.ts and server.ts *)

handleMessage(c, m) ==
    \/ /\ m.type = "heartbeat"
       /\ updateHeartbeat(c, m.sessions)
       /\ UNCHANGED <<pending, answer>>
    \/ /\ m.type = "start_confirmed"
       /\ resolveStart(c, m.session)
       /\ UNCHANGED <<nodes, order, sessions>>
    \/ /\ m.type \in {"stop_session", "session_error"}
       /\ sessions' = deleteSession(sessions, m.session)
       /\ UNCHANGED <<nodes, order, pending, answer>>

BackendReceive(c) ==
    /\ up[c] # << >>
    /\ up' = [up EXCEPT ![c] = Tail(@)]
    /\ handleMessage(c, Head(up[c]))
    /\ UNCHANGED <<requests, owner, link, down>>

\* The close event of a connection, after its last message.
BackendClose(c) ==
    /\ link[c] = "down"
    /\ up[c] = << >>
    /\ link' = [link EXCEPT ![c] = "closed"]
    /\ deleteNode(c)
    /\ UNCHANGED <<pending, answer, requests, owner, up, down>>

\* Two minutes pass without a heartbeat on a connection.
HeartbeatAges(c) ==
    /\ c \in Registered
    /\ ~nodes[c].stale
    /\ nodes' = [nodes EXCEPT ![c].stale = TRUE]
    /\ UNCHANGED <<order, sessions, pending, answer, requests, linkVars>>

\* The server process dies and is started again; it keeps no state on disk
\* about nodes or sessions, and its clients lose their requests.
BackendRestart ==
    /\ \E c \in Conns : link[c] \in {"up", "down"}
    /\ nodes' = [c \in Conns |-> NoNode]
    /\ order' = << >>
    /\ sessions' = [s \in SessionIds |-> NoHost]
    /\ pending' = {}
    /\ answer' = [s \in SessionIds |-> IF s \in pending THEN "lost" ELSE answer[s]]
    /\ link' = [c \in Conns |-> IF link[c] = "unused" THEN "unused" ELSE "closed"]
    /\ up' = [c \in Conns |-> << >>]
    /\ UNCHANGED <<requests, owner, down>>

BackendNext ==
    \/ \E g \in Games : startGameSession(g)
    \/ \E s \in SessionIds : StartTimeout(s)
    \/ \E c \in Conns : BackendReceive(c) \/ BackendClose(c) \/ HeartbeatAges(c)
    \/ BackendRestart
=============================================================================
