---------------------------- MODULE ClusterProofs ----------------------------
(***************************************************************************)
(* Proofs about Cluster, for any number of nodes, connections, games and   *)
(* play requests.  ClusterInv does not speak of the order of the map of    *)
(* nodes, which only decides which of the free nodes is taken; the last    *)
(* section shows that the order lists every entry of the map once.         *)
(***************************************************************************)
EXTENDS Cluster, WellFoundedInduction, TLAPS

\* A queue of a node's messages is one of the messages it may send later.
LEMMA SeqGrows == ASSUME NEW S, NEW T, S \subseteq T PROVE Seq(S) \subseteq Seq(T)
  OBVIOUS

\* A queue may be emptied.
LEMMA EmptySeq == ASSUME NEW S PROVE << >> \in Seq(S)
  OBVIOUS

\* The queues of a connection under the operations on them.
LEMMA QueueTypes ==
    ASSUME NEW S, NEW q \in Seq(S)
    PROVE  /\ Len(q) \in Nat
           /\ q # << >> => Head(q) \in S /\ Tail(q) \in Seq(S) /\ Len(Tail(q)) = Len(q) - 1
           /\ \A k \in 0 .. Len(q) : SubSeq(q, 1, k) \in Seq(S)
           /\ \A e \in S : Append(q, e) \in Seq(S)
           /\ \A r \in Seq(S) : q \o r \in Seq(S)
  <1>1. Len(q) \in Nat OBVIOUS
  <1>2. q # << >> => Head(q) \in S /\ Tail(q) \in Seq(S) /\ Len(Tail(q)) = Len(q) - 1 OBVIOUS
  <1>3. \A k \in 0 .. Len(q) : SubSeq(q, 1, k) \in Seq(S) BY <1>1
  <1>4. \A e \in S : Append(q, e) \in Seq(S) OBVIOUS
  <1>5. \A r \in Seq(S) : q \o r \in Seq(S) OBVIOUS
  <1>. QED BY <1>1, <1>2, <1>3, <1>4, <1>5

\* The sessions that node n may speak of: their requests were made, and no
\* other machine has a record of them.
Known(n) == {s \in 1 .. requests : sessions[s] \in {NoHost, Host[n]}}

\* What node n may send.
Messages(n) ==
    {heartbeat(s) : s \in Known(n) \union {NoSession}} \union
    {Message(t, s) : t \in {"start_confirmed", "stop_session", "session_error"},
                     s \in Known(n)}

\* The entries that the map of nodes may have for node n.
Entries(n) == [name : {Host[n]}, stale : BOOLEAN, sessions : SUBSET SessionIds]

\* A connection that was not opened is empty and has no entry; what is on its
\* way on another one concerns its node, and so does its entry.
ConnInv(c) ==
    /\ link[c] = "unused" => up[c] = << >> /\ down[c] = << >> /\ nodes[c] = NoNode
    /\ link[c] # "unused" => /\ owner[c] \in Nodes
                             /\ up[c] \in Seq(Messages(owner[c]))
                             /\ down[c] \in Seq(Known(owner[c]))
                             /\ nodes[c] \in {NoNode} \union Entries(owner[c])

\* A running SideCar has a connection of its own, and a session of its own.
NodeInv(n) ==
    /\ active[n] \in Known(n) \union {NoSession}
    /\ running[n] => /\ conn[n] \in Conns
                     /\ owner[conn[n]] = n
                     /\ link[conn[n]] # "unused"

\* The requests that were made are the ones numbered up to "requests", and the
\* ones that wait have no answer.
RequestInv ==
    /\ requests \in 0 .. MaxStarts
    /\ pending \subseteq 1 .. requests
    /\ \A s \in pending : answer[s] = "none"
    /\ \A s \in SessionIds : s > requests => sessions[s] = NoHost /\ answer[s] = "none"

\* The variables that are functions have their domains.
Domains ==
    /\ DOMAIN owner = Conns /\ DOMAIN link = Conns
    /\ DOMAIN up = Conns /\ DOMAIN down = Conns /\ DOMAIN nodes = Conns
    /\ DOMAIN sessions = SessionIds /\ DOMAIN answer = SessionIds
    /\ DOMAIN running = Nodes /\ DOMAIN conn = Nodes /\ DOMAIN active = Nodes

\* What the nodes say, and are told, concerns sessions of their own.
Traffic == (\A c \in Conns : ConnInv(c)) /\ (\A n \in Nodes : NodeInv(n))

\* The inductive invariant.
ClusterInv ==
    /\ Domains /\ Traffic /\ RequestInv
    /\ RecordsAreReserved /\ OneEntryPerNode /\ NoRecordAfterTimeout

-----------------------------------------------------------------------------
(* Lemmas. *)

\* An entry of the map of nodes belongs to the node of its connection.
LEMMA RegisteredFacts ==
    ASSUME ClusterInv, NEW c \in Registered
    PROVE  /\ c \in Conns /\ link[c] # "unused" /\ owner[c] \in Nodes
           /\ nodes[c] \in Entries(owner[c])
           /\ nodes[c].name = Host[owner[c]] /\ nodes[c].name # NoHost
  BY BackendAssumption DEF ClusterInv, Traffic, ConnInv, Registered, Entries

\* Deleting entries from the map deletes the records of their hosts and no
\* others: a record that is left has an entry that is left.
LEMMA WithoutFacts ==
    ASSUME ClusterInv, NEW gone \in SUBSET Registered
    PROVE  /\ DOMAIN SessionsWithout(gone) = SessionIds
           /\ \A s \in SessionIds :
                 /\ SessionsWithout(gone)[s] \in {sessions[s], NoHost}
                 /\ SessionsWithout(gone)[s] # NoHost =>
                       \E c \in Registered \ gone :
                           nodes[c].name = sessions[s] /\ nodes[c].sessions = {s}
                 /\ sessions[s] # NoHost /\ SessionsWithout(gone)[s] = NoHost =>
                       \E c \in gone : Host[owner[c]] = sessions[s]
  <1>1. RecordsAreReserved BY DEF ClusterInv
  <1>2. \A c \in gone : nodes[c].name = Host[owner[c]] BY RegisteredFacts
  <1>3. QED BY <1>1, <1>2 DEF RecordsAreReserved, SessionsWithout, deleteNodeSessions

\* A node may go on speaking of the sessions it knew, as no record is moved
\* to another host.
LEMMA KnownGrows ==
    ASSUME requests \in Nat, requests' \in Nat, requests <= requests',
           \A s \in 1 .. requests : sessions'[s] \in {sessions[s], NoHost},
           NEW n \in Nodes
    PROVE  Known(n) \subseteq Known(n)' /\ Messages(n) \subseteq Messages(n)'
  <1>1. Known(n) \subseteq Known(n)' BY DEF Known
  <1>2. QED BY <1>1 DEF Messages

\* What is on its way stays in order when the server takes a message, sends a
\* command or changes its records.
LEMMA TrafficKept ==
    ASSUME Traffic, requests \in Nat, requests' \in Nat, requests <= requests',
           \A s \in 1 .. requests : sessions'[s] \in {sessions[s], NoHost},
           UNCHANGED <<owner, sideCarVars>>,
           \A c \in Conns :
              /\ link'[c] = "unused" <=> link[c] = "unused"
              /\ \/ up'[c] = up[c] \/ up'[c] = << >>
                 \/ up[c] # << >> /\ up'[c] = Tail(up[c])
              /\ \/ down'[c] = down[c]
                 \/ /\ link[c] # "unused"
                    /\ \E s \in Known(owner[c])' : down'[c] = Append(down[c], s)
              /\ \/ nodes'[c] \in {nodes[c], NoNode}
                 \/ link[c] # "unused" /\ nodes'[c] \in Entries(owner[c])
    PROVE  Traffic'
  <1>1. ASSUME NEW c \in Conns PROVE ConnInv(c)'
    <2>1. CASE link[c] = "unused" BY <2>1 DEF Traffic, ConnInv
    <2>2. CASE link[c] # "unused"
      <3>0. owner[c] \in Nodes /\ owner'[c] = owner[c] BY <2>2 DEF Traffic, ConnInv
      <3>1. /\ Known(owner[c]) \subseteq Known(owner[c])'
            /\ Messages(owner[c]) \subseteq Messages(owner[c])'
        <4>1. owner[c]' = owner[c] BY <3>0
        <4>. QED BY <4>1, <3>0, KnownGrows
      <3>2. /\ up[c] \in Seq(Messages(owner[c])') /\ down[c] \in Seq(Known(owner[c])')
        BY <2>2, <3>1, SeqGrows DEF Traffic, ConnInv
      <3>3. up'[c] \in Seq(Messages(owner[c])')
        <4>1. << >> \in Seq(Messages(owner[c])') BY EmptySeq
        <4>2. up[c] # << >> => Tail(up[c]) \in Seq(Messages(owner[c])')
          BY <3>2, QueueTypes, Zenon
        <4>. QED BY <3>2, <4>1, <4>2, Zenon
      <3>4. down'[c] \in Seq(Known(owner[c])')
        <4>1. \A s \in Known(owner[c])' : Append(down[c], s) \in Seq(Known(owner[c])')
          BY <3>2, QueueTypes
        <4>. QED BY <3>2, <4>1, Zenon
      <3>5. nodes'[c] \in {NoNode} \union Entries(owner[c])
        BY <2>2 DEF Traffic, ConnInv
      <3>. QED BY <2>2, <3>0, <3>3, <3>4, <3>5 DEF ConnInv, Entries
    <2>. QED BY <2>1, <2>2
  <1>2. ASSUME NEW n \in Nodes PROVE NodeInv(n)'
    <2>1. Known(n) \subseteq Known(n)' BY KnownGrows
    <2>2. active'[n] \in Known(n)' \union {NoSession} BY <2>1 DEF Traffic, NodeInv, sideCarVars
    <2>3. running'[n] => conn'[n] \in Conns /\ owner'[conn'[n]] = n /\ link'[conn'[n]] # "unused"
      BY DEF Traffic, NodeInv, sideCarVars
    <2>. QED BY <2>2, <2>3 DEF NodeInv
  <1>. QED BY <1>1, <1>2 DEF Traffic

-----------------------------------------------------------------------------
(* The server's steps. *)

\* A play request: the record made is that of the entry reserved for it.
LEMMA StartStep ==
    ASSUME ClusterInv, NEW g \in Games, startGameSession(g), UNCHANGED sideCarVars
    PROVE  ClusterInv'
  <1> DEFINE s == requests + 1
  <1>0. /\ requests \in Nat /\ MaxStarts \in Nat /\ requests' = requests + 1
        /\ s \in SessionIds /\ s \notin 1 .. requests /\ 1 .. requests' = 1 .. requests \union {s}
        /\ 1 .. requests \subseteq SessionIds
        /\ sessions[s] = NoHost /\ answer[s] = "none"
    BY BackendAssumption DEF startGameSession, ClusterInv, RequestInv, SessionIds
  <1>1. CASE Free(g) = {}
    <2>1. Stale \in SUBSET Registered BY DEF Stale
    <2>2. /\ nodes' = NodesWithout(Stale) /\ sessions' = SessionsWithout(Stale)
          /\ answer' = [answer EXCEPT ![s] = "unavailable"]
          /\ UNCHANGED <<pending, owner, link, up, down>>
      BY <1>1 DEF startGameSession
    <2>3. \A t \in SessionIds :
             /\ sessions'[t] \in {sessions[t], NoHost}
             /\ sessions'[t] # NoHost =>
                   \E c \in Registered \ Stale :
                       nodes[c].name = sessions[t] /\ nodes[c].sessions = {t}
      BY <2>1, <2>2, WithoutFacts
    <2>4. Domains' BY <2>1, <2>2, WithoutFacts DEF Domains, ClusterInv, NodesWithout, sideCarVars
    <2>5. Traffic'
      <3>1. \A c \in Conns : nodes'[c] \in {nodes[c], NoNode} BY <2>2 DEF NodesWithout
      <3>. QED BY <1>0, <2>2, <2>3, <3>1, TrafficKept DEF ClusterInv
    <2>6. RequestInv'
      <3>1. requests' \in 0 .. MaxStarts BY <1>0 DEF SessionIds
      <3>2. pending' \subseteq 1 .. requests' BY <1>0, <2>2 DEF ClusterInv, RequestInv
      <3>3. \A t \in pending' : answer'[t] = "none"
        BY <1>0, <2>2 DEF ClusterInv, RequestInv, Domains
      <3>4. \A t \in SessionIds : t > requests' => sessions'[t] = NoHost /\ answer'[t] = "none"
        BY <1>0, <2>2, <2>3 DEF ClusterInv, RequestInv, Domains, SessionIds
      <3>. QED BY <3>1, <3>2, <3>3, <3>4 DEF RequestInv
    <2>7. RecordsAreReserved'
      BY <2>2, <2>3, Zenon DEF RecordsAreReserved, Registered, NodesWithout
    <2>8. OneEntryPerNode'
      BY <2>2 DEF ClusterInv, OneEntryPerNode, Registered, Identity, NodesWithout
    <2>9. NoRecordAfterTimeout'
      BY <1>0, <2>2, <2>3 DEF ClusterInv, Domains, RequestInv, NoRecordAfterTimeout
    <2>. QED BY <2>4, <2>5, <2>6, <2>7, <2>8, <2>9 DEF ClusterInv
  <1>2. ASSUME NEW k \in Free(g), NEW c, NEW gone,
               c = order[k], gone = {order[j] : j \in 1 .. k - 1} \intersect Stale,
               nodes' = [NodesWithout(gone) EXCEPT ![c].sessions = {s}],
               sessions' = createSession(SessionsWithout(gone), s, Host[owner[c]]),
               down' = IF link[c] = "up" THEN [down EXCEPT ![c] = Append(@, s)] ELSE down,
               pending' = pending \union {s},
               UNCHANGED <<answer, owner, link, up>>
        PROVE  ClusterInv'
    <2>1. gone \in SUBSET Registered /\ gone \subseteq Stale BY <1>2 DEF Stale
    <2>2. c \in Registered /\ c \notin gone /\ nodes[c].sessions = {}
      BY <1>2, <2>1 DEF Free
    <2>3. /\ c \in Conns /\ owner[c] \in Nodes /\ link[c] # "unused"
          /\ nodes[c] \in Entries(owner[c])
          /\ nodes[c].name = Host[owner[c]] /\ nodes[c].name # NoHost
      BY <2>2, RegisteredFacts
    <2>4. /\ sessions'[s] = Host[owner[c]] /\ DOMAIN sessions' = SessionIds
          /\ \A t \in SessionIds \ {s} :
             /\ sessions'[t] \in {sessions[t], NoHost}
             /\ sessions'[t] # NoHost =>
                   \E d \in Registered \ gone :
                       nodes[d].name = sessions[t] /\ nodes[d].sessions = {t}
      <3> DEFINE W == SessionsWithout(gone)
      <3>1. /\ DOMAIN W = SessionIds
            /\ \A t \in SessionIds :
                 /\ W[t] \in {sessions[t], NoHost}
                 /\ W[t] # NoHost => \E d \in Registered \ gone :
                       nodes[d].name = sessions[t] /\ nodes[d].sessions = {t}
        BY <2>1, WithoutFacts
      <3>2. sessions' = [W EXCEPT ![s] = Host[owner[c]]] BY <1>2 DEF createSession
      <3> HIDE DEF W
      <3>. QED BY <1>0, <3>1, <3>2
    <2>5. /\ DOMAIN nodes' = Conns
          /\ nodes'[c] = [nodes[c] EXCEPT !.sessions = {s}]
          /\ \A d \in Conns \ {c} : nodes'[d] = IF d \in gone THEN NoNode ELSE nodes[d]
      BY <1>2, <2>2, <2>3, Zenon DEF NodesWithout
    <2>6. /\ nodes'[c] \in Entries(owner[c]) /\ nodes'[c].sessions = {s}
          /\ nodes'[c].name = Host[owner[c]]
      BY <1>0, <2>3, <2>5 DEF Entries
    <2>7. Registered' = Registered \ gone
      <3>1. nodes'[c] # NoNode BY <2>3, <2>6 DEF NoNode
      <3>. QED BY <2>1, <2>2, <2>5, <3>1 DEF Registered
    <2>8. Domains' BY <1>2, <2>4, <2>5 DEF ClusterInv, Domains, sideCarVars
    <2>9. Traffic'
      <3>1. \A d \in Conns : nodes'[d] \in {nodes[d], NoNode}
                             \/ (link[d] # "unused" /\ nodes'[d] \in Entries(owner[d]))
        BY <2>3, <2>5, <2>6
      <3>2. s \in Known(owner[c])' BY <1>0, <1>2, <2>4 DEF Known
      <3>3. \A d \in Conns : \/ down'[d] = down[d]
                             \/ /\ link[d] # "unused"
                                /\ \E t \in Known(owner[d])' : down'[d] = Append(down[d], t)
        BY <1>2, <2>3, <3>2 DEF ClusterInv, Domains
      <3>4. \A t \in 1 .. requests : sessions'[t] \in {sessions[t], NoHost}
        BY <1>0, <2>4
      <3>5. requests' \in Nat /\ requests <= requests' BY <1>0
      <3>6. UNCHANGED <<owner, sideCarVars>> BY <1>2
      <3>7. \A d \in Conns : (link'[d] = "unused" <=> link[d] = "unused") /\ up'[d] = up[d]
        BY <1>2
      <3>8. Traffic BY DEF ClusterInv
      <3>. QED BY <1>0, <3>1, <3>3, <3>4, <3>5, <3>6, <3>7, <3>8, TrafficKept
    <2>10. RequestInv'
      <3>1. requests' \in 0 .. MaxStarts BY <1>0 DEF SessionIds
      <3>2. pending' \subseteq 1 .. requests' BY <1>0, <1>2 DEF ClusterInv, RequestInv
      <3>3. \A t \in pending' : answer'[t] = "none"
        BY <1>0, <1>2 DEF ClusterInv, RequestInv
      <3>4. \A t \in SessionIds : t > requests' => sessions'[t] = NoHost /\ answer'[t] = "none"
        BY <1>0, <1>2, <2>4 DEF ClusterInv, RequestInv, SessionIds
      <3>. QED BY <3>1, <3>2, <3>3, <3>4 DEF RequestInv
    <2>11. RecordsAreReserved'
      <3> SUFFICES ASSUME NEW t \in SessionIds, sessions'[t] # NoHost
                   PROVE  \E d \in Registered' : nodes'[d].name = sessions'[t] /\ nodes'[d].sessions = {t}
        BY DEF RecordsAreReserved
      <3>1. CASE t = s BY <3>1, <2>2, <2>4, <2>6, <2>7
      <3>2. CASE t # s
        <4>1. PICK d \in Registered \ gone : nodes[d].name = sessions[t] /\ nodes[d].sessions = {t}
          BY <2>4, <3>2
        <4>2. d # c /\ d \in Conns BY <2>2, <4>1 DEF Registered
        <4>3. nodes'[d] = nodes[d] /\ sessions'[t] = sessions[t] BY <2>4, <2>5, <3>2, <4>1, <4>2
        <4>. QED BY <2>7, <4>1, <4>3
      <3>. QED BY <3>1, <3>2
    <2>12. OneEntryPerNode'
      BY <1>2, <2>7 DEF ClusterInv, OneEntryPerNode, Identity
    <2>13. NoRecordAfterTimeout'
      BY <1>0, <1>2, <2>4 DEF ClusterInv, Domains, RequestInv, NoRecordAfterTimeout
    <2>. QED BY <2>8, <2>9, <2>10, <2>11, <2>12, <2>13 DEF ClusterInv
  <1>. QED BY <1>1, <1>2, Zenon DEF startGameSession

\* The ten-second timer.
LEMMA TimeoutStep ==
    ASSUME ClusterInv, NEW s \in SessionIds, StartTimeout(s), UNCHANGED sideCarVars
    PROVE  ClusterInv'
  <1>1. /\ s \in pending /\ pending' = pending \ {s}
        /\ sessions' = [sessions EXCEPT ![s] = NoHost]
        /\ answer' = [answer EXCEPT ![s] = "unavailable"]
        /\ UNCHANGED <<nodes, requests, owner, link, up, down>>
    BY DEF StartTimeout, deleteSession, linkVars
  <1>2. requests \in Nat /\ 1 .. requests \subseteq SessionIds
    BY BackendAssumption DEF ClusterInv, RequestInv, SessionIds
  <1>3. Domains' BY <1>1 DEF ClusterInv, Domains, sideCarVars
  <1>4. Traffic' BY <1>1, <1>2, TrafficKept DEF ClusterInv, Domains
  <1>5. RequestInv'
    <2>1. pending' \subseteq 1 .. requests' /\ requests' \in 0 .. MaxStarts
      BY <1>1 DEF ClusterInv, RequestInv
    <2>2. \A t \in pending' : answer'[t] = "none"
      BY <1>1, <1>2 DEF ClusterInv, Domains, RequestInv
    <2>3. \A t \in SessionIds : t > requests' => sessions'[t] = NoHost /\ answer'[t] = "none"
      <3>1. s <= requests BY <1>1, <1>2 DEF ClusterInv, RequestInv
      <3>. QED BY <1>1, <1>2, <3>1 DEF ClusterInv, Domains, RequestInv, SessionIds
    <2>. QED BY <2>1, <2>2, <2>3 DEF RequestInv
  <1>6. RecordsAreReserved'
    BY <1>1 DEF ClusterInv, Domains, RecordsAreReserved, Registered
  <1>7. OneEntryPerNode' BY <1>1 DEF ClusterInv, OneEntryPerNode, Registered, Identity
  <1>8. NoRecordAfterTimeout' BY <1>1 DEF ClusterInv, Domains, NoRecordAfterTimeout
  <1>. QED BY <1>3, <1>4, <1>5, <1>6, <1>7, <1>8 DEF ClusterInv

\* A heartbeat: the entries deleted take their records with them, and the
\* records left for the sender's host are those of the session it lists.
LEMMA HeartbeatStep ==
    ASSUME ClusterInv, NEW c \in Conns, up[c] # << >>,
           up' = [up EXCEPT ![c] = Tail(@)],
           Head(up[c]).type = "heartbeat",
           updateHeartbeat(c, Head(up[c]).sessions),
           UNCHANGED <<pending, answer, requests, owner, link, down, sideCarVars>>
    PROVE  ClusterInv'
  <1> DEFINE listed == Head(up[c]).sessions
  <1> DEFINE host == Host[owner[c]]
  <1>0. requests \in Nat /\ 1 .. requests \subseteq SessionIds
    BY BackendAssumption DEF ClusterInv, RequestInv, SessionIds
  <1>1. link[c] # "unused" /\ owner[c] \in Nodes /\ up[c] \in Seq(Messages(owner[c]))
    BY DEF ClusterInv, Traffic, ConnInv
  <1>2. Head(up[c]) \in Messages(owner[c]) BY <1>1, QueueTypes
  <1>3. PICK l \in Known(owner[c]) \union {NoSession} : Head(up[c]) = heartbeat(l)
    BY <1>2 DEF Messages, Message
  <1>4. listed = {l} \ {NoSession} /\ listed \subseteq SessionIds
    BY <1>0, <1>3 DEF heartbeat, Known
  <1>5. host # NoHost BY <1>1, BackendAssumption
  <1>6. PICK cleared \in {{}, Stale} :
          LET gone == cleared \union deleteDuplicateNodes(c, Registered \ cleared)
          IN  /\ nodes' = [NodesWithout(gone) EXCEPT ![c] =
                              [name |-> host, stale |-> FALSE, sessions |-> listed]]
              /\ sessions' = pruneNodeSessions(SessionsWithout(gone), host, listed)
    BY Zenon DEF updateHeartbeat
  <1> DEFINE gone == cleared \union deleteDuplicateNodes(c, Registered \ cleared)
  <1>7. gone \in SUBSET Registered BY DEF deleteDuplicateNodes, Stale
  <1>8. \A d \in Registered \ gone : d # c => Identity(d) # Identity(c)
    BY DEF deleteDuplicateNodes
  <1>9. /\ DOMAIN nodes' = Conns
        /\ nodes'[c] = [name |-> host, stale |-> FALSE, sessions |-> listed]
        /\ \A d \in Conns \ {c} : nodes'[d] = IF d \in gone THEN NoNode ELSE nodes[d]
    BY <1>6, Zenon DEF NodesWithout
  <1>10. DOMAIN sessions' = SessionIds BY <1>6 DEF pruneNodeSessions
  <1>11. \A t \in SessionIds :
           /\ sessions'[t] \in {sessions[t], NoHost}
           /\ sessions'[t] # NoHost =>
                 /\ sessions[t] = host => t \in listed
                 /\ \E d \in Registered \ gone :
                       nodes[d].name = sessions[t] /\ nodes[d].sessions = {t}
    <2> DEFINE W == SessionsWithout(gone)
    <2> HIDE DEF gone, listed, host
    <2>1. \A t \in SessionIds :
             /\ W[t] \in {sessions[t], NoHost}
             /\ W[t] # NoHost => \E d \in Registered \ gone :
                   nodes[d].name = sessions[t] /\ nodes[d].sessions = {t}
      BY <1>7, WithoutFacts
    <2>2. \A t \in SessionIds : sessions'[t] = IF W[t] = host /\ t \notin listed THEN NoHost ELSE W[t]
      BY <1>6 DEF pruneNodeSessions, gone, listed, host
    <2> HIDE DEF W
    <2>. QED BY <2>1, <2>2
  <1> HIDE DEF gone, listed, host
  <1>12. nodes'[c] \in Entries(owner[c]) /\ nodes'[c] # NoNode
    BY <1>4, <1>5, <1>9 DEF Entries, NoNode, host
  <1>13. Registered' = (Registered \ gone) \union {c}
    BY <1>7, <1>9, <1>12 DEF Registered
  <1>14. Domains' BY <1>9, <1>10 DEF ClusterInv, Domains, sideCarVars
  <1>15. Traffic'
    <2>1. \A d \in Conns : nodes'[d] \in {nodes[d], NoNode}
                           \/ (link[d] # "unused" /\ nodes'[d] \in Entries(owner[d]))
      BY <1>1, <1>9, <1>12, Zenon
    <2>2. \A d \in Conns : up'[d] = up[d] \/ (up[d] # << >> /\ up'[d] = Tail(up[d]))
      BY DEF ClusterInv, Domains
    <2>3. \A t \in 1 .. requests : sessions'[t] \in {sessions[t], NoHost}
      BY <1>0, <1>11
    <2>4. requests' \in Nat /\ requests <= requests' BY <1>0
    <2>5. \A d \in Conns : (link'[d] = "unused" <=> link[d] = "unused") /\ down'[d] = down[d]
      OBVIOUS
    <2>6. Traffic BY DEF ClusterInv
    <2>. QED BY <1>0, <2>1, <2>2, <2>3, <2>4, <2>5, <2>6, TrafficKept
  <1>16. RequestInv' BY <1>0, <1>11 DEF ClusterInv, RequestInv
  <1>17. RecordsAreReserved'
    <2> SUFFICES ASSUME NEW t \in SessionIds, sessions'[t] # NoHost
                 PROVE  \E d \in Registered' : nodes'[d].name = sessions'[t] /\ nodes'[d].sessions = {t}
      BY Zenon DEF RecordsAreReserved
    <2>1. CASE sessions[t] = host
      <3>1. t \in listed BY <1>11, <2>1
      <3>2. listed = {t} BY <1>4, <3>1
      <3>. QED BY <1>9, <1>11, <1>13, <2>1, <3>2
    <2>2. CASE sessions[t] # host
      <3>1. PICK d \in Registered \ gone : nodes[d].name = sessions[t] /\ nodes[d].sessions = {t}
        BY <1>11
      <3>2. d # c /\ d \in Conns BY <2>2, <3>1, RegisteredFacts DEF host
      <3>3. nodes'[d] = nodes[d] BY <1>9, <3>1, <3>2
      <3>. QED BY <1>11, <1>13, <3>1, <3>3
    <2>. QED BY <2>1, <2>2
  <1>18. OneEntryPerNode'
    <2> SUFFICES ASSUME NEW d \in Registered', NEW e \in Registered', Identity(d) = Identity(e)
                 PROVE  d = e
      BY DEF OneEntryPerNode, Identity
    <2>. QED BY <1>8, <1>13 DEF ClusterInv, OneEntryPerNode
  <1>19. NoRecordAfterTimeout' BY <1>11 DEF ClusterInv, NoRecordAfterTimeout
  <1>. QED BY <1>14, <1>15, <1>16, <1>17, <1>18, <1>19 DEF ClusterInv

\* A confirmation, which answers the request only if it still waits, or the
\* news that a session ended.
LEMMA NewsStep ==
    ASSUME ClusterInv, NEW c \in Conns, up[c] # << >>,
           up' = [up EXCEPT ![c] = Tail(@)],
           NEW s \in SessionIds,
           \/ resolveStart(c, s) /\ UNCHANGED sessions
           \/ sessions' = deleteSession(sessions, s) /\ UNCHANGED <<pending, answer>>,
           UNCHANGED <<nodes, requests, owner, link, down, sideCarVars>>
    PROVE  ClusterInv'
  <1>0. requests \in Nat /\ 1 .. requests \subseteq SessionIds
    BY BackendAssumption DEF ClusterInv, RequestInv, SessionIds
  <1>1. /\ DOMAIN sessions' = SessionIds
        /\ \A t \in SessionIds : sessions'[t] \in {sessions[t], NoHost}
    BY Zenon DEF resolveStart, deleteSession, ClusterInv, Domains
  <1>2. /\ pending' \subseteq pending /\ DOMAIN answer' = SessionIds
        /\ \A t \in SessionIds :
              \/ answer'[t] = answer[t]
              \/ /\ t \in pending /\ t \notin pending'
                 /\ answer'[t] \in {"created", "created without ip"}
    BY Zenon DEF resolveStart, ClusterInv, Domains
  <1>3. Domains' BY <1>1, <1>2, Zenon DEF ClusterInv, Domains, sideCarVars
  <1>4. Traffic'
    <2>1. \A d \in Conns : up'[d] = up[d] \/ (up[d] # << >> /\ up'[d] = Tail(up[d]))
      BY DEF ClusterInv, Domains
    <2>2. \A t \in 1 .. requests : sessions'[t] \in {sessions[t], NoHost}
      BY <1>0, <1>1
    <2>3. requests' \in Nat /\ requests <= requests' BY <1>0
    <2>4. Traffic BY DEF ClusterInv
    <2>. QED BY <1>0, <2>1, <2>2, <2>3, <2>4, TrafficKept
  <1>5. RequestInv'
    <2>1. pending' \subseteq 1 .. requests' /\ requests' \in 0 .. MaxStarts
      BY <1>2, Zenon DEF ClusterInv, RequestInv
    <2>2. \A t \in pending' : answer'[t] = "none"
      BY <1>0, <1>2, Zenon DEF ClusterInv, RequestInv
    <2>3. \A t \in SessionIds : t > requests' => sessions'[t] = NoHost /\ answer'[t] = "none"
      <3>1. \A t \in pending : t <= requests BY <1>0 DEF ClusterInv, RequestInv
      <3>2. \A t \in SessionIds : t > requests => t \notin pending
        BY <1>0, <3>1 DEF SessionIds
      <3>. QED BY <1>1, <1>2, <3>2, Zenon DEF ClusterInv, RequestInv
    <2>. QED BY <2>1, <2>2, <2>3 DEF RequestInv
  <1>6. RecordsAreReserved'
    BY <1>1, ZenonT(30) DEF ClusterInv, RecordsAreReserved, Registered
  <1>7. OneEntryPerNode' BY DEF ClusterInv, OneEntryPerNode, Registered, Identity
  <1>8. NoRecordAfterTimeout' BY <1>1, <1>2, Zenon DEF ClusterInv, NoRecordAfterTimeout
  <1>. QED BY <1>3, <1>4, <1>5, <1>6, <1>7, <1>8 DEF ClusterInv

\* The messages that a node sends name a session of a request.
LEMMA HeadFacts ==
    ASSUME ClusterInv, NEW c \in Conns, up[c] # << >>
    PROVE  /\ link[c] # "unused" /\ owner[c] \in Nodes /\ Tail(up[c]) # up[c]
           /\ Head(up[c]).type # "heartbeat" =>
                 /\ Head(up[c]).session \in SessionIds
                 /\ sessions[Head(up[c]).session] \in {NoHost, Host[owner[c]]}
  <1>0. requests \in Nat /\ 1 .. requests \subseteq SessionIds
    BY BackendAssumption DEF ClusterInv, RequestInv, SessionIds
  <1>1. link[c] # "unused" /\ owner[c] \in Nodes /\ up[c] \in Seq(Messages(owner[c]))
    BY DEF ClusterInv, Traffic, ConnInv
  <1>2. Head(up[c]) \in Messages(owner[c]) /\ Tail(up[c]) # up[c]
    <2>1. /\ Head(up[c]) \in Messages(owner[c]) /\ Len(Tail(up[c])) = Len(up[c]) - 1
      BY <1>1, QueueTypes
    <2>2. Len(up[c]) \in Nat BY <1>1, QueueTypes
    <2>3. ASSUME Tail(up[c]) = up[c] PROVE FALSE
      <3>1. Len(up[c]) = Len(up[c]) - 1 BY <2>1, <2>3, Zenon
      <3>. QED BY <2>2, <3>1
    <2>. QED BY <2>1, <2>3
  <1>3. Head(up[c]).type # "heartbeat" => Head(up[c]).session \in Known(owner[c])
    BY <1>2 DEF Messages, Message, heartbeat
  <1>. QED BY <1>0, <1>1, <1>2, <1>3 DEF Known

\* A message of a node is a heartbeat, or news of a session.
LEMMA ReceiveStep ==
    ASSUME ClusterInv, NEW c \in Conns, BackendReceive(c), UNCHANGED sideCarVars
    PROVE  ClusterInv'
  <1>1. /\ up[c] # << >> /\ up' = [up EXCEPT ![c] = Tail(@)]
        /\ UNCHANGED <<requests, owner, link, down>>
        /\ handleMessage(c, Head(up[c]))
    BY DEF BackendReceive
  <1>2. CASE Head(up[c]).type = "heartbeat"
    BY <1>1, <1>2, HeartbeatStep, Zenon DEF handleMessage
  <1>3. CASE Head(up[c]).type # "heartbeat"
    <2>1. Head(up[c]).session \in SessionIds BY <1>1, <1>3, HeadFacts
    <2>. QED BY <1>1, <1>3, <2>1, NewsStep, Zenon DEF handleMessage
  <1>. QED BY <1>2, <1>3

\* The close of a connection deletes its entry, if it has one.
LEMMA CloseStep ==
    ASSUME ClusterInv, NEW c \in Conns, BackendClose(c), UNCHANGED sideCarVars
    PROVE  ClusterInv'
  <1> DEFINE gone == {c} \intersect Registered
  <1>0. requests \in Nat /\ 1 .. requests \subseteq SessionIds
    BY BackendAssumption DEF ClusterInv, RequestInv, SessionIds
  <1>1. /\ link[c] = "down" /\ link' = [link EXCEPT ![c] = "closed"]
        /\ nodes' = NodesWithout(gone) /\ sessions' = SessionsWithout(gone)
        /\ UNCHANGED <<pending, answer, requests, owner, up, down>>
    BY DEF BackendClose, deleteNode
  <1>2. gone \in SUBSET Registered OBVIOUS
  <1> HIDE DEF gone
  <1>3. /\ DOMAIN sessions' = SessionIds
        /\ \A t \in SessionIds :
              /\ sessions'[t] \in {sessions[t], NoHost}
              /\ sessions'[t] # NoHost =>
                    \E d \in Registered \ gone :
                        nodes[d].name = sessions[t] /\ nodes[d].sessions = {t}
    BY <1>1, <1>2, WithoutFacts, SMTT(30)
  <1>4. Domains' BY <1>1, <1>3 DEF ClusterInv, Domains, NodesWithout, sideCarVars
  <1>5. Traffic'
    <2>1. \A d \in Conns : nodes'[d] \in {nodes[d], NoNode} BY <1>1 DEF NodesWithout
    <2>2. \A d \in Conns : link'[d] = "unused" <=> link[d] = "unused"
      BY <1>1, Zenon DEF ClusterInv, Domains
    <2>3. /\ requests' \in Nat /\ requests <= requests'
          /\ \A d \in Conns : up'[d] = up[d] /\ down'[d] = down[d]
      BY <1>0, <1>1
    <2>4. \A t \in 1 .. requests : sessions'[t] \in {sessions[t], NoHost}
      BY <1>0, <1>3
    <2>5. Traffic BY DEF ClusterInv
    <2>6. UNCHANGED <<owner, sideCarVars>> BY <1>1
    <2>. QED BY <1>0, <2>1, <2>2, <2>3, <2>4, <2>5, <2>6, TrafficKept, Zenon
  <1>6. RequestInv' BY <1>0, <1>1, <1>3 DEF ClusterInv, RequestInv
  <1>7. RecordsAreReserved'
    <2>1. \A d \in Registered \ gone : d \in Registered' /\ nodes'[d] = nodes[d]
      BY <1>1 DEF Registered, NodesWithout
    <2>. QED BY <1>3, <2>1 DEF RecordsAreReserved
  <1>8. OneEntryPerNode'
    BY <1>1 DEF ClusterInv, OneEntryPerNode, Registered, Identity, NodesWithout
  <1>9. NoRecordAfterTimeout' BY <1>1, <1>3 DEF ClusterInv, NoRecordAfterTimeout
  <1>. QED BY <1>4, <1>5, <1>6, <1>7, <1>8, <1>9 DEF ClusterInv

\* An entry that ages stays an entry.
LEMMA AgeStep ==
    ASSUME ClusterInv, NEW c \in Conns, HeartbeatAges(c), UNCHANGED sideCarVars
    PROVE  ClusterInv'
  <1>0. requests \in Nat BY BackendAssumption DEF ClusterInv, RequestInv
  <1>1. /\ c \in Registered /\ nodes' = [nodes EXCEPT ![c].stale = TRUE]
        /\ UNCHANGED <<sessions, pending, answer, requests, owner, link, up, down>>
    BY DEF HeartbeatAges, linkVars
  <1>2. link[c] # "unused" /\ nodes[c] \in Entries(owner[c]) /\ owner[c] \in Nodes
    BY <1>1, RegisteredFacts
  <1>3. /\ DOMAIN nodes' = Conns
        /\ nodes'[c] = [nodes[c] EXCEPT !.stale = TRUE]
        /\ \A d \in Conns \ {c} : nodes'[d] = nodes[d]
    BY <1>1 DEF ClusterInv, Domains
  <1>4. /\ nodes'[c] \in Entries(owner[c]) /\ nodes'[c] # NoNode
        /\ nodes'[c].name = nodes[c].name /\ nodes'[c].sessions = nodes[c].sessions
    <2>1. /\ nodes[c].name = Host[owner[c]] /\ nodes[c].sessions \in SUBSET SessionIds
          /\ nodes'[c] = [name |-> nodes[c].name, stale |-> TRUE, sessions |-> nodes[c].sessions]
      BY <1>2, <1>3, Zenon DEF Entries
    <2>2. nodes'[c] \in Entries(owner[c])
      BY <2>1 DEF Entries
    <2>3. nodes'[c] # NoNode BY <1>2, <2>1, BackendAssumption DEF NoNode
    <2>. QED BY <2>1, <2>2, <2>3
  <1>5. Registered' = Registered BY <1>1, <1>3, <1>4 DEF Registered
  <1>6. Domains' BY <1>1, <1>3 DEF ClusterInv, Domains, sideCarVars
  <1>7. Traffic'
    <2>1. \A d \in Conns : nodes'[d] \in {nodes[d], NoNode}
                           \/ (link[d] # "unused" /\ nodes'[d] \in Entries(owner[d]))
      BY <1>2, <1>3, <1>4, Zenon
    <2>2. Traffic BY DEF ClusterInv
    <2>3. requests' \in Nat /\ requests <= requests' BY <1>0, <1>1
    <2>4. UNCHANGED <<owner, sideCarVars>> BY <1>1
    <2>5. \A d \in Conns : link'[d] = link[d] /\ up'[d] = up[d] /\ down'[d] = down[d]
      BY <1>1
    <2>6. \A t \in 1 .. requests : sessions'[t] \in {sessions[t], NoHost} BY <1>1
    <2>. QED BY <1>0, <2>1, <2>2, <2>3, <2>4, <2>5, <2>6, TrafficKept
  <1>8. RequestInv' BY <1>1 DEF ClusterInv, RequestInv
  <1>9. RecordsAreReserved'
    <2>1. \A d \in Registered : nodes'[d].name = nodes[d].name /\ nodes'[d].sessions = nodes[d].sessions
      BY <1>3, <1>4, Zenon DEF Registered
    <2>. QED BY <1>1, <1>5, <2>1 DEF ClusterInv, RecordsAreReserved
  <1>10. OneEntryPerNode' BY <1>1, <1>5 DEF ClusterInv, OneEntryPerNode, Identity
  <1>11. NoRecordAfterTimeout' BY <1>1 DEF ClusterInv, NoRecordAfterTimeout
  <1>. QED BY <1>6, <1>7, <1>8, <1>9, <1>10, <1>11 DEF ClusterInv

\* A restart of the server forgets nodes, records and waiting requests.
LEMMA RestartStep ==
    ASSUME ClusterInv, BackendRestart, UNCHANGED sideCarVars
    PROVE  ClusterInv'
  <1>0. requests \in Nat /\ 1 .. requests \subseteq SessionIds
    BY BackendAssumption DEF ClusterInv, RequestInv, SessionIds
  <1>1. /\ nodes' = [c \in Conns |-> NoNode]
        /\ sessions' = [s \in SessionIds |-> NoHost]
        /\ pending' = {}
        /\ answer' = [s \in SessionIds |-> IF s \in pending THEN "lost" ELSE answer[s]]
        /\ link' = [c \in Conns |-> IF link[c] = "unused" THEN "unused" ELSE "closed"]
        /\ up' = [c \in Conns |-> << >>]
        /\ UNCHANGED <<requests, owner, down>>
    BY DEF BackendRestart
  <1>2. Domains' BY <1>1 DEF ClusterInv, Domains, sideCarVars
  <1>3. Traffic'
    <2>1. \A d \in Conns : link'[d] = "unused" <=> link[d] = "unused" BY <1>1
    <2>2. \A d \in Conns : up'[d] = << >> /\ down'[d] = down[d] /\ nodes'[d] = NoNode BY <1>1
    <2>3. \A t \in 1 .. requests : sessions'[t] \in {sessions[t], NoHost} BY <1>0, <1>1
    <2>4. requests' \in Nat /\ requests <= requests' BY <1>0, <1>1
    <2>5. Traffic BY DEF ClusterInv
    <2>6. UNCHANGED <<owner, sideCarVars>> BY <1>1
    <2>. QED BY <1>0, <2>1, <2>2, <2>3, <2>4, <2>5, <2>6, TrafficKept
  <1>4. RequestInv'
    <2>1. \A t \in SessionIds : t > requests => t \notin pending
      BY <1>0 DEF ClusterInv, RequestInv, SessionIds
    <2>. QED BY <1>0, <1>1, <2>1 DEF ClusterInv, RequestInv
  <1>5. RecordsAreReserved' BY <1>1 DEF RecordsAreReserved
  <1>6. OneEntryPerNode' BY <1>1 DEF OneEntryPerNode, Registered
  <1>7. NoRecordAfterTimeout' BY <1>1 DEF NoRecordAfterTimeout
  <1>. QED BY <1>2, <1>3, <1>4, <1>5, <1>6, <1>7 DEF ClusterInv

-----------------------------------------------------------------------------
(* The steps of the SideCars and of the network, which leave the server's   *)
(* variables alone.                                                        *)

\* What remains to be shown of such a step: each connection is left alone, or
\* used by its node, or opened.
LEMMA ClientStep ==
    ASSUME ClusterInv, UNCHANGED backendVars, Domains',
           \A c \in Conns :
              \/ /\ owner'[c] = owner[c] /\ link'[c] = link[c]
                 /\ up'[c] = up[c] /\ down'[c] = down[c]
              \/ /\ link[c] # "unused" /\ link'[c] # "unused" /\ owner'[c] = owner[c]
                 /\ up'[c] \in Seq(Messages(owner[c])) /\ down'[c] \in Seq(Known(owner[c]))
              \/ /\ link[c] = "unused" /\ link'[c] # "unused" /\ owner'[c] \in Nodes
                 /\ up'[c] = up[c] /\ down'[c] = down[c],
           \A n \in Nodes : active'[n] \in Known(n) \union {NoSession},
           \A n \in Nodes : running'[n] => /\ conn'[n] \in Conns
                                           /\ owner'[conn'[n]] = n
                                           /\ link'[conn'[n]] # "unused"
    PROVE  ClusterInv'
  <1>1. \A n : Known(n)' = Known(n) /\ Messages(n)' = Messages(n)
    <2>1. \A n : Known(n)' = Known(n) BY DEF Known, backendVars
    <2>. QED BY <2>1 DEF Messages
  <1>2. ASSUME NEW c \in Conns PROVE ConnInv(c)'
    <2>1. ConnInv(c) BY DEF ClusterInv, Traffic
    <2>2. nodes'[c] = nodes[c] BY DEF backendVars
    <2>3. CASE /\ owner'[c] = owner[c] /\ link'[c] = link[c]
               /\ up'[c] = up[c] /\ down'[c] = down[c]
      BY <1>1, <2>1, <2>2, <2>3, ZenonT(30) DEF ConnInv, Entries
    <2>4. CASE /\ link[c] # "unused" /\ link'[c] # "unused" /\ owner'[c] = owner[c]
               /\ up'[c] \in Seq(Messages(owner[c])) /\ down'[c] \in Seq(Known(owner[c]))
      BY <1>1, <2>1, <2>2, <2>4 DEF ConnInv, Entries
    <2>5. CASE /\ link[c] = "unused" /\ link'[c] # "unused" /\ owner'[c] \in Nodes
               /\ up'[c] = up[c] /\ down'[c] = down[c]
      <3>1. up'[c] = << >> /\ down'[c] = << >> /\ nodes'[c] = NoNode BY <2>1, <2>2, <2>5 DEF ConnInv
      <3>2. up'[c] \in Seq(Messages(owner'[c])) /\ down'[c] \in Seq(Known(owner'[c]))
        BY <3>1, EmptySeq
      <3>. QED BY <1>1, <2>5, <3>1, <3>2 DEF ConnInv
    <2>. QED BY <2>3, <2>4, <2>5
  <1>3. ASSUME NEW n \in Nodes PROVE NodeInv(n)' BY <1>1 DEF NodeInv
  <1>4. Registered' = Registered /\ \A c \in Registered : owner'[c] = owner[c]
    <2>1. Registered' = Registered BY DEF Registered, backendVars
    <2>. QED BY <2>1, RegisteredFacts, SMTT(30)
  <1>5. RequestInv' BY Zenon DEF ClusterInv, RequestInv, backendVars
  <1>6. RecordsAreReserved' BY <1>4, Zenon DEF ClusterInv, RecordsAreReserved, backendVars
  <1>7. OneEntryPerNode'
    <2>1. \A c \in Registered : Identity(c)' = Identity(c) BY <1>4, ZenonT(30) DEF Identity
    <2>2. \A c, d \in Registered : Identity(c) = Identity(d) => c = d
      BY DEF ClusterInv, OneEntryPerNode
    <2>3. ASSUME NEW c \in Registered', NEW d \in Registered', Identity(c)' = Identity(d)'
          PROVE  c = d
      <3>1. c \in Registered /\ d \in Registered BY <1>4
      <3>2. Identity(c) = Identity(d) BY <2>1, <2>3, <3>1, Zenon
      <3>. QED BY <2>2, <3>1, <3>2, Zenon
    <2>. QED BY <2>3 DEF OneEntryPerNode
  <1>8. NoRecordAfterTimeout' BY DEF ClusterInv, NoRecordAfterTimeout, backendVars
  <1>. QED BY <1>2, <1>3, <1>5, <1>6, <1>7, <1>8 DEF ClusterInv, Traffic

\* The network drops a connection: what is left of the traffic is a prefix.
LEMMA BreakStep ==
    ASSUME ClusterInv, NEW c \in Conns, Break(c), UNCHANGED <<backendVars, sideCarVars>>
    PROVE  ClusterInv'
  <1>1. link[c] = "up" /\ link' = [link EXCEPT ![c] = "down"] /\ UNCHANGED owner
    BY DEF Break
  <1>2. PICK k \in 0 .. Len(up[c]) : up' = [up EXCEPT ![c] = SubSeq(up[c], 1, k)]
    BY Zenon DEF Break, Prefixes
  <1>3. PICK l \in 0 .. Len(down[c]) : down' = [down EXCEPT ![c] = SubSeq(down[c], 1, l)]
    BY Zenon DEF Break, Prefixes
  <1>4. up[c] \in Seq(Messages(owner[c])) /\ down[c] \in Seq(Known(owner[c]))
    BY <1>1 DEF ClusterInv, Traffic, ConnInv
  <1>5. SubSeq(up[c], 1, k) \in Seq(Messages(owner[c]))
    BY <1>2, <1>4, QueueTypes
  <1>6. SubSeq(down[c], 1, l) \in Seq(Known(owner[c]))
    BY <1>3, <1>4, QueueTypes
  <1>7. Domains' BY <1>1, <1>2, <1>3 DEF ClusterInv, Domains, backendVars, sideCarVars
  <1>8. /\ link'[c] # "unused" /\ up'[c] = SubSeq(up[c], 1, k) /\ down'[c] = SubSeq(down[c], 1, l)
        /\ \A d \in Conns \ {c} : link'[d] = link[d] /\ up'[d] = up[d] /\ down'[d] = down[d]
    BY <1>1, <1>2, <1>3 DEF ClusterInv, Domains
  <1>9. \A n \in Nodes : active'[n] \in Known(n) \union {NoSession}
    BY DEF ClusterInv, Traffic, NodeInv, sideCarVars
  <1>10. \A n \in Nodes : running'[n] => /\ conn'[n] \in Conns /\ owner'[conn'[n]] = n
                                         /\ link'[conn'[n]] # "unused"
    BY <1>1, <1>8 DEF ClusterInv, Traffic, NodeInv, sideCarVars
  <1>. QED BY <1>1, <1>5, <1>6, <1>7, <1>8, <1>9, <1>10, ClientStep, ZenonT(30)

\* api_connect opens a connection that has no traffic and no entry yet.
LEMMA ConnectStep ==
    ASSUME ClusterInv, NEW n \in Nodes, NEW c \in Conns, api_connect(n, c),
           running' = running \/ running' = [running EXCEPT ![n] = TRUE],
           UNCHANGED <<active, up, down, backendVars>>
    PROVE  ClusterInv'
  <1>1. /\ link[c] = "unused" /\ link' = [link EXCEPT ![c] = "up"]
        /\ owner' = [owner EXCEPT ![c] = n] /\ conn' = [conn EXCEPT ![n] = c]
    BY DEF api_connect, Fresh
  <1>2. Domains' BY <1>1 DEF ClusterInv, Domains, backendVars
  <1>3. /\ link'[c] # "unused" /\ owner'[c] = n /\ conn'[n] = c
        /\ \A d \in Conns \ {c} : link'[d] = link[d] /\ owner'[d] = owner[d]
        /\ \A m \in Nodes \ {n} : conn'[m] = conn[m]
    BY <1>1 DEF ClusterInv, Domains
  <1>4. \A m \in Nodes : active'[m] \in Known(m) \union {NoSession}
    BY DEF ClusterInv, Traffic, NodeInv
  <1>5. ASSUME NEW m \in Nodes, running'[m]
        PROVE  conn'[m] \in Conns /\ owner'[conn'[m]] = m /\ link'[conn'[m]] # "unused"
    <2>1. CASE m = n BY <1>3, <2>1
    <2>2. CASE m # n
      <3>1. running[m] BY <1>5, <2>2 DEF ClusterInv, Domains
      <3>2. conn[m] \in Conns /\ owner[conn[m]] = m /\ link[conn[m]] # "unused"
        BY <3>1 DEF ClusterInv, Traffic, NodeInv
      <3>. QED BY <1>1, <1>3, <2>2, <3>2
    <2>. QED BY <2>1, <2>2
  <1>6. \A d \in Conns :
           \/ owner'[d] = owner[d] /\ link'[d] = link[d] /\ up'[d] = up[d] /\ down'[d] = down[d]
           \/ /\ link[d] = "unused" /\ link'[d] # "unused" /\ owner'[d] \in Nodes
              /\ up'[d] = up[d] /\ down'[d] = down[d]
    BY <1>1, <1>3
  <1>. QED BY <1>2, <1>4, <1>5, <1>6, ClientStep, Zenon

\* A SideCar sends messages about sessions it knows, over its own connection.
LEMMA SendStep ==
    ASSUME ClusterInv, NEW n \in Nodes, running[n], NEW msgs \in Seq(Messages(n)),
           Send(n, msgs),
           DOMAIN active' = Nodes,
           \A m \in Nodes : active'[m] \in Known(m) \union {NoSession},
           DOMAIN down' = Conns,
           \A c \in Conns : \/ down'[c] = down[c]
                            \/ c = conn[n] /\ down'[c] \in Seq(Known(n)),
           UNCHANGED <<running, conn, owner, link, backendVars>>
    PROVE  ClusterInv'
  <1>1. conn[n] \in Conns /\ owner[conn[n]] = n /\ link[conn[n]] # "unused"
    BY DEF ClusterInv, Traffic, NodeInv
  <1>2. up[conn[n]] \in Seq(Messages(n)) /\ down[conn[n]] \in Seq(Known(n))
    BY <1>1 DEF ClusterInv, Traffic, ConnInv
  <1>3. /\ DOMAIN up' = Conns /\ up'[conn[n]] \in Seq(Messages(n))
        /\ \A c \in Conns \ {conn[n]} : up'[c] = up[c]
    <2>1. up[conn[n]] \o msgs \in Seq(Messages(n)) BY <1>2, QueueTypes, ZenonT(30)
    <2>. QED BY <1>1, <1>2, <2>1, Zenon DEF Send, ClusterInv, Domains
  <1>4. Domains' BY <1>3 DEF ClusterInv, Domains, backendVars
  <1>5. \A m \in Nodes : running'[m] => /\ conn'[m] \in Conns /\ owner'[conn'[m]] = m
                                        /\ link'[conn'[m]] # "unused"
    BY DEF ClusterInv, Traffic, NodeInv
  <1>6. \A c \in Conns :
          \/ up'[c] = up[c] /\ down'[c] = down[c]
          \/ /\ link[c] # "unused" /\ up'[c] \in Seq(Messages(owner[c]))
             /\ down'[c] \in Seq(Known(owner[c]))
    BY <1>1, <1>2, <1>3
  <1>. QED BY <1>4, <1>5, <1>6, ClientStep, SMTT(30)

\* A SideCar that exits closes its connection, after a last message or none.
LEMMA ExitStep ==
    ASSUME ClusterInv, NEW n \in Nodes, running[n], NEW msgs \in Seq(Messages(n)),
           ExitAfter(n, msgs), UNCHANGED backendVars
    PROVE  ClusterInv'
  <1> DEFINE c == conn[n]
  <1>1. c \in Conns /\ owner[c] = n /\ link[c] # "unused"
    BY DEF ClusterInv, Traffic, NodeInv
  <1>2. up[c] \in Seq(Messages(n)) /\ up[c] \o msgs \in Seq(Messages(n)) /\ << >> \in Seq(Known(n))
    BY <1>1, QueueTypes, EmptySeq DEF ClusterInv, Traffic, ConnInv
  <1>3. /\ active' = [active EXCEPT ![n] = NoSession] /\ conn' = [conn EXCEPT ![n] = NoConn]
        /\ running' = [running EXCEPT ![n] = FALSE]
        /\ link' = IF link[c] = "up" THEN [link EXCEPT ![c] = "down"] ELSE link
        /\ up' = IF link[c] = "up" THEN [up EXCEPT ![c] = @ \o msgs] ELSE up
        /\ down' = [down EXCEPT ![c] = << >>] /\ owner' = owner
    BY DEF ExitAfter
  <1> HIDE DEF c
  <1>4. Domains' BY <1>3 DEF ClusterInv, Domains, backendVars
  <1>5. /\ link'[c] # "unused" /\ up'[c] \in Seq(Messages(n)) /\ down'[c] \in Seq(Known(n))
        /\ \A d \in Conns \ {c} : link'[d] = link[d] /\ up'[d] = up[d] /\ down'[d] = down[d]
    BY <1>1, <1>2, <1>3 DEF ClusterInv, Domains
  <1>6. \A m \in Nodes : active'[m] \in Known(m) \union {NoSession}
    BY <1>3, Zenon DEF ClusterInv, Domains, Traffic, NodeInv
  <1>7. ASSUME NEW m \in Nodes, running'[m]
        PROVE  conn'[m] \in Conns /\ owner'[conn'[m]] = m /\ link'[conn'[m]] # "unused"
    <2>1. m # n /\ running[m] BY <1>3, <1>7 DEF ClusterInv, Domains
    <2>2. conn[m] \in Conns /\ owner[conn[m]] = m /\ link[conn[m]] # "unused"
      BY <2>1 DEF ClusterInv, Traffic, NodeInv
    <2>. QED BY <1>1, <1>3, <1>5, <2>1, <2>2 DEF ClusterInv, Domains
  <1>. QED BY <1>1, <1>3, <1>4, <1>5, <1>6, <1>7, ClientStep, Zenon

\* The steps of a SideCar, from its boot to its exit.
LEMMA SideCarStep ==
    ASSUME ClusterInv, SideCarNext, UNCHANGED backendVars
    PROVE  ClusterInv'
  <1> SUFFICES ASSUME NEW n \in Nodes,
                      \/ Boot(n) \/ sidecar_heartbeat(n)
                      \/ \E t \in {"stop_session", "session_error"} : SessionEnds(n, t)
                      \/ sidecar_on_start_session(n)
                      \/ Reconnect(n) \/ Crash(n)
               PROVE  ClusterInv'
    BY DEF SideCarNext
  <1>0. /\ active[n] \in Known(n) \union {NoSession} /\ NoSession \notin Known(n)
        /\ \A m \in Nodes : active[m] \in Known(m) \union {NoSession}
        /\ DOMAIN active = Nodes /\ DOMAIN down = Conns
    <2>1. \A m \in Nodes : active[m] \in Known(m) \union {NoSession}
      BY DEF ClusterInv, Traffic, NodeInv
    <2>2. NoSession \notin Known(n) BY DEF Known, NoSession
    <2>. QED BY <2>1, <2>2 DEF ClusterInv, Domains
  <1>1. CASE Boot(n) BY <1>1, ConnectStep, Zenon DEF Boot
  <1>2. CASE sidecar_heartbeat(n)
    <2>1. <<heartbeat(active[n])>> \in Seq(Messages(n)) BY <1>0 DEF Messages
    <2>2. /\ running[n] /\ Send(n, <<heartbeat(active[n])>>)
          /\ UNCHANGED <<running, conn, active, owner, link, down>>
      BY <1>2 DEF sidecar_heartbeat, CanSend, sideCarVars
    <2>. QED BY <1>0, <2>1, <2>2, SendStep, Zenon
  <1>3. ASSUME NEW t \in {"stop_session", "session_error"}, SessionEnds(n, t) PROVE ClusterInv'
    <2> DEFINE msgs == <<Message(t, active[n]), heartbeat(NoSession)>>
    <2>1. /\ running[n] /\ Send(n, msgs) /\ active[n] # NoSession
          /\ active' = [active EXCEPT ![n] = NoSession]
          /\ UNCHANGED <<running, conn, owner, link, down>>
      BY <1>3 DEF SessionEnds, CanSend
    <2>2. msgs \in Seq(Messages(n)) BY <1>0, <2>1 DEF Messages
    <2> HIDE DEF msgs
    <2>. QED BY <1>0, <2>1, <2>2, SendStep
  <1>4. CASE sidecar_on_start_session(n)
    <2> DEFINE s == Head(down[conn[n]])
    <2>1. running[n] /\ down[conn[n]] # << >> BY <1>4, Zenon DEF sidecar_on_start_session, CanSend
    <2>2. conn[n] \in Conns /\ down[conn[n]] \in Seq(Known(n))
      BY <2>1 DEF ClusterInv, Traffic, NodeInv, ConnInv
    <2>3. s \in Known(n) /\ Tail(down[conn[n]]) \in Seq(Known(n))
      BY <2>1, <2>2, QueueTypes, Zenon
    <2>4. /\ <<Message("start_confirmed", s)>> \in Seq(Messages(n))
          /\ <<Message("session_error", s)>> \in Seq(Messages(n))
      BY <2>3 DEF Messages
    <2>5. CASE /\ Send(n, <<Message("start_confirmed", s)>>)
               /\ active' = [active EXCEPT ![n] = s]
               /\ down' = [down EXCEPT ![conn[n]] = Tail(@)]
               /\ UNCHANGED <<running, conn, owner, link>>
      <3>1. /\ DOMAIN active' = Nodes
            /\ \A m \in Nodes : active'[m] \in Known(m) \union {NoSession}
        BY <1>0, <2>3, <2>5
      <3>2. /\ DOMAIN down' = Conns
            /\ \A c \in Conns : \/ down'[c] = down[c]
                                \/ c = conn[n] /\ down'[c] \in Seq(Known(n))
        BY <1>0, <2>3, <2>5
      <3>. QED BY <2>1, <2>4, <2>5, <3>1, <3>2, SendStep, Zenon
    <2>6. CASE ExitAfter(n, <<Message("session_error", s)>>)
      BY <2>1, <2>4, <2>6, ExitStep
    <2>. QED BY <1>4, <2>5, <2>6 DEF sidecar_on_start_session
  <1>5. CASE Reconnect(n) BY <1>5, ConnectStep DEF Reconnect
  <1>6. CASE Crash(n) BY <1>6, ExitStep, EmptySeq, Zenon DEF Crash
  <1>. QED BY <1>1, <1>2, <1>3, <1>4, <1>5, <1>6

-----------------------------------------------------------------------------
(* Theorems. *)

\* Nothing is registered, requested or running at first.
LEMMA ClusterInit == Init => ClusterInv
  <1> SUFFICES ASSUME Init PROVE ClusterInv OBVIOUS
  <1> USE DEF Init, LinkInit, BackendInit, SideCarInit
  <1>1. Domains BY DEF Domains
  <1>2. Traffic BY DEF Traffic, ConnInv, NodeInv
  <1>3. RequestInv BY BackendAssumption DEF RequestInv
  <1>4. RecordsAreReserved /\ OneEntryPerNode /\ NoRecordAfterTimeout
    BY DEF RecordsAreReserved, OneEntryPerNode, NoRecordAfterTimeout, Registered
  <1>. QED BY <1>1, <1>2, <1>3, <1>4 DEF ClusterInv

\* Every step of the network, the server and the SideCars keeps the invariant.
LEMMA ClusterNext == ClusterInv /\ [Next]_vars => ClusterInv'
  <1> SUFFICES ASSUME ClusterInv, [Next]_vars PROVE ClusterInv' OBVIOUS
  <1>1. CASE Network BY <1>1, BreakStep DEF Network
  <1>2. CASE BackendNext /\ UNCHANGED sideCarVars
    BY <1>2, StartStep, TimeoutStep, ReceiveStep, CloseStep, AgeStep, RestartStep
       DEF BackendNext
  <1>3. CASE SideCarNext /\ UNCHANGED backendVars BY <1>3, SideCarStep
  <1>4. CASE UNCHANGED vars
    <2>1. UNCHANGED backendVars /\ UNCHANGED <<owner, link, up, down, running, conn, active>>
      BY <1>4 DEF vars, linkVars, sideCarVars
    <2>2. Domains' BY <2>1, Zenon DEF ClusterInv, Domains, backendVars
    <2>3. \A n \in Nodes : active'[n] \in Known(n) \union {NoSession}
      BY <2>1, Zenon DEF ClusterInv, Traffic, NodeInv
    <2>4. \A n \in Nodes : running'[n] => /\ conn'[n] \in Conns /\ owner'[conn'[n]] = n
                                          /\ link'[conn'[n]] # "unused"
      BY <2>1 DEF ClusterInv, Traffic, NodeInv
    <2>. QED BY <2>1, <2>2, <2>3, <2>4, ClientStep, Zenon
  <1>. QED BY <1>1, <1>2, <1>3, <1>4 DEF Next

\* What the entries, the records, the answers and the traffic of the cluster
\* always satisfy, in every behaviour of any cluster.
THEOREM ClusterInvariant == Spec => []ClusterInv
  BY ClusterInit, ClusterNext, PTL DEF Spec

\* A session the server lists is one that a registered node is reserved for
\* (node.ts:57, node.ts:84, send.ts:62).
THEOREM RecordsReserved == Spec => []RecordsAreReserved
  <1>1. ClusterInv => RecordsAreReserved BY DEF ClusterInv
  <1>. QED BY <1>1, ClusterInvariant, PTL

\* One machine never has two entries in the map of nodes (node.ts:106).
THEOREM EntriesUnique == Spec => []OneEntryPerNode
  <1>1. ClusterInv => OneEntryPerNode BY DEF ClusterInv
  <1>. QED BY <1>1, ClusterInvariant, PTL

\* A request that was answered 503, or that a restart lost, leaves no record
\* behind (send.ts:73-81, send.ts:93).
THEOREM TimeoutLeavesNothing == Spec => []NoRecordAfterTimeout
  <1>1. ClusterInv => NoRecordAfterTimeout BY DEF ClusterInv
  <1>. QED BY <1>1, ClusterInvariant, PTL

\* A play request gets one answer: an answer is given only to a request that
\* waits, and a request that waits has none (send.ts:75, send.ts:102).
THEOREM AnswersFinal == Spec => AnsweredOnce
  <1>1. ClusterInv /\ [Next]_vars =>
           [\A s \in SessionIds : answer[s] # "none" => answer'[s] = answer[s]]_vars
    <2> SUFFICES ASSUME ClusterInv, Next, NEW s \in SessionIds, answer[s] # "none"
                 PROVE  answer'[s] = answer[s]
      OBVIOUS
    <2>0. s \notin pending /\ s # requests + 1
      <3>1. s \notin pending BY Zenon DEF ClusterInv, RequestInv
      <3>2. s # requests + 1 BY BackendAssumption DEF ClusterInv, RequestInv
      <3>. QED BY <3>1, <3>2
    <2>1. CASE UNCHANGED backendVars BY <2>1 DEF backendVars
    <2>2. CASE BackendNext
      <3>1. ASSUME NEW g \in Games, startGameSession(g) PROVE answer'[s] = answer[s]
        BY <2>0, <3>1, Zenon DEF startGameSession, ClusterInv, Domains
      <3>2. ASSUME NEW r \in SessionIds, StartTimeout(r) PROVE answer'[s] = answer[s]
        BY <2>0, <3>2 DEF StartTimeout, ClusterInv, Domains
      <3>3. ASSUME NEW c \in Conns, BackendReceive(c) PROVE answer'[s] = answer[s]
        BY <2>0, <3>3, Zenon DEF BackendReceive, handleMessage, resolveStart, ClusterInv, Domains
      <3>4. ASSUME NEW c \in Conns, BackendClose(c) \/ HeartbeatAges(c) PROVE answer'[s] = answer[s]
        BY <3>4 DEF BackendClose, HeartbeatAges
      <3>5. CASE BackendRestart BY <2>0, <3>5 DEF BackendRestart
      <3>. QED BY <2>2, <3>1, <3>2, <3>3, <3>4, <3>5 DEF BackendNext
    <2>. QED BY <2>1, <2>2 DEF Next, Network
  <1>. QED BY <1>1, ClusterInvariant, PTL DEF Spec, AnsweredOnce

\* The body of LostOnlyByOwner: the record of s is lost by its own request, or
\* by what happened on a connection of the machine it is recorded for.
LostByOwner(s) ==
    sessions[s] # NoHost /\ sessions'[s] = NoHost =>
        \/ answer'[s] # answer[s]
        \/ \E c \in Conns : /\ link[c] # "unused"
                            /\ Host[owner[c]] = sessions[s]
                            /\ up'[c] # up[c] \/ nodes'[c] # nodes[c]

\* Deleting entries loses records of their hosts only.
LEMMA LostWithEntry ==
    ASSUME ClusterInv, NEW gone \in SUBSET Registered, NEW s \in SessionIds,
           sessions[s] # NoHost, SessionsWithout(gone)[s] = NoHost,
           \A c \in gone : nodes'[c] = NoNode \/ up'[c] # up[c]
    PROVE  LostByOwner(s)
  <1>1. PICK c \in gone : Host[owner[c]] = sessions[s] BY WithoutFacts
  <1>2. c \in Conns /\ link[c] # "unused" /\ nodes[c] # NoNode
    BY RegisteredFacts DEF Registered
  <1>. QED BY <1>1, <1>2 DEF LostByOwner

\* A session's record disappears through its own request, or because of what
\* happened on a connection of the machine it is recorded for (sessions.ts:31,
\* sessions.ts:40): the messages of a node name no other node's session.
THEOREM RecordsLostByOwner == Spec => LostOnlyByOwner
  <1>1. ClusterInv /\ [Next]_vars => [\A s \in SessionIds : LostByOwner(s)]_vars
    <2> SUFFICES ASSUME ClusterInv, Next, NEW s \in SessionIds,
                        sessions[s] # NoHost, sessions'[s] = NoHost
                 PROVE  LostByOwner(s)
      BY DEF LostByOwner
    <2>0. s # requests + 1 BY BackendAssumption DEF ClusterInv, RequestInv
    <2>1. CASE UNCHANGED backendVars BY <2>1 DEF backendVars
    <2>2. CASE BackendNext
      <3>1. ASSUME NEW g \in Games, startGameSession(g) PROVE LostByOwner(s)
        <4>1. CASE Free(g) = {}
          <5>1. Stale \in SUBSET Registered BY DEF Stale
          <5>2. SessionsWithout(Stale)[s] = NoHost /\ nodes' = NodesWithout(Stale)
            BY <3>1, <4>1 DEF startGameSession
          <5>3. \A c \in Stale : nodes'[c] = NoNode
            BY <5>1, <5>2 DEF NodesWithout, Registered
          <5>. QED BY <5>1, <5>2, <5>3, LostWithEntry
        <4>2. ASSUME NEW k \in Free(g), NEW gone,
                     gone = {order[j] : j \in 1 .. k - 1} \intersect Stale,
                     nodes' = [NodesWithout(gone) EXCEPT ![order[k]].sessions = {requests + 1}],
                     sessions' = createSession(SessionsWithout(gone), requests + 1,
                                               Host[owner[order[k]]])
              PROVE  LostByOwner(s)
          <5>1. gone \in SUBSET Registered /\ order[k] \notin gone BY <4>2 DEF Stale, Free
          <5>2. SessionsWithout(gone)[s] = NoHost
            <6>1. DOMAIN SessionsWithout(gone) = SessionIds BY <5>1, WithoutFacts
            <6>. QED BY <2>0, <4>2, <6>1 DEF createSession
          <5>3. \A c \in gone : nodes'[c] = NoNode
            BY <4>2, <5>1 DEF NodesWithout, Registered
          <5>. QED BY <5>1, <5>2, <5>3, LostWithEntry
        <4>. QED BY <3>1, <4>1, <4>2, Zenon DEF startGameSession
      <3>2. ASSUME NEW r \in SessionIds, StartTimeout(r) PROVE LostByOwner(s)
        <4>1. r = s /\ answer[s] = "none"
          BY <3>2 DEF StartTimeout, deleteSession, ClusterInv, Domains, RequestInv
        <4>2. answer'[s] = "unavailable" BY <3>2, <4>1 DEF StartTimeout, ClusterInv, Domains
        <4>. QED BY <4>1, <4>2 DEF LostByOwner
      <3>3. ASSUME NEW c \in Conns, BackendReceive(c) PROVE LostByOwner(s)
        <4>1. /\ up[c] # << >> /\ link[c] # "unused" /\ up'[c] # up[c]
          BY <3>3, HeadFacts DEF BackendReceive, ClusterInv, Domains
        <4>2. CASE Head(up[c]).type = "heartbeat"
          <5> DEFINE host == Host[owner[c]]
          <5>1. PICK cleared \in {{}, Stale} :
                  LET gone == cleared \union deleteDuplicateNodes(c, Registered \ cleared)
                  IN  /\ nodes' = [NodesWithout(gone) EXCEPT ![c] =
                              [name |-> host, stale |-> FALSE, sessions |-> Head(up[c]).sessions]]
                      /\ sessions' = pruneNodeSessions(SessionsWithout(gone), host, Head(up[c]).sessions)
            BY <3>3, <4>2, Zenon DEF BackendReceive, handleMessage, updateHeartbeat
          <5> DEFINE gone == cleared \union deleteDuplicateNodes(c, Registered \ cleared)
          <5>2. gone \in SUBSET Registered BY DEF deleteDuplicateNodes, Stale
          <5>3. \A d \in gone : d # c => nodes'[d] = NoNode
            BY <5>1, <5>2, ZenonT(30) DEF NodesWithout, Registered
          <5>4. SessionsWithout(gone)[s] = NoHost \/ SessionsWithout(gone)[s] = host
            BY <5>1 DEF pruneNodeSessions
          <5> HIDE DEF gone, host
          <5>5. CASE SessionsWithout(gone)[s] = NoHost
            BY <4>1, <5>2, <5>3, <5>5, LostWithEntry, SMTT(30)
          <5>6. CASE SessionsWithout(gone)[s] # NoHost
            <6>1. sessions[s] = host BY <5>2, <5>4, <5>6, WithoutFacts, SMTT(30)
            <6>. QED BY <4>1, <6>1, SMTT(30) DEF LostByOwner, host
          <5>. QED BY <5>5, <5>6
        <4>3. CASE Head(up[c]).type # "heartbeat"
          <5>1. s = Head(up[c]).session
            BY <3>3, <4>3 DEF BackendReceive, handleMessage, deleteSession, ClusterInv, Domains
          <5>2. sessions[s] = Host[owner[c]] BY <4>1, <4>3, <5>1, HeadFacts
          <5>. QED BY <4>1, <5>2 DEF LostByOwner
        <4>. QED BY <4>2, <4>3, SMTT(30)
      <3>4. ASSUME NEW c \in Conns, BackendClose(c) PROVE LostByOwner(s)
        <4> DEFINE gone == {c} \intersect Registered
        <4>1. gone \in SUBSET Registered /\ \A d \in gone : nodes'[d] = NoNode
          BY <3>4 DEF BackendClose, deleteNode, NodesWithout
        <4>2. SessionsWithout(gone)[s] = NoHost BY <3>4 DEF BackendClose, deleteNode
        <4> HIDE DEF gone
        <4>. QED BY <4>1, <4>2, LostWithEntry
      <3>5. ASSUME NEW c \in Conns, HeartbeatAges(c) PROVE LostByOwner(s)
        BY <3>5 DEF HeartbeatAges
      <3>6. CASE BackendRestart
        <4>1. PICK c \in Registered : nodes[c].name = sessions[s]
          BY DEF ClusterInv, RecordsAreReserved
        <4>2. /\ c \in Conns /\ link[c] # "unused" /\ Host[owner[c]] = sessions[s]
              /\ nodes[c] # NoNode
          BY <4>1, RegisteredFacts DEF Registered
        <4>3. nodes'[c] = NoNode BY <3>6, <4>2 DEF BackendRestart
        <4>. QED BY <4>2, <4>3 DEF LostByOwner
      <3>. QED BY <2>2, <3>1, <3>2, <3>3, <3>4, <3>5, <3>6, Zenon DEF BackendNext
    <2>. QED BY <2>1, <2>2 DEF Next, Network
  <1>. QED BY <1>1, ClusterInvariant, PTL DEF Spec, LostOnlyByOwner, LostByOwner

-----------------------------------------------------------------------------
(* The order of the map. *)

\* A set of numbers that is not empty has a least one.
LEMMA LeastNumber ==
    ASSUME NEW T \in SUBSET Nat, T # {}
    PROVE  \E x \in T : \A y \in T : x <= y
  <1>1. IsWellFoundedOn(OpToRel(<, Nat), Nat) BY NatLessThanWellFounded, Zenon
  <1>2. PICK x \in T : \A y \in T : ~(<<y, x>> \in OpToRel(<, Nat)) BY <1>1, WFMin, Zenon
  <1>3. ASSUME NEW y \in T PROVE x <= y
    <2>1. ~(<<y, x>> \in OpToRel(<, Nat)) BY <1>2, Zenon
    <2>2. ~(y < x) BY <2>1 DEF OpToRel
    <2>. QED BY <2>2
  <1>. QED BY <1>3

\* s lists the connections in S, each once.
Lists(s, S) ==
    /\ s \in Seq(Conns)
    /\ \A c : c \in S <=> \E k \in 1 .. Len(s) : s[k] = c
    /\ \A j, k \in 1 .. Len(s) : s[j] = s[k] => j = k

\* A connection that is not in the map comes last (Map.set).
LEMMA ListsAppend ==
    ASSUME NEW S, NEW s, Lists(s, S), NEW c \in Conns, c \notin S
    PROVE  Lists(Append(s, c), S \union {c})
  <1> DEFINE t == Append(s, c)
  <1>1. /\ Len(s) \in Nat /\ t \in Seq(Conns) /\ Len(t) = Len(s) + 1
        /\ t[Len(s) + 1] = c /\ \A k \in 1 .. Len(s) : t[k] = s[k]
    BY DEF Lists
  <1> HIDE DEF t
  <1>2. \A k : k \in 1 .. Len(t) <=> k \in 1 .. Len(s) \/ k = Len(s) + 1 BY <1>1
  <1>3. \A d : d \in S <=> \E k \in 1 .. Len(s) : s[k] = d BY DEF Lists
  <1>4. \A d : d \in S \union {c} <=> \E k \in 1 .. Len(t) : t[k] = d
    BY <1>1, <1>2, <1>3
  <1>5. \A k \in 1 .. Len(s) : s[k] # c BY <1>3
  <1>6. ASSUME NEW j \in 1 .. Len(t), NEW k \in 1 .. Len(t), t[j] = t[k] PROVE j = k
    BY <1>1, <1>2, <1>5, <1>6 DEF Lists
  <1>7. Lists(t, S \union {c}) BY <1>1, <1>4, <1>6 DEF Lists
  <1>. QED BY <1>7 DEF t

\* One step of a deletion: f[k] holds what is left of the first k entries of s.
Left(f, s, gone, k) ==
    IF k = 0 THEN << >> ELSE IF s[k] \in gone THEN f[k - 1] ELSE Append(f[k - 1], s[k])
Leaves(f, s, gone, n) == f = [k \in 0 .. n |-> Left(f, s, gone, k)]

\* There is such a function for every n.
LEMMA LeavesExists ==
    ASSUME NEW s, NEW gone, NEW n \in Nat
    PROVE  \E f : Leaves(f, s, gone, n)
  <1> DEFINE T == {m \in Nat : ~\E f : Leaves(f, s, gone, m)}
  <1> SUFFICES ASSUME T # {} PROVE FALSE OBVIOUS
  <1>1. PICK m \in T : \A y \in T : m <= y BY LeastNumber, Zenon
  <1>2. m \in Nat /\ ~\E f : Leaves(f, s, gone, m) OBVIOUS
  <1>3. m # 0
    <2> DEFINE f == [k \in 0 .. 0 |-> << >>]
    <2>1. f = [k \in 0 .. 0 |-> Left(f, s, gone, k)] BY DEF Left
    <2>2. Leaves(f, s, gone, 0) BY <2>1 DEF Leaves
    <2>. QED BY <1>2, <2>2
  <1>4. m - 1 \in Nat /\ m - 1 \notin T BY <1>1, <1>2, <1>3
  <1>5. PICK f : Leaves(f, s, gone, m - 1) BY <1>4
  <1> DEFINE g == [k \in 0 .. m |-> Left(f, s, gone, k)]
  <1>6. \A k \in 0 .. m - 1 : g[k] = f[k]
    <2>1. \A k \in 0 .. m - 1 : f[k] = Left(f, s, gone, k) BY <1>5, Zenon DEF Leaves
    <2>2. \A k \in 0 .. m - 1 : k \in 0 .. m BY <1>2
    <2>. QED BY <2>1, <2>2, Zenon
  <1>7. \A k \in 0 .. m : Left(f, s, gone, k) = Left(g, s, gone, k)
    <2>1. \A k \in 0 .. m : k # 0 => k - 1 \in 0 .. m - 1 BY <1>2
    <2> HIDE DEF g
    <2>. QED BY <1>6, <2>1 DEF Left
  <1>8. Leaves(g, s, gone, m) BY <1>7 DEF Leaves
  <1>. QED BY <1>2, <1>8

\* The first k connections of a list that are not gone.
First(s, k, gone) == {s[j] : j \in 1 .. k} \ gone

\* The next entry is left out, or comes last.
LEMMA FirstNext ==
    ASSUME NEW s, NEW S, Lists(s, S), NEW gone, NEW k \in 1 .. Len(s),
           NEW v, Lists(v, First(s, k - 1, gone))
    PROVE  Lists(IF s[k] \in gone THEN v ELSE Append(v, s[k]), First(s, k, gone))
  <1>1. Len(s) \in Nat /\ s[k] \in Conns BY DEF Lists
  <1>2. \A j : j \in 1 .. k <=> j \in 1 .. k - 1 \/ j = k BY <1>1
  <1>3. {s[j] : j \in 1 .. k} = {s[j] : j \in 1 .. k - 1} \union {s[k]} BY <1>2, Zenon
  <1>4. CASE s[k] \in gone
    <2>1. First(s, k, gone) = First(s, k - 1, gone) BY <1>3, <1>4 DEF First
    <2>. QED BY <1>4, <2>1
  <1>5. CASE s[k] \notin gone
    <2>1. First(s, k, gone) = First(s, k - 1, gone) \union {s[k]} BY <1>3, <1>5 DEF First
    <2>2. \A j \in 1 .. k - 1 : j \in 1 .. Len(s) /\ j # k BY <1>1
    <2>3. \A j \in 1 .. k - 1 : s[j] # s[k] BY <2>2 DEF Lists
    <2>4. s[k] \notin First(s, k - 1, gone) BY <2>3, Zenon DEF First
    <2>5. Lists(Append(v, s[k]), First(s, k - 1, gone) \union {s[k]})
      BY <1>1, <2>4, ListsAppend
    <2>. QED BY <1>5, <2>1, <2>5
  <1>. QED BY <1>4, <1>5

\* deleteNode: the map without the entries in gone lists the others.
LEMMA OrderWithoutLists ==
    ASSUME Lists(order, Registered), NEW gone
    PROVE  Lists(OrderWithout(gone), Registered \ gone)
  <1> DEFINE n == Len(order)
  <1>1. n \in Nat BY DEF Lists
  <1> DEFINE f == CHOOSE g : g = [k \in 0 .. Len(order) |->
                     IF k = 0 THEN << >>
                     ELSE IF order[k] \in gone THEN g[k - 1]
                     ELSE Append(g[k - 1], order[k])]
  <1>2. OrderWithout(gone) = f[n] BY DEF OrderWithout
  <1>3. Leaves(f, order, gone, n)
    <2>1. \E g : Leaves(g, order, gone, n) BY <1>1, LeavesExists
    <2>2. \E g : g = [k \in 0 .. Len(order) |->
                     IF k = 0 THEN << >>
                     ELSE IF order[k] \in gone THEN g[k - 1]
                     ELSE Append(g[k - 1], order[k])]
      BY <2>1, Zenon DEF Leaves, Left
    <2>3. f = [k \in 0 .. Len(order) |->
                     IF k = 0 THEN << >>
                     ELSE IF order[k] \in gone THEN f[k - 1]
                     ELSE Append(f[k - 1], order[k])]
      BY <2>2, Zenon
    <2>. QED BY <2>3, Zenon DEF Leaves, Left
  <1> HIDE DEF f
  <1> DEFINE T == {k \in 0 .. n : ~Lists(f[k], First(order, k, gone))}
  <1>4. T = {}
    <2> SUFFICES ASSUME T # {} PROVE FALSE OBVIOUS
    <2>1. T \in SUBSET Nat OBVIOUS
    <2>2. PICK k \in T : \A y \in T : k <= y BY <2>1, LeastNumber, Zenon
    <2>3. k \in 0 .. n /\ ~Lists(f[k], First(order, k, gone)) OBVIOUS
    <2>4. f[k] = Left(f, order, gone, k) BY <1>3, <2>3, Zenon DEF Leaves
    <2>5. ASSUME k = 0 PROVE FALSE
      <3>1. f[k] = << >> BY <2>4, <2>5 DEF Left
      <3>2. First(order, k, gone) = {} BY <2>5 DEF First
      <3>3. << >> \in Seq(Conns) /\ 1 .. Len(<< >>) = {} OBVIOUS
      <3>4. Lists(<< >>, {}) BY <3>3 DEF Lists
      <3>. QED BY <2>3, <3>1, <3>2, <3>4
    <2>6. k \in 1 .. n /\ k - 1 \in 0 .. n /\ ~(k <= k - 1) BY <1>1, <2>3, <2>5
    <2>7. Lists(f[k - 1], First(order, k - 1, gone)) BY <2>2, <2>6
    <2>8. f[k] = IF order[k] \in gone THEN f[k - 1] ELSE Append(f[k - 1], order[k])
      BY <2>4, <2>5 DEF Left
    <2> HIDE DEF T
    <2>. QED BY <2>3, <2>6, <2>7, <2>8, FirstNext
  <1>5. Lists(f[n], First(order, n, gone)) BY <1>1, <1>4
  <1>6. First(order, n, gone) = Registered \ gone
    <2>1. \A c : c \in Registered <=> \E k \in 1 .. n : order[k] = c BY DEF Lists
    <2>2. {order[j] : j \in 1 .. n} = Registered BY <2>1
    <2>. QED BY <2>2 DEF First
  <1>. QED BY <1>2, <1>5, <1>6

\* The order of the map lists its entries, each once.
OrderInv == Lists(order, Registered)

\* A play request deletes stale entries and reserves one that stays.
LEMMA OrderStart ==
    ASSUME ClusterInv, OrderInv, NEW g \in Games, startGameSession(g)
    PROVE  OrderInv'
  <1>1. CASE Free(g) = {}
    <2>1. nodes' = NodesWithout(Stale) /\ order' = OrderWithout(Stale)
      BY <1>1 DEF startGameSession
    <2>2. Registered' = Registered \ Stale
      BY <2>1 DEF Registered, NodesWithout
    <2>. QED BY <2>1, <2>2, OrderWithoutLists DEF OrderInv
  <1>2. ASSUME NEW k \in Free(g), NEW gone,
               gone = {order[j] : j \in 1 .. k - 1} \intersect Stale,
               nodes' = [NodesWithout(gone) EXCEPT ![order[k]].sessions = {requests + 1}],
               order' = OrderWithout(gone)
        PROVE  OrderInv'
    <2> DEFINE c == order[k]
    <2>1. c \in Registered /\ c \in Conns /\ c \notin gone BY <1>2 DEF Free, Stale, Registered
    <2>2. /\ \A d \in Conns \ {c} : nodes'[d] = NodesWithout(gone)[d]
          /\ nodes'[c].sessions = {requests + 1}
      <3>1. DOMAIN NodesWithout(gone) = Conns BY DEF NodesWithout
      <3>2. nodes'[c] = [nodes[c] EXCEPT !.sessions = {requests + 1}]
        BY <1>2, <2>1, <3>1, Zenon DEF NodesWithout
      <3>3. nodes[c] \in Entries(owner[c]) BY <2>1, RegisteredFacts
      <3>4. nodes'[c].sessions = {requests + 1} BY <3>2, <3>3, SMTT(30) DEF Entries
      <3>. QED BY <1>2, <3>1, <3>4
    <2>3. nodes'[c] # NoNode BY <2>2 DEF NoNode
    <2> HIDE DEF c
    <2>4. Registered' = Registered \ gone
      BY <2>1, <2>2, <2>3 DEF Registered, NodesWithout
    <2>. QED BY <1>2, <2>4, OrderWithoutLists DEF OrderInv
  <1>. QED BY <1>1, <1>2, Zenon DEF startGameSession

\* A heartbeat deletes entries, and inserts its connection if it has none.
LEMMA OrderHeartbeat ==
    ASSUME ClusterInv, OrderInv, NEW c \in Conns, link[c] # "unused", NEW listed,
           updateHeartbeat(c, listed)
    PROVE  OrderInv'
  <1> DEFINE host == Host[owner[c]]
  <1>1. PICK cleared \in {{}, Stale} :
          LET gone == cleared \union deleteDuplicateNodes(c, Registered \ cleared)
          IN  /\ nodes' = [NodesWithout(gone) EXCEPT ![c] =
                              [name |-> host, stale |-> FALSE, sessions |-> listed]]
              /\ order' = IF c \in Registered \ gone THEN OrderWithout(gone)
                          ELSE Append(OrderWithout(gone), c)
    BY Zenon DEF updateHeartbeat
  <1> DEFINE gone == cleared \union deleteDuplicateNodes(c, Registered \ cleared)
             left == Registered \ gone
  <1>2. /\ nodes' = [NodesWithout(gone) EXCEPT ![c] =
                        [name |-> host, stale |-> FALSE, sessions |-> listed]]
        /\ order' = IF c \in left THEN OrderWithout(gone) ELSE Append(OrderWithout(gone), c)
    BY <1>1, Zenon
  <1> HIDE DEF gone
  <1>3. Lists(OrderWithout(gone), left) BY OrderWithoutLists DEF OrderInv
  <1>4. host # NoHost BY BackendAssumption DEF ClusterInv, Traffic, ConnInv
  <1>5. nodes'[c] # NoNode /\ \A d \in Conns \ {c} : nodes'[d] = NodesWithout(gone)[d]
    BY <1>2, <1>4, Zenon DEF NoNode, NodesWithout
  <1>6. Registered' = left \union {c} BY <1>5, Zenon DEF Registered, NodesWithout
  <1> HIDE DEF left
  <1>7. CASE c \in left
    <2>1. Registered' = left BY <1>6, <1>7
    <2>. QED BY <1>2, <1>3, <1>7, <2>1 DEF OrderInv
  <1>8. CASE c \notin left
    BY <1>2, <1>3, <1>6, <1>8, ListsAppend, Zenon DEF OrderInv
  <1>. QED BY <1>7, <1>8

\* Every step keeps the order in line with the entries.
LEMMA OrderNext ==
    ASSUME ClusterInv, OrderInv, [Next]_vars
    PROVE  OrderInv'
  <1>1. CASE UNCHANGED <<nodes, order>>
    BY <1>1 DEF OrderInv, Registered
  <1>2. ASSUME NEW g \in Games, startGameSession(g) PROVE OrderInv'
    BY <1>2, OrderStart
  <1>3. ASSUME NEW s \in SessionIds, StartTimeout(s) PROVE OrderInv'
    BY <1>1, <1>3 DEF StartTimeout
  <1>4. ASSUME NEW c \in Conns, BackendReceive(c) PROVE OrderInv'
    <2>1. link[c] # "unused" BY <1>4, HeadFacts DEF BackendReceive
    <2>2. CASE updateHeartbeat(c, Head(up[c]).sessions) BY <2>1, <2>2, OrderHeartbeat
    <2>. QED BY <1>1, <1>4, <2>2 DEF BackendReceive, handleMessage
  <1>5. ASSUME NEW c \in Conns, BackendClose(c) PROVE OrderInv'
    <2> DEFINE gone == {c} \intersect Registered
    <2>1. nodes' = NodesWithout(gone) /\ order' = OrderWithout(gone)
      BY <1>5 DEF BackendClose, deleteNode
    <2> HIDE DEF gone
    <2>2. Registered' = Registered \ gone BY <2>1 DEF Registered, NodesWithout
    <2>. QED BY <2>1, <2>2, OrderWithoutLists DEF OrderInv
  <1>6. ASSUME NEW c \in Conns, HeartbeatAges(c) PROVE OrderInv'
    <2>1. c \in Registered /\ nodes' = [nodes EXCEPT ![c].stale = TRUE] /\ order' = order
      BY <1>6 DEF HeartbeatAges
    <2>2. nodes[c] \in Entries(owner[c]) BY <2>1, RegisteredFacts
    <2>3. nodes'[c].stale = TRUE /\ \A d \in Conns \ {c} : nodes'[d] = nodes[d]
      BY <2>1, <2>2 DEF Entries, ClusterInv, Domains
    <2>4. nodes'[c] # NoNode BY <2>3 DEF NoNode
    <2>5. Registered' = Registered BY <2>1, <2>3, <2>4 DEF Registered
    <2>. QED BY <2>1, <2>5 DEF OrderInv
  <1>7. CASE BackendRestart
    <2>1. order' = << >> /\ Registered' = {} BY <1>7 DEF BackendRestart, Registered
    <2>2. << >> \in Seq(Conns) /\ 1 .. Len(<< >>) = {} OBVIOUS
    <2>. QED BY <2>1, <2>2 DEF OrderInv, Lists
  <1>8. CASE BackendNext
    BY <1>2, <1>3, <1>4, <1>5, <1>6, <1>7, <1>8 DEF BackendNext
  <1>. QED BY <1>1, <1>8 DEF Next, Network, backendVars, vars

\* What the connections, the answers and the SideCars may be.
Answers == {"none", "created", "created without ip", "unavailable", "lost"}
LinkValues(c) ==
    owner[c] \in Nodes \union {Nobody} /\ link[c] \in {"unused", "up", "down", "closed"}
NodeValues(n) ==
    /\ running[n] \in BOOLEAN /\ (running[n] <=> conn[n] # NoConn)
    /\ orphaned[n] \in SUBSET SessionIds
ValuesInv ==
    /\ DOMAIN orphaned = Nodes
    /\ \A c \in Conns : LinkValues(c)
    /\ \A s \in SessionIds : answer[s] \in Answers
    /\ \A n \in Nodes : NodeValues(n)

\* The server answers requests and closes connections.
LEMMA ValuesBackend ==
    ASSUME ClusterInv, ValuesInv, BackendNext, UNCHANGED sideCarVars
    PROVE  ValuesInv'
  <1>1. DOMAIN orphaned' = Nodes /\ \A n \in Nodes : NodeValues(n)'
    BY DEF sideCarVars, ValuesInv, NodeValues
  <1>2. /\ DOMAIN answer = SessionIds /\ DOMAIN link = Conns
        /\ \A s \in SessionIds : answer[s] \in Answers
        /\ \A c \in Conns : LinkValues(c)
    BY DEF ClusterInv, Domains, ValuesInv
  <1> SUFFICES (\A s \in SessionIds : answer'[s] \in Answers) /\ (\A c \in Conns : LinkValues(c)')
    BY <1>1, Zenon DEF ValuesInv
  <1>3. ASSUME NEW g \in Games, startGameSession(g)
        PROVE  (\A s \in SessionIds : answer'[s] \in Answers) /\ (\A c \in Conns : LinkValues(c)')
    BY <1>2, <1>3, Zenon DEF startGameSession, Answers, LinkValues
  <1>4. ASSUME NEW r \in SessionIds, StartTimeout(r)
        PROVE  (\A s \in SessionIds : answer'[s] \in Answers) /\ (\A c \in Conns : LinkValues(c)')
    BY <1>2, <1>4, Zenon DEF StartTimeout, Answers, LinkValues, linkVars
  <1>5. ASSUME NEW d \in Conns, BackendReceive(d)
        PROVE  (\A s \in SessionIds : answer'[s] \in Answers) /\ (\A c \in Conns : LinkValues(c)')
    BY <1>2, <1>5, Zenon DEF BackendReceive, handleMessage, resolveStart, Answers, LinkValues
  <1>6. ASSUME NEW d \in Conns, BackendClose(d) \/ HeartbeatAges(d)
        PROVE  (\A s \in SessionIds : answer'[s] \in Answers) /\ (\A c \in Conns : LinkValues(c)')
    BY <1>2, <1>6 DEF BackendClose, HeartbeatAges, LinkValues, linkVars
  <1>7. CASE BackendRestart
    BY <1>2, <1>7, Zenon DEF BackendRestart, Answers, LinkValues
  <1>. QED BY <1>3, <1>4, <1>5, <1>6, <1>7 DEF BackendNext

\* A SideCar that exits has no connection; one that boots or reconnects has a
\* new one.
LEMMA ValuesSideCar ==
    ASSUME ClusterInv, ValuesInv, SideCarNext, UNCHANGED backendVars
    PROVE  ValuesInv'
  <1>0. /\ DOMAIN link = Conns /\ DOMAIN owner = Conns /\ DOMAIN running = Nodes
        /\ DOMAIN conn = Nodes /\ DOMAIN orphaned = Nodes
        /\ \A s \in SessionIds : answer'[s] \in Answers
        /\ \A c \in Conns : LinkValues(c)
        /\ \A n \in Nodes : NodeValues(n)
    BY SMTT(30) DEF ClusterInv, Domains, ValuesInv, backendVars
  <1> SUFFICES /\ DOMAIN orphaned' = Nodes
               /\ \A c \in Conns : LinkValues(c)'
               /\ \A n \in Nodes : NodeValues(n)'
    BY <1>0 DEF ValuesInv
  <1>1. PICK n \in Nodes :
          \/ Boot(n) \/ sidecar_heartbeat(n)
          \/ \E t \in {"stop_session", "session_error"} : SessionEnds(n, t)
          \/ sidecar_on_start_session(n)
          \/ Reconnect(n) \/ Crash(n)
    BY DEF SideCarNext
  <1>2. ASSUME NEW msgs, ExitAfter(n, msgs)
        PROVE  /\ DOMAIN orphaned' = Nodes
               /\ \A c \in Conns : LinkValues(c)'
               /\ \A m \in Nodes : NodeValues(m)'
    BY <1>0, <1>2, Zenon DEF ExitAfter, LinkValues, NodeValues
  <1>3. ASSUME NEW c \in Conns, api_connect(n, c), UNCHANGED orphaned,
               running'[n] = TRUE, \A m \in Nodes \ {n} : running'[m] = running[m]
        PROVE  /\ DOMAIN orphaned' = Nodes
               /\ \A d \in Conns : LinkValues(d)'
               /\ \A m \in Nodes : NodeValues(m)'
    <2>1. c # NoConn BY ConnsAssumption DEF NoConn
    <2>. QED BY <1>0, <1>3, <2>1, Zenon DEF api_connect, LinkValues, NodeValues
  <1>4. ASSUME UNCHANGED <<running, conn, orphaned, owner, link>>
        PROVE  /\ DOMAIN orphaned' = Nodes
               /\ \A c \in Conns : LinkValues(c)'
               /\ \A m \in Nodes : NodeValues(m)'
    BY <1>0, <1>4, SMTT(30) DEF LinkValues, NodeValues
  <1>5. CASE Boot(n) BY <1>0, <1>3, <1>5 DEF Boot
  <1>6. CASE sidecar_heartbeat(n) BY <1>4, <1>6, Zenon DEF sidecar_heartbeat, sideCarVars
  <1>7. CASE \E t \in {"stop_session", "session_error"} : SessionEnds(n, t)
    BY <1>4, <1>7 DEF SessionEnds
  <1>8. CASE sidecar_on_start_session(n)
    <2>1. CASE ExitAfter(n, <<Message("session_error", Head(down[conn[n]]))>>)
      BY <1>2, <2>1
    <2>2. CASE /\ orphaned' = [orphaned EXCEPT ![n] = @ \union ({active[n]} \ {NoSession})]
               /\ UNCHANGED <<running, conn, owner, link>>
      <3>1. requests \in Nat /\ 1 .. requests \subseteq SessionIds
        BY BackendAssumption DEF ClusterInv, RequestInv, SessionIds
      <3>2. {active[n]} \ {NoSession} \in SUBSET SessionIds
        BY <3>1 DEF ClusterInv, Traffic, NodeInv, Known
      <3>. QED BY <1>0, <2>2, <3>2 DEF LinkValues, NodeValues
    <2>. QED BY <1>8, <2>1, <2>2 DEF sidecar_on_start_session
  <1>9. CASE Reconnect(n)
    <2>1. running[n] /\ running' = running BY <1>9 DEF Reconnect
    <2>2. running'[n] = TRUE /\ \A m \in Nodes \ {n} : running'[m] = running[m]
      BY <1>0, <2>1, Zenon DEF NodeValues
    <2>. QED BY <1>3, <1>9, <2>2, Zenon DEF Reconnect
  <1>10. CASE Crash(n) BY <1>2, <1>10 DEF Crash
  <1>. QED BY <1>1, <1>5, <1>6, <1>7, <1>8, <1>9, <1>10

\* Every step keeps these values.
LEMMA ValuesNext ==
    ASSUME ClusterInv, ValuesInv, [Next]_vars
    PROVE  ValuesInv'
  <1>1. CASE Network
    <2>1. PICK c \in Conns : Break(c) BY <1>1 DEF Network
    <2>2. UNCHANGED <<answer, running, conn, orphaned, owner>>
      BY <1>1, <2>1, SMTT(30) DEF Network, Break, backendVars, sideCarVars
    <2>3. \A d \in Conns : LinkValues(d)'
      BY <2>1, <2>2, ZenonT(30) DEF Break, LinkValues, ValuesInv, ClusterInv, Domains
    <2>. QED BY <2>2, <2>3, Zenon DEF ValuesInv, NodeValues
  <1>2. CASE UNCHANGED vars
    BY <1>2 DEF vars, linkVars, backendVars, sideCarVars, ValuesInv, LinkValues, NodeValues
  <1>. QED BY <1>1, <1>2, ValuesBackend, ValuesSideCar DEF Next

\* What a node may send are messages of the protocol.
LEMMA MessageTypes ==
    ASSUME ClusterInv, NEW n \in Nodes
    PROVE  Messages(n) \subseteq UpMessages /\ Known(n) \subseteq SessionIds
  <1>1. Known(n) \subseteq SessionIds
    BY BackendAssumption DEF ClusterInv, RequestInv, SessionIds, Known
  <1>2. ASSUME NEW s \in Known(n) \union {NoSession} PROVE heartbeat(s) \in UpMessages
    BY <1>1 DEF heartbeat, UpMessages
  <1>3. ASSUME NEW t \in {"start_confirmed", "stop_session", "session_error"}, NEW s \in Known(n)
        PROVE  Message(t, s) \in UpMessages
    BY <1>1 DEF Message, UpMessages
  <1>. QED BY <1>1, <1>2, <1>3 DEF Messages

\* Together the three say that every variable has its type.
LEMMA TypesFollow ==
    ASSUME ClusterInv, OrderInv, ValuesInv
    PROVE  TypeOK
  <1>1. ASSUME NEW c \in Conns
        PROVE  /\ owner[c] \in Nodes \union {Nobody}
               /\ link[c] \in {"unused", "up", "down", "closed"}
               /\ link[c] # "unused" => owner[c] \in Nodes
               /\ up[c] \in Seq(UpMessages) /\ down[c] \in Seq(SessionIds)
               /\ nodes[c].sessions \subseteq SessionIds
    <2>1. LinkValues(c) /\ ConnInv(c) BY DEF ValuesInv, ClusterInv, Traffic
    <2>2. CASE link[c] = "unused"
      <3>1. up[c] = << >> /\ down[c] = << >> /\ nodes[c] = NoNode BY <2>1, <2>2 DEF ConnInv
      <3>2. up[c] \in Seq(UpMessages) /\ down[c] \in Seq(SessionIds) BY <3>1, EmptySeq, Zenon
      <3>3. nodes[c].sessions = {} BY <3>1 DEF NoNode
      <3>. QED BY <2>1, <2>2, <3>2, <3>3 DEF LinkValues
    <2>3. CASE link[c] # "unused"
      <3>1. /\ owner[c] \in Nodes /\ up[c] \in Seq(Messages(owner[c]))
            /\ down[c] \in Seq(Known(owner[c]))
            /\ nodes[c] \in {NoNode} \union Entries(owner[c])
        BY <2>1, <2>3 DEF ConnInv
      <3>2. Messages(owner[c]) \subseteq UpMessages /\ Known(owner[c]) \subseteq SessionIds
        BY <3>1, MessageTypes
      <3>3. up[c] \in Seq(UpMessages) /\ down[c] \in Seq(SessionIds)
        BY <3>1, <3>2, SeqGrows, Zenon
      <3>4. nodes[c].sessions \subseteq SessionIds
        <4>1. CASE nodes[c] = NoNode BY <4>1 DEF NoNode
        <4>2. CASE nodes[c] \in Entries(owner[c])
          <5>1. nodes[c].sessions \in SUBSET SessionIds BY <4>2 DEF Entries
          <5>. QED BY <5>1
        <4>. QED BY <3>1, <4>1, <4>2, Zenon
      <3>. QED BY <2>1, <3>1, <3>3, <3>4 DEF LinkValues
    <2>. QED BY <2>2, <2>3
  <1>2. \A c \in Registered : nodes[c].name = Host[owner[c]] BY RegisteredFacts
  <1>3. /\ {order[k] : k \in DOMAIN order} = Registered
        /\ \A j, k \in DOMAIN order : order[j] = order[k] => j = k
    <2>1. /\ order \in Seq(Conns)
          /\ \A c : c \in Registered <=> \E k \in 1 .. Len(order) : order[k] = c
          /\ \A j, k \in 1 .. Len(order) : order[j] = order[k] => j = k
      BY DEF OrderInv, Lists
    <2>2. DOMAIN order = 1 .. Len(order) BY <2>1
    <2>3. \A c : c \in {order[k] : k \in DOMAIN order} <=> c \in Registered
      BY <2>1, <2>2, Zenon
    <2>. QED BY <2>1, <2>2, <2>3
  <1>4. requests \in 0 .. MaxStarts /\ pending \subseteq 1 .. requests
    BY DEF ClusterInv, RequestInv
  <1>5. ASSUME NEW n \in Nodes
        PROVE  /\ running[n] = (conn[n] # NoConn)
               /\ running[n] => owner[conn[n]] = n
               /\ active[n] \in SessionIds \union {NoSession}
               /\ orphaned[n] \subseteq SessionIds
    <2>1. NodeValues(n) /\ NodeInv(n) BY DEF ValuesInv, ClusterInv, Traffic
    <2>2. running[n] = (conn[n] # NoConn) BY <2>1, Zenon DEF NodeValues
    <2>3. Known(n) \subseteq SessionIds BY MessageTypes
    <2>. QED BY <2>1, <2>2, <2>3 DEF NodeValues, NodeInv
  <1>6. \A s \in SessionIds : answer[s] \in Answers BY DEF ValuesInv
  <1>. QED BY <1>1, <1>2, <1>3, <1>4, <1>5, <1>6, ZenonT(30) DEF TypeOK, Answers

\* Every variable keeps its type; in particular the map's insertion order,
\* which findNodeByGame follows, lists every registered connection once,
\* through deletions, reservations and heartbeats on any connections.
THEOREM ClusterTypeCorrect == Spec => []TypeOK
  <1> DEFINE TInv == ClusterInv /\ OrderInv /\ ValuesInv
  <1>1. Init => TInv
    <2> SUFFICES ASSUME Init PROVE OrderInv /\ ValuesInv BY ClusterInit
    <2> USE DEF Init, LinkInit, BackendInit, SideCarInit
    <2>1. OrderInv
      <3>1. << >> \in Seq(Conns) /\ 1 .. Len(<< >>) = {} OBVIOUS
      <3>2. order = << >> /\ Registered = {} BY DEF Registered
      <3>. QED BY <3>1, <3>2 DEF OrderInv, Lists
    <2>2. ValuesInv BY DEF ValuesInv, LinkValues, NodeValues, Answers
    <2>. QED BY <2>1, <2>2
  <1>2. TInv /\ [Next]_vars => TInv' BY ClusterNext, OrderNext, ValuesNext
  <1>3. TInv => TypeOK BY TypesFollow
  <1>. QED BY <1>1, <1>2, <1>3, PTL DEF Spec
=============================================================================
