------------------------------- MODULE SideCar -------------------------------
(***************************************************************************)
(* The SideCar of every streaming node (stratusd/SideCar/src/SideCar.c and *)
(* api.c): its main loop sends heartbeats, polls the active session and    *)
(* takes start commands, in one thread, so each of the three is one        *)
(* action.  stratusd is restarted whenever it exits                        *)
(* (os/stratusd/stratusd.service).                                         *)
(*                                                                         *)
(* This is the release build, in which assert() is compiled out: a start   *)
(* command that finds a session active replaces it, and what the replaced  *)
(* session runs keeps running untracked.                                   *)
(***************************************************************************)
EXTENDS Link

CONSTANT MaxInFlight   \* bound on a node's undelivered messages

VARIABLES running,   \* the process is alive
          conn,      \* its connection (api_client)
          active,    \* ctx.active_session, or NoSession
          orphaned   \* sessions replaced while they were active

sideCarVars == <<running, conn, active, orphaned>>

NoSession == 0

heartbeat(s) == [type |-> "heartbeat", sessions |-> {s} \ {NoSession}]
Message(t, s) == [type |-> t, session |-> s]

SideCarInit ==
    /\ running = [n \in Nodes |-> FALSE]
    /\ conn = [n \in Nodes |-> NoConn]
    /\ active = [n \in Nodes |-> NoSession]
    /\ orphaned = [n \in Nodes |-> {}]

\* The process ends, in good order or not, after having sent msgs.  Its
\* session ends with it and its end of the connection is closed.
ExitAfter(n, msgs) ==
    LET c == conn[n]
    IN  /\ running' = [running EXCEPT ![n] = FALSE]
        /\ conn' = [conn EXCEPT ![n] = NoConn]
        /\ active' = [active EXCEPT ![n] = NoSession]
        /\ orphaned' = [orphaned EXCEPT ![n] = {}]
        /\ link' = IF link[c] = "up" THEN [link EXCEPT ![c] = "down"] ELSE link
        /\ up' = IF link[c] = "up" THEN [up EXCEPT ![c] = @ \o msgs] ELSE up
        /\ down' = [down EXCEPT ![c] = << >>]
        /\ UNCHANGED owner

\* api_send of several messages: on a broken connection they are lost.
Send(n, msgs) ==
    up' = IF link[conn[n]] = "up" THEN [up EXCEPT ![conn[n]] = @ \o msgs] ELSE up

CanSend(n, k) == running[n] /\ Len(up[conn[n]]) + k <= MaxInFlight

\* api_connect: the old connection, if any, is closed and a new one opened.
api_connect(n, c) ==
    /\ Fresh(c)
    /\ conn' = [conn EXCEPT ![n] = c]
    /\ owner' = [owner EXCEPT ![c] = n]
    /\ link' = [link EXCEPT ![c] = "up"]

-----------------------------------------------------------------------------
\* sidecar_main up to its loop.
Boot(n) ==
    /\ ~running[n]
    /\ \E c \in Conns : api_connect(n, c)
    /\ running' = [running EXCEPT ![n] = TRUE]
    /\ UNCHANGED <<active, orphaned, up, down>>

\* The periodic heartbeat.
sidecar_heartbeat(n) ==
    /\ CanSend(n, 1)
    /\ Send(n, <<heartbeat(active[n])>>)
    /\ UNCHANGED <<sideCarVars, owner, link, down>>

\* session_poll reports the end ("stop_session") or the crash
\* ("session_error") of the active session: the server is told, the session
\* is torn down, and a heartbeat without it follows.
SessionEnds(n, t) ==
    /\ CanSend(n, 2)
    /\ active[n] # NoSession
    /\ Send(n, <<Message(t, active[n]), heartbeat(NoSession)>>)
    /\ active' = [active EXCEPT ![n] = NoSession]
    /\ UNCHANGED <<running, conn, orphaned, owner, link, down>>

\* sidecar_on_start_session, for the next command on the connection.
sidecar_on_start_session(n) ==
    /\ CanSend(n, 1)
    /\ down[conn[n]] # << >>
    /\ LET s == Head(down[conn[n]])
       IN  \/ /\ Send(n, <<Message("start_confirmed", s)>>)
              /\ active' = [active EXCEPT ![n] = s]
              /\ orphaned' = [orphaned EXCEPT ![n] = @ \union ({active[n]} \ {NoSession})]
              /\ down' = [down EXCEPT ![conn[n]] = Tail(@)]
              /\ UNCHANGED <<running, conn, owner, link>>
           \/ ExitAfter(n, <<Message("session_error", s)>>)  \* session_start failed

\* api_poll finds the connection broken; when the last reconnection was more
\* than a minute ago it opens a new one, otherwise stratusd exits (Crash).
Reconnect(n) ==
    /\ running[n]
    /\ link[conn[n]] \in {"down", "closed"}
    /\ down[conn[n]] = << >>
    /\ \E c \in Conns : api_connect(n, c)
    /\ UNCHANGED <<running, active, orphaned, up, down>>

\* stratusd exits: a failed heartbeat or send, a broken connection that may
\* not be reopened yet, or a crash.
Crash(n) == running[n] /\ ExitAfter(n, << >>)

SideCarNext ==
    \E n \in Nodes :
        \/ Boot(n) \/ sidecar_heartbeat(n)
        \/ \E t \in {"stop_session", "session_error"} : SessionEnds(n, t)
        \/ sidecar_on_start_session(n)
        \/ Reconnect(n) \/ Crash(n)
=============================================================================
