----------------------------- MODULE MCPServer -----------------------------
(***************************************************************************)
(* The connection to one MCP server over HTTP, with its keepalive:         *)
(* src/cecli/mcp/server.py on one event loop.  A step is what runs between *)
(* two awaits.  The n-th connect() makes the n-th future, event, session   *)
(* task and, once open, keepalive task.                                    *)
(***************************************************************************)
EXTENDS Naturals

CONSTANTS
  Callers,      \* tool calls, /load-mcp, /remove-mcp
  Null,
  Threshold,    \* FAILED_PING_THRESHOLD
  MaxConnects,  \* bound: calls of connect() that open something
  MaxPings,     \* bound: pings that fail
  MaxRemovals,  \* bound: calls of disconnect_server
  MaxFaults     \* bound: sessions that cannot be opened, callers that give up

Connections == 1..MaxConnects
Tasks == Callers \cup Connections     \* who calls: callers and keepalive loops

VARIABLES
  \* attributes of the server: None or the number of a connection
  session, session_task, session_ready, shutdown_event, keepalive_task,
  disconnecting, cancel_keepalive_on_close,
  state, failed_pings,
  \* what the attributes point at
  ready,        \* connection -> the future of its connect()
  shutdown,     \* connection -> its event
  owner,        \* connection -> its session task
  awaited,      \* connection -> the event that task waits for
  \* callers and keepalive loops
  at,           \* task -> where it is
  on,           \* task -> the connection it waits for there
  after,        \* task -> where it goes from a disconnect()
  connects, pings, removals, faults

attributes == <<session, session_task, session_ready, shutdown_event, keepalive_task>>
teardown == <<disconnecting, cancel_keepalive_on_close>>
health == <<state, failed_pings>>
objects == <<ready, shutdown, owner, awaited>>
tasks == <<at, on, after>>
bounds == <<connects, pings, removals, faults>>
vars == <<attributes, teardown, health, objects, tasks, bounds>>

Init ==
  /\ session = Null /\ session_task = Null /\ session_ready = Null
  /\ shutdown_event = Null /\ keepalive_task = Null
  /\ disconnecting = FALSE /\ cancel_keepalive_on_close = TRUE
  /\ state = "CONNECTED" /\ failed_pings = 0
  /\ ready = [n \in Connections |-> "pending"]
  /\ shutdown = [n \in Connections |-> FALSE]
  /\ owner = [n \in Connections |-> "none"]
  /\ awaited = [n \in Connections |-> Null]
  /\ at = [t \in Tasks |-> IF t \in Callers THEN "idle" ELSE "none"]
  /\ on = [t \in Tasks |-> Null]
  /\ after = [t \in Tasks |-> Null]
  /\ connects = 0 /\ pings = 0 /\ removals = 0 /\ faults = 0

-----------------------------------------------------------------------------
(* connect and disconnect.                                                 *)

\* task.cancel() of keepalive loop k.  A wait for the future of a connect()
\* cancels that future, a wait in disconnect() swallows it, others end the loop.
PlacesCancelling(k) ==
  [t \in Tasks |-> IF t # k THEN at[t]
                   ELSE IF at[k] = "awaiting" THEN "cancelled"
                   ELSE IF at[k] \in {"pinging", "backoff"} THEN "ended" ELSE at[k]]
FuturesCancelling(k) ==
  [n \in Connections |-> IF k # Null /\ at[k] = "awaiting" /\ on[k] = n /\ ready[n] = "pending"
                         THEN "cancelled" ELSE ready[n]]

\* connect() without a session, up to the await of the future.
Begin(t, places) ==
  LET n == connects + 1
  IN  /\ n \in Connections
      /\ connects' = n
      /\ session_ready' = n /\ shutdown_event' = n /\ session_task' = n
      /\ owner' = [owner EXCEPT ![n] = "opening"]
      /\ at' = [places EXCEPT ![t] = "awaiting"]
      /\ on' = [on EXCEPT ![t] = n]

\* A disconnect() returns, having cleared what it clears: its caller goes on,
\* a keepalive loop that is reconnecting to connect() in the same step.
Return(t, next, places, cleared) ==
  /\ session' = Null
  /\ \/ next = "connect" /\ Begin(t, places)
     \/ /\ next # "connect"
        /\ at' = [places EXCEPT ![t] = next]
        /\ on' = [on EXCEPT ![t] = Null]
        /\ session_ready' = IF cleared THEN Null ELSE session_ready
        /\ shutdown_event' = IF cleared THEN Null ELSE shutdown_event
        /\ UNCHANGED <<connects, owner, session_task>>

OwnerLives == session_task \in {n \in Connections : owner[n] # "done"}

\* disconnect(): somebody else is at it.
AlreadyDisconnecting(t, next) ==
  /\ disconnecting
  /\ Return(t, next, at, FALSE)
  /\ UNCHANGED <<teardown, ready, shutdown, after>>

\* ... the session task is told to end, and waited for.
TellOwner(t, cancel, next) ==
  /\ ~disconnecting
  /\ OwnerLives
  /\ disconnecting' = TRUE
  /\ cancel_keepalive_on_close' = cancel
  /\ session_task' = Null
  /\ shutdown' = [n \in Connections |-> shutdown[n] \/ n = shutdown_event]
  /\ at' = [at EXCEPT ![t] = "closing"]
  /\ on' = [on EXCEPT ![t] = session_task]
  /\ after' = [after EXCEPT ![t] = next]
  /\ UNCHANGED <<session, session_ready, shutdown_event, ready, owner, connects>>

\* ... there is none, or it has ended by itself.  A keepalive loop that is left
\* is cancelled; that the code waits for its end, up to 15 s with
\* _disconnecting set, is not modelled.
NoOwner(t, cancel, next) ==
  /\ ~disconnecting
  /\ ~OwnerLives
  /\ cancel_keepalive_on_close' = cancel
  /\ LET k == IF cancel /\ session_task = Null THEN keepalive_task ELSE Null
     IN  ready' = FuturesCancelling(k) /\ Return(t, next, PlacesCancelling(k), TRUE)
  /\ UNCHANGED <<disconnecting, shutdown, after>>

\* disconnect(cancel_keepalive), up to its await or its end.
Disconnect(t, cancel, next) ==
  /\ AlreadyDisconnecting(t, next) \/ TellOwner(t, cancel, next) \/ NoOwner(t, cancel, next)
  /\ UNCHANGED <<keepalive_task, awaited>>

\* A tool call, or connect_server; with a session there is nothing to do.
Connect(c) ==
  /\ at[c] = "idle" /\ session = Null
  /\ Begin(c, at)
  /\ UNCHANGED <<session, keepalive_task, teardown, health, ready, shutdown, awaited, after, pings, removals, faults>>

\* disconnect_server.
Remove(c) ==
  /\ at[c] = "idle" /\ session # Null
  /\ removals < MaxRemovals
  /\ removals' = removals + 1
  /\ Disconnect(c, TRUE, "idle")
  /\ UNCHANGED <<health, pings, faults>>

\* The future has a result.
Connected(t) ==
  /\ at[t] = "awaiting" /\ ready[on[t]] = "set"
  /\ at' = [at EXCEPT ![t] = IF t \in Callers THEN "idle" ELSE "pinging"]
  /\ on' = [on EXCEPT ![t] = Null]
  /\ IF t \in Callers THEN UNCHANGED health ELSE state' = "CONNECTED" /\ failed_pings' = 0
  /\ UNCHANGED <<attributes, teardown, objects, after, bounds>>

\* It has an exception, or the wait was cancelled: connect() disconnects
\* before it raises.  The keepalive loop takes an exception for a failed
\* attempt, and ends on a cancellation.
Refused(t) ==
  /\ \/ at[t] = "awaiting" /\ ready[on[t]] \in {"failed", "cancelled"}
     \/ at[t] = "cancelled"
  /\ Disconnect(t, TRUE, IF t \in Callers THEN "idle"
                         ELSE IF at[t] = "awaiting" /\ ready[on[t]] = "failed" THEN "backoff" ELSE "ended")
  /\ UNCHANGED <<health, pings, removals, faults>>

\* The session task has ended, or been cancelled after 15 seconds.
Disconnected(t) ==
  /\ at[t] = "closing" /\ owner[on[t]] = "done"
  /\ disconnecting' = FALSE
  /\ Return(t, after[t], at, TRUE)
  /\ UNCHANGED <<keepalive_task, cancel_keepalive_on_close, health, ready, shutdown, awaited, after, pings, removals, faults>>

\* The timeout of connect_server, or a cancelled tool call.
GiveUp(c) ==
  /\ at[c] = "awaiting" /\ ready[on[c]] = "pending"
  /\ faults < MaxFaults
  /\ faults' = faults + 1
  /\ ready' = [ready EXCEPT ![on[c]] = "cancelled"]
  /\ UNCHANGED <<attributes, teardown, health, shutdown, owner, awaited, tasks, connects, pings, removals>>

-----------------------------------------------------------------------------
(* _run_session.                                                           *)

\* The session is open; start_keepalive replaces the loop there was.
Open(n) ==
  /\ owner[n] = "opening"
  /\ session' = n
  /\ at' = [PlacesCancelling(keepalive_task) EXCEPT ![n] = "pinging"]
  /\ LET cancelled == FuturesCancelling(keepalive_task)
     IN  ready' = IF session_ready # Null /\ cancelled[session_ready] = "pending"
                  THEN [cancelled EXCEPT ![session_ready] = "set"] ELSE cancelled
  /\ keepalive_task' = n
  /\ owner' = [owner EXCEPT ![n] = IF Null \in {session_ready, shutdown_event} THEN "closing" ELSE "open"]
  /\ awaited' = [awaited EXCEPT ![n] = shutdown_event]
  /\ UNCHANGED <<session_task, session_ready, shutdown_event, teardown, health, shutdown, on, after, bounds>>

\* The server does not answer, or not in time.
OpenFails(n) ==
  /\ owner[n] = "opening"
  /\ faults < MaxFaults
  /\ faults' = faults + 1
  /\ ready' = IF session_ready # Null /\ ready[session_ready] = "pending"
              THEN [ready EXCEPT ![session_ready] = "failed"] ELSE ready
  /\ owner' = [owner EXCEPT ![n] = "closing"]
  /\ UNCHANGED <<attributes, teardown, health, shutdown, awaited, tasks, connects, pings, removals>>

Shutdown(n) ==
  /\ owner[n] = "open" /\ shutdown[awaited[n]]
  /\ owner' = [owner EXCEPT ![n] = "closing"]
  /\ UNCHANGED <<attributes, teardown, health, ready, shutdown, awaited, tasks, bounds>>

\* _close_session cancels the keepalive loop, unless that asked for it ...
CloseSession(n) ==
  /\ owner[n] = "closing"
  /\ LET k == IF cancel_keepalive_on_close THEN keepalive_task ELSE Null
     IN  ready' = FuturesCancelling(k) /\ at' = PlacesCancelling(k)
  /\ owner' = [owner EXCEPT ![n] = "waiting"]
  /\ UNCHANGED <<attributes, teardown, health, shutdown, awaited, on, after, bounds>>

\* ... and waits for it, for 15 seconds at most; then the transport is closed.
CloseTransport(n) ==
  /\ owner[n] = "waiting"
  /\ owner' = [owner EXCEPT ![n] = "done"]
  /\ session' = IF session_task = n THEN Null ELSE session
  /\ UNCHANGED <<session_task, session_ready, shutdown_event, keepalive_task, teardown, health,
                 ready, shutdown, awaited, tasks, bounds>>

-----------------------------------------------------------------------------
(* _keepalive_loop and its reconnect.                                      *)

PingSucceeds(k) ==
  /\ at[k] = "pinging"
  /\ state' = "CONNECTED" /\ failed_pings' = 0
  /\ UNCHANGED <<attributes, teardown, objects, tasks, bounds>>

\* The count stays at the threshold here: it is not looked at beyond.
PingFails(k) ==
  /\ at[k] = "pinging"
  /\ pings < MaxPings
  /\ pings' = pings + 1
  /\ IF failed_pings + 1 < Threshold
     THEN failed_pings' = failed_pings + 1 /\ state' = "UNHEALTHY" /\ UNCHANGED at
     ELSE failed_pings' = Threshold /\ state' = "DISCONNECTED" /\ at' = [at EXCEPT ![k] = "backoff"]
  /\ UNCHANGED <<attributes, teardown, objects, on, after, connects, removals, faults>>

\* The next attempt, after the delay.
Reconnect(k) ==
  /\ at[k] = "backoff" /\ state = "DISCONNECTED"
  /\ Disconnect(k, FALSE, "connect")
  /\ UNCHANGED <<health, pings, removals, faults>>

\* Another loop has reconnected meanwhile.
ReconnectEnds(k) ==
  /\ at[k] = "backoff" /\ state # "DISCONNECTED"
  /\ at' = [at EXCEPT ![k] = "pinging"]
  /\ UNCHANGED <<attributes, teardown, health, objects, on, after, bounds>>

Loop ==
  \/ \E t \in Tasks : Connected(t) \/ Refused(t) \/ Disconnected(t)
  \/ \E n \in Connections :
       Open(n) \/ Shutdown(n) \/ CloseSession(n) \/ CloseTransport(n) \/ Reconnect(n) \/ ReconnectEnds(n)

Next ==
  \/ Loop
  \/ \E c \in Callers : Connect(c) \/ Remove(c) \/ GiveUp(c)
  \/ \E n \in Connections : OpenFails(n) \/ PingSucceeds(n) \/ PingFails(n)

\* The loop runs what is ready, delays pass, and the server, which refuses
\* MaxFaults times at most, is found again.
Spec == Init /\ [][Next]_vars /\ WF_vars(Loop)

-----------------------------------------------------------------------------

\* After three failed pings a connection that nobody removes is there again:
\* "dropped SSE connections recover automatically" (server.py, SseServer).
Recovers == state = "DISCONNECTED" ~> state = "CONNECTED" /\ session # Null

=============================================================================
