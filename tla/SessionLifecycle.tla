-------------------------- MODULE SessionLifecycle --------------------------
(***************************************************************************)
(* The life of a browser session in mumdota: the WebSocket handler of a    *)
(* connection, SessionManager's map and capacity semaphore, the event task *)
(* and voice-setup task of each session, its Mumble control task, the TURN *)
(* credentials issued to it, and server shutdown.                          *)
(*                                                                         *)
(* A connection (conn_id, a fresh UUID per WebSocket) is an element of     *)
(* Conns.  Each call of connect_user makes a new Arc<Mutex<UserSession>>;  *)
(* its identity, which finish_session compares with Arc::ptr_eq, is an     *)
(* element of Gens (a generation).  The actions are the stretches of code  *)
(* between two awaits that other tasks can observe.                        *)
(***************************************************************************)
EXTENDS Naturals, FiniteSets, Sequences

CONSTANTS Conns,           \* WebSocket connections
          Gens,            \* connect_user calls, one UserSession each
          ConnOf,          \* the conn_id argument of each call
          NoGen,           \* no session
          MaxConnections,  \* config.server.max_connections
          DirectCallers,   \* may callers other than the handler connect_user?
          Stops            \* is the server ever told to stop?

ASSUME ConnsAssumption == IsFiniteSet(Conns)
ASSUME GensAssumption == IsFiniteSet(Gens) /\ NoGen \notin Gens
ASSUME ConnOfAssumption == ConnOf \in [Gens -> Conns]
ASSUME MaxConnectionsAssumption == MaxConnections \in Nat \ {0}
ASSUME SwitchesAssumption == DirectCallers \in BOOLEAN /\ Stops \in BOOLEAN

VARIABLES
  \* server: begin_shutdown and SessionManager::close
  shutdown, main, todo, mcur,
  \* SessionManager: the map and the free permits of its semaphore
  sessions, slots,
  \* per connection: the handler, the session it works on, the send task,
  \* terminal errors queued in ws_tx, and the upgrade's semaphore
  hpc, cur, ws, out, websocket_slots,
  \* per connection: the generations whose TURN credentials are still valid
  creds,
  \* per generation: progress of connect_user, slot.is_some()
  stage, slot,
  \* per generation: UserSession.closed, .session_id.is_some(), and which
  \* caller of shutdown_user_session holds the session mutex across its awaits
  closed, session_id, lock,
  \* per generation: process_events
  epc, terminal_error,
  \* per generation: the voice-setup task, a pending abort, and whether
  \* UserSession.bridge and .mumble_voice are Some
  vpc, vabort, bridge,
  \* per generation: the Mumble control task and its event channel
  mpc, mq

mainVars == <<shutdown, main, todo, mcur>>
connVars == <<hpc, cur, ws, out, websocket_slots>>
genVars == <<stage, slot, slots>>
sessVars == <<closed, session_id, lock>>
eventVars == <<epc, terminal_error>>
voiceVars == <<vpc, vabort, bridge>>
mumbleVars == <<mpc, mq>>
vars == <<mainVars, sessions, connVars, creds, genVars, sessVars, eventVars,
          voiceVars, mumbleVars>>

Connecting == {"checked", "connecting", "built", "dup"}
HandlerOpen == {"fresh", "loop", "connecting", "call"}

Init ==
  /\ shutdown = FALSE /\ main = "serving" /\ todo = {} /\ mcur = NoGen
  /\ sessions = [c \in Conns |-> NoGen] /\ slots = MaxConnections
  /\ hpc = [c \in Conns |-> "new"] /\ cur = [c \in Conns |-> NoGen]
  /\ ws = [c \in Conns |-> "open"] /\ out = [c \in Conns |-> {}]
  /\ websocket_slots = MaxConnections
  /\ creds = [c \in Conns |-> {}]
  /\ stage = [g \in Gens |-> "unused"] /\ slot = [g \in Gens |-> FALSE]
  /\ closed = [g \in Gens |-> FALSE] /\ session_id = [g \in Gens |-> FALSE]
  /\ lock = [g \in Gens |-> "free"]
  /\ epc = [g \in Gens |-> "none"] /\ terminal_error = [g \in Gens |-> FALSE]
  /\ vpc = [g \in Gens |-> "none"] /\ vabort = [g \in Gens |-> FALSE]
  /\ bridge = [g \in Gens |-> FALSE]
  /\ mpc = [g \in Gens |-> "off"] /\ mq = [g \in Gens |-> <<>>]

-----------------------------------------------------------------------------
(* Helpers shared by several actions.                                      *)

\* Dropping the OwnedSemaphorePermit of g, if it is held.
DropPermit(g) ==
  /\ slot' = [slot EXCEPT ![g] = FALSE]
  /\ slots' = IF slot[g] THEN slots + 1 ELSE slots

\* ws_tx.send of a terminal error if there is one, lost when the send task has
\* ended.
Report(c, g, error) ==
  out' = [out EXCEPT ![c] = IF error /\ ws[c] = "open" THEN @ \cup {g} ELSE @]

\* connect_user(g) returns to its caller.  If that is the handler, it goes on,
\* and it turns Err into the terminal error connect_failed.
Awaited(g) == hpc[ConnOf[g]] = "connecting" /\ cur[ConnOf[g]] = g
ReturnConnect(g, error) ==
  LET c == ConnOf[g] IN
  /\ hpc' = [hpc EXCEPT ![c] = IF Awaited(g) THEN "loop" ELSE @]
  /\ cur' = [cur EXCEPT ![c] = IF Awaited(g) THEN NoGen ELSE @]
  /\ Report(c, g, error /\ Awaited(g))

\* JoinHandle::abort on the voice-setup task: a suspended task is dropped; one
\* that is being polled on another worker runs on to its next suspension.
AbortVoice(g) ==
  /\ vpc' = [vpc EXCEPT ![g] = IF @ \in {"waitStart", "waitCrypt", "lockWait"}
                               THEN "done" ELSE @]
  /\ vabort' = [vabort EXCEPT ![g] = vpc[g] = "running"]

\* A teardown that already happened leaves slot = None.
AlreadyShut(g) == ~slot[g]

\* shutdown_user_session up to its first await, the mutex held by who.
\* close_notify's permit and the Disconnect command are pending from here on,
\* so both are read off closed.
ShutdownBegin(g, who) ==
  /\ lock' = [lock EXCEPT ![g] = who]
  /\ closed' = [closed EXCEPT ![g] = TRUE]
  /\ AbortVoice(g)

\* Its rest: bridge, voice and peer connection are closed, then the permit is
\* released and the caller unlocks.
ShutdownEnd(g) ==
  /\ bridge' = [bridge EXCEPT ![g] = FALSE]
  /\ DropPermit(g)
  /\ lock' = [lock EXCEPT ![g] = "free"]

-----------------------------------------------------------------------------
(* The WebSocket: upgrade, handler loop, send task.                        *)

\* ws_upgrade with a free websocket_slot; without one it answers 503.  axum
\* accepts until its graceful shutdown returns and close() starts.
Accept(c) ==
  /\ hpc[c] = "new" /\ main \in {"serving", "signalled"}
  /\ websocket_slots > 0
  /\ websocket_slots' = websocket_slots - 1
  /\ hpc' = [hpc EXCEPT ![c] = "fresh"]
  /\ UNCHANGED <<mainVars, sessions, cur, ws, out, creds, genVars, sessVars,
                 eventVars, voiceVars, mumbleVars>>

\* The send task ended: ws_rx is dropped with what it held.
EndSend(c) ==
  /\ ws' = [ws EXCEPT ![c] = "closed"]
  /\ out' = [out EXCEPT ![c] = {}]

\* The send task wrote a terminal error and closed the socket.
SendTerminal(c) ==
  /\ ws[c] = "open" /\ out[c] # {}
  /\ EndSend(c)
  /\ UNCHANGED <<mainVars, sessions, hpc, cur, websocket_slots, creds,
                 genVars, sessVars, eventVars, voiceVars, mumbleVars>>

\* The send task failed, timed out, or met a backlog of more than 256.
SendFail(c) ==
  /\ ws[c] = "open" /\ hpc[c] \notin {"new", "gone"}
  /\ EndSend(c)
  /\ UNCHANGED <<mainVars, sessions, hpc, cur, websocket_slots, creds,
                 genVars, sessVars, eventVars, voiceVars, mumbleVars>>

\* The loop ends by itself: Disconnect, Close, an error, the idle or first
\* message deadline, or a first message that is not Connect.
Leave(c) ==
  /\ hpc[c] \in {"fresh", "loop"}
  /\ hpc' = [hpc EXCEPT ![c] = "leave"]
  /\ UNCHANGED <<mainVars, sessions, cur, ws, out, websocket_slots, creds,
                 genVars, sessVars, eventVars, voiceVars, mumbleVars>>

\* Mutant: the end of the send task goes unnoticed.
StopOnSignal(c) ==
  /\ hpc[c] \in {"fresh", "loop"} /\ shutdown
  /\ hpc' = [hpc EXCEPT ![c] = "leave"]
  /\ UNCHANGED <<mainVars, sessions, cur, ws, out, websocket_slots, creds,
                 genVars, sessVars, eventVars, voiceVars, mumbleVars>>

\* The loop is told to end: the send task finished, or stopping() resolved.
Stop(c) ==
  /\ hpc[c] \in {"fresh", "loop"} /\ (ws[c] = "closed" \/ shutdown)
  /\ hpc' = [hpc EXCEPT ![c] = "leave"]
  /\ UNCHANGED <<mainVars, sessions, cur, ws, out, websocket_slots, creds,
                 genVars, sessVars, eventVars, voiceVars, mumbleVars>>

\* Connect with an invalid username.
BadConnect(c) ==
  /\ hpc[c] \in {"fresh", "loop"}
  /\ hpc' = [hpc EXCEPT ![c] = "loop"]
  /\ Report(c, NoGen, TRUE)
  /\ UNCHANGED <<mainVars, sessions, cur, ws, websocket_slots, creds,
                 genVars, sessVars, eventVars, voiceVars, mumbleVars>>

\* Any other request: get_session clones the Arc, then waits for its mutex.
Lookup(c) ==
  /\ hpc[c] = "loop" /\ sessions[c] # NoGen
  /\ hpc' = [hpc EXCEPT ![c] = "call"]
  /\ cur' = [cur EXCEPT ![c] = sessions[c]]
  /\ UNCHANGED <<mainVars, sessions, ws, out, websocket_slots, creds,
                 genVars, sessVars, eventVars, voiceVars, mumbleVars>>

\* The mutex is acquired, the request done, and the handler back in its loop.
CallReturns(c) ==
  /\ hpc[c] = "call" /\ lock[cur[c]] = "free"
  /\ hpc' = [hpc EXCEPT ![c] = "loop"]
  /\ cur' = [cur EXCEPT ![c] = NoGen]
  /\ UNCHANGED <<mainVars, sessions, ws, out, websocket_slots, genVars,
                 sessVars, eventVars, mumbleVars>>

\* start_voice: once Mumble authenticated, voice_start wakes the setup task,
\* which goes on to wait for the CryptState.
StartVoice(c) ==
  /\ CallReturns(c)
  /\ session_id[cur[c]]
  /\ vpc' = [vpc EXCEPT ![cur[c]] = IF @ = "waitStart" THEN "waitCrypt" ELSE @]
  /\ UNCHANGED <<creds, vabort, bridge>>

\* refresh_ice: needs authentication, does not look at closed.
RefreshIce(c) ==
  /\ CallReturns(c)
  /\ session_id[cur[c]]
  /\ creds' = [creds EXCEPT ![c] = @ \cup {cur[c]}]
  /\ UNCHANGED voiceVars

\* answer, ICE candidate, chat, channel, mute, deafen, and requests that are
\* refused with an error that is not terminal.
OtherCall(c) ==
  /\ CallReturns(c)
  /\ UNCHANGED <<creds, voiceVars>>

\* The 15 s limit on handle_client_message while it waits for the mutex.
CallTimeout(c) ==
  /\ hpc[c] = "call"
  /\ hpc' = [hpc EXCEPT ![c] = "leave"]
  /\ cur' = [cur EXCEPT ![c] = NoGen]
  /\ UNCHANGED <<mainVars, sessions, ws, out, websocket_slots, creds,
                 genVars, sessVars, eventVars, voiceVars, mumbleVars>>

-----------------------------------------------------------------------------
(* connect_user.                                                           *)

\* The handler calls connect_user, which reads the shutdown flag first.
Connect(g) ==
  LET c == ConnOf[g] IN
  /\ stage[g] = "unused" /\ hpc[c] \in {"fresh", "loop"} /\ ~shutdown
  /\ stage' = [stage EXCEPT ![g] = "checked"]
  /\ hpc' = [hpc EXCEPT ![c] = "connecting"]
  /\ cur' = [cur EXCEPT ![c] = g]
  /\ UNCHANGED <<mainVars, sessions, ws, out, websocket_slots, creds, slot,
                 slots, sessVars, eventVars, voiceVars, mumbleVars>>

\* "Server is shutting down"
ConnectStopping(g) ==
  LET c == ConnOf[g] IN
  /\ stage[g] = "unused" /\ hpc[c] \in {"fresh", "loop"} /\ shutdown
  /\ stage' = [stage EXCEPT ![g] = "failed"]
  /\ hpc' = [hpc EXCEPT ![c] = "loop"]
  /\ Report(c, g, TRUE)
  /\ UNCHANGED <<mainVars, sessions, cur, ws, websocket_slots, creds, slot,
                 slots, sessVars, eventVars, voiceVars, mumbleVars>>

\* A direct caller, concurrent with the handler of the same conn_id.
DirectConnect(g) ==
  /\ DirectCallers /\ stage[g] = "unused" /\ hpc[ConnOf[g]] \in HandlerOpen
  /\ stage' = [stage EXCEPT ![g] = IF shutdown THEN "failed" ELSE "checked"]
  /\ UNCHANGED <<mainVars, sessions, connVars, creds, slot, slots, sessVars,
                 eventVars, voiceVars, mumbleVars>>

\* contains_key, then try_acquire_owned.
Reserve(g) ==
  /\ stage[g] = "checked" /\ sessions[ConnOf[g]] = NoGen /\ slots > 0
  /\ stage' = [stage EXCEPT ![g] = "connecting"]
  /\ slot' = [slot EXCEPT ![g] = TRUE]
  /\ slots' = slots - 1
  /\ UNCHANGED <<mainVars, sessions, connVars, creds, sessVars, eventVars,
                 voiceVars, mumbleVars>>

\* "Already connected" or "Server full".
Refuse(g) ==
  /\ stage[g] = "checked" /\ (sessions[ConnOf[g]] # NoGen \/ slots = 0)
  /\ stage' = [stage EXCEPT ![g] = "failed"]
  /\ ReturnConnect(g, TRUE)
  /\ UNCHANGED <<mainVars, sessions, ws, websocket_slots, creds, slot, slots,
                 sessVars, eventVars, voiceVars, mumbleVars>>

\* MumbleClient::connect succeeded: its control task is running.
MumbleUp(g) ==
  /\ stage[g] = "connecting"
  /\ stage' = [stage EXCEPT ![g] = "built"]
  /\ mpc' = [mpc EXCEPT ![g] = "up"]
  /\ UNCHANGED <<mainVars, sessions, connVars, creds, slot, slots, sessVars,
                 eventVars, voiceVars, mq>>

\* DNS, Mumble (10 s limit) or, once Mumble is up, the media socket or
\* WebRTC setup failed: the permit is dropped before the error is reported.
ConnectFail(g) ==
  /\ stage[g] \in {"connecting", "built"}
  /\ stage' = [stage EXCEPT ![g] = "failed"]
  /\ DropPermit(g)
  /\ ReturnConnect(g, TRUE)
  /\ UNCHANGED <<mainVars, sessions, ws, websocket_slots, creds, sessVars,
                 eventVars, voiceVars, mumbleVars>>

\* Mutant: a cancelled setup forgets the permit.
CancelLeaks(g) ==
  LET c == ConnOf[g] IN
  /\ stage[g] \in Connecting /\ hpc[c] = "connecting" /\ cur[c] = g
  /\ stage' = [stage EXCEPT ![g] = "failed"]
  /\ hpc' = [hpc EXCEPT ![c] = "leave"]
  /\ cur' = [cur EXCEPT ![c] = NoGen]
  /\ UNCHANGED <<mainVars, sessions, ws, out, websocket_slots, creds, slot,
                 slots, sessVars, eventVars, voiceVars, mumbleVars>>

\* Mutant: a cancelled setup goes on without its permit.
CancelContinues(g) ==
  LET c == ConnOf[g] IN
  /\ stage[g] \in Connecting /\ hpc[c] = "connecting" /\ cur[c] = g
  /\ DropPermit(g)
  /\ hpc' = [hpc EXCEPT ![c] = "leave"]
  /\ cur' = [cur EXCEPT ![c] = NoGen]
  /\ UNCHANGED <<mainVars, sessions, ws, out, websocket_slots, creds, stage,
                 sessVars, eventVars, voiceVars, mumbleVars>>

\* The 15 s limit drops the connect_user future; the handler leaves its loop.
Cancel(g) ==
  LET c == ConnOf[g] IN
  /\ stage[g] \in Connecting /\ hpc[c] = "connecting" /\ cur[c] = g
  /\ stage' = [stage EXCEPT ![g] = "failed"]
  /\ DropPermit(g)
  /\ hpc' = [hpc EXCEPT ![c] = "leave"]
  /\ cur' = [cur EXCEPT ![c] = NoGen]
  /\ UNCHANGED <<mainVars, sessions, ws, out, websocket_slots, creds,
                 sessVars, eventVars, voiceVars, mumbleVars>>

\* Under the map's write lock: is there a session for this conn_id?
Occupied(c) == sessions[c] # NoGen

\* The session enters the map and its event task is spawned.
Insert(g) ==
  /\ stage[g] = "built" /\ ~Occupied(ConnOf[g])
  /\ sessions' = [sessions EXCEPT ![ConnOf[g]] = g]
  /\ stage' = [stage EXCEPT ![g] = "live"]
  /\ epc' = [epc EXCEPT ![g] = "init"]
  /\ ReturnConnect(g, FALSE)
  /\ UNCHANGED <<mainVars, ws, websocket_slots, creds, slot, slots, sessVars,
                 terminal_error, voiceVars, mumbleVars>>

\* Another connect got there first: this session is shut down ...
Duplicate(g) ==
  /\ stage[g] = "built" /\ Occupied(ConnOf[g])
  /\ stage' = [stage EXCEPT ![g] = "dup"]
  /\ closed' = [closed EXCEPT ![g] = TRUE]
  /\ UNCHANGED <<mainVars, sessions, connVars, creds, slot, slots, session_id,
                 lock, eventVars, voiceVars, mumbleVars>>

\* ... and "Already connected" returned.
DuplicateEnd(g) ==
  /\ stage[g] = "dup"
  /\ stage' = [stage EXCEPT ![g] = "failed"]
  /\ DropPermit(g)
  /\ ReturnConnect(g, TRUE)
  /\ UNCHANGED <<mainVars, sessions, ws, websocket_slots, creds, sessVars,
                 eventVars, voiceVars, mumbleVars>>

-----------------------------------------------------------------------------
(* The handler's cleanup: disconnect_user, revoke_turn, send_task.abort.   *)

\* Mutant: disconnect_user looks the session up without removing it.
HandlerKeeps(c) ==
  /\ hpc[c] = "leave"
  /\ cur' = [cur EXCEPT ![c] = sessions[c]]
  /\ hpc' = [hpc EXCEPT ![c] = IF Occupied(c) THEN "discWait" ELSE "revoke"]
  /\ UNCHANGED <<mainVars, sessions, ws, out, websocket_slots, creds, genVars,
                 sessVars, eventVars, voiceVars, mumbleVars>>

\* disconnect_user takes the session out of the map ...
HandlerRemove(c) ==
  /\ hpc[c] = "leave"
  /\ sessions' = [sessions EXCEPT ![c] = NoGen]
  /\ cur' = [cur EXCEPT ![c] = sessions[c]]
  /\ hpc' = [hpc EXCEPT ![c] = IF Occupied(c) THEN "discWait" ELSE "revoke"]
  /\ UNCHANGED <<mainVars, ws, out, websocket_slots, creds, genVars, sessVars,
                 eventVars, voiceVars, mumbleVars>>

\* ... and, without the map's lock, locks it and shuts it down, ...
HandlerShutdown(c) ==
  /\ hpc[c] = "discWait" /\ lock[cur[c]] = "free" /\ ~AlreadyShut(cur[c])
  /\ hpc' = [hpc EXCEPT ![c] = "discShut"]
  /\ ShutdownBegin(cur[c], "handler")
  /\ UNCHANGED <<mainVars, sessions, cur, ws, out, websocket_slots, creds,
                 genVars, session_id, eventVars, bridge, mumbleVars>>

\* ... unless that was done by its event task or by close().
HandlerSkipShutdown(c) ==
  /\ hpc[c] = "discWait" /\ lock[cur[c]] = "free" /\ AlreadyShut(cur[c])
  /\ hpc' = [hpc EXCEPT ![c] = "revoke"]
  /\ UNCHANGED <<mainVars, sessions, cur, ws, out, websocket_slots, creds,
                 genVars, sessVars, eventVars, voiceVars, mumbleVars>>

HandlerShutdownEnd(c) ==
  /\ hpc[c] = "discShut"
  /\ hpc' = [hpc EXCEPT ![c] = "revoke"]
  /\ ShutdownEnd(cur[c])
  /\ UNCHANGED <<mainVars, sessions, cur, ws, out, websocket_slots, creds,
                 stage, closed, session_id, eventVars, vpc, vabort,
                 mumbleVars>>

\* revoke_turn, send_task.abort, and the upgrade's permit is dropped.
HandlerRevoke(c) ==
  /\ hpc[c] = "revoke"
  /\ hpc' = [hpc EXCEPT ![c] = "gone"]
  /\ cur' = [cur EXCEPT ![c] = NoGen]
  /\ EndSend(c)
  /\ websocket_slots' = websocket_slots + 1
  /\ creds' = [creds EXCEPT ![c] = {}]
  /\ UNCHANGED <<mainVars, sessions, genVars, sessVars, eventVars,
                 voiceVars, mumbleVars>>

-----------------------------------------------------------------------------
(* The event task, process_events.                                         *)

\* Leaving the task to its other variables.
EventOnly == UNCHANGED <<mainVars, connVars, genVars, bridge, mpc>>

\* First the mutex: a session closed in the meantime ends the task;
\* otherwise the voice-setup task is spawned and its handle stored.
EventInit(g) ==
  /\ epc[g] = "init" /\ lock[g] = "free"
  /\ epc' = [epc EXCEPT ![g] = IF closed[g] THEN "done" ELSE "loop"]
  /\ vpc' = [vpc EXCEPT ![g] = IF closed[g] THEN @ ELSE "waitStart"]
  /\ EventOnly
  /\ UNCHANGED <<sessions, creds, sessVars, terminal_error, vabort, mq>>

\* The first two branches of the biased select, or a closed event channel.
EventBreak(g) ==
  /\ epc[g] = "loop"
  /\ \/ closed[g]
     \/ ws[ConnOf[g]] = "closed"
     \/ mpc[g] = "down" /\ mq[g] = <<>>
  /\ epc' = [epc EXCEPT ![g] = "finish"]
  /\ EventOnly
  /\ UNCHANGED <<sessions, creds, sessVars, terminal_error, vpc, vabort, mq>>

\* The later branches are polled only when the first two are not ready.
Receives(g, event) ==
  /\ epc[g] = "loop" /\ ~closed[g] /\ ws[ConnOf[g]] = "open"
  /\ mq[g] # <<>> /\ Head(mq[g]) = event
  /\ mq' = [mq EXCEPT ![g] = Tail(@)]

EventConnected(g) ==
  /\ Receives(g, "Connected")
  /\ epc' = [epc EXCEPT ![g] = "connLock"]
  /\ EventOnly
  /\ UNCHANGED <<sessions, creds, sessVars, terminal_error, vpc, vabort>>

\* session_id is stored under the mutex, unless the session was closed.
EventConnectedLock(g) ==
  /\ epc[g] = "connLock" /\ lock[g] = "free"
  /\ epc' = [epc EXCEPT ![g] = IF closed[g] THEN "finish" ELSE "connSend"]
  /\ session_id' = [session_id EXCEPT ![g] = ~closed[g]]
  /\ EventOnly
  /\ UNCHANGED <<sessions, creds, closed, lock, terminal_error, vpc, vabort, mq>>

\* The mutex is free again when the TURN credentials are issued.
EventConnectedSend(g) ==
  /\ epc[g] = "connSend"
  /\ epc' = [epc EXCEPT ![g] = "loop"]
  /\ creds' = [creds EXCEPT ![ConnOf[g]] = @ \cup {g}]
  /\ EventOnly
  /\ UNCHANGED <<sessions, sessVars, terminal_error, vpc, vabort, mq>>

EventDisconnected(g) ==
  /\ Receives(g, "Disconnected")
  /\ epc' = [epc EXCEPT ![g] = "finish"]
  /\ terminal_error' = [terminal_error EXCEPT ![g] = TRUE]
  /\ EventOnly
  /\ UNCHANGED <<sessions, creds, sessVars, vpc, vabort>>

\* Mutant: the entry is removed before the session is shut down.
FinishEarly(g) ==
  /\ epc[g] = "finish" /\ lock[g] = "free" /\ ~AlreadyShut(g)
  /\ epc' = [epc EXCEPT ![g] = "remove"]
  /\ ShutdownBegin(g, "event")
  /\ EventOnly
  /\ UNCHANGED <<sessions, creds, session_id, terminal_error, mq>>

\* finish_session: shutdown_user_session under the session mutex ...
FinishShutdown(g) ==
  /\ epc[g] = "finish" /\ lock[g] = "free" /\ ~AlreadyShut(g)
  /\ epc' = [epc EXCEPT ![g] = "finishing"]
  /\ ShutdownBegin(g, "event")
  /\ EventOnly
  /\ UNCHANGED <<sessions, creds, session_id, terminal_error, mq>>

FinishSkipShutdown(g) ==
  /\ epc[g] = "finish" /\ lock[g] = "free" /\ AlreadyShut(g)
  /\ epc' = [epc EXCEPT ![g] = "remove"]
  /\ EventOnly
  /\ UNCHANGED <<sessions, creds, sessVars, terminal_error, vpc, vabort, mq>>

FinishShutdownEnd(g) ==
  /\ epc[g] = "finishing"
  /\ epc' = [epc EXCEPT ![g] = "remove"]
  /\ ShutdownEnd(g)
  /\ UNCHANGED <<mainVars, sessions, connVars, creds, stage, closed,
                 session_id, terminal_error, vpc, vabort, mumbleVars>>

\* Mutant: any session of the connection counts as this one.
AnyCurrent(g) == Occupied(ConnOf[g])

\* Arc::ptr_eq of the map's entry with this task's session.
IsCurrent(g) == sessions[ConnOf[g]] = g

\* Mutant: the browser is not told.
FinishSilent(g) ==
  /\ epc[g] = "remove" /\ IsCurrent(g)
  /\ epc' = [epc EXCEPT ![g] = "revoke"]
  /\ sessions' = [sessions EXCEPT ![ConnOf[g]] = NoGen]
  /\ terminal_error' = [terminal_error EXCEPT ![g] = FALSE]
  /\ EventOnly
  /\ UNCHANGED <<creds, sessVars, vpc, vabort, mq>>

\* ... then, under the map's write lock, removal of this generation and the
\* terminal error, ...
FinishRemove(g) ==
  LET c == ConnOf[g] IN
  /\ epc[g] = "remove" /\ IsCurrent(g)
  /\ epc' = [epc EXCEPT ![g] = "revoke"]
  /\ sessions' = [sessions EXCEPT ![c] = NoGen]
  /\ Report(c, g, terminal_error[g])
  /\ terminal_error' = [terminal_error EXCEPT ![g] = FALSE]
  /\ UNCHANGED <<mainVars, hpc, cur, ws, websocket_slots, creds, genVars,
                 sessVars, voiceVars, mumbleVars>>

\* ... or nothing, if another caller removed it.
FinishReplaced(g) ==
  /\ epc[g] = "remove" /\ ~IsCurrent(g)
  /\ epc' = [epc EXCEPT ![g] = "revoke"]
  /\ terminal_error' = [terminal_error EXCEPT ![g] = FALSE]
  /\ EventOnly
  /\ UNCHANGED <<sessions, creds, sessVars, vpc, vabort, mq>>

\* Mutant: the task ends without revoking.
EventForgets(g) ==
  /\ epc[g] = "revoke"
  /\ epc' = [epc EXCEPT ![g] = "done"]
  /\ mq' = [mq EXCEPT ![g] = <<>>]
  /\ EventOnly
  /\ UNCHANGED <<sessions, creds, sessVars, terminal_error, vpc, vabort>>

\* turn.revoke(conn_id) ends the task; its event receiver is dropped.
EventRevoke(g) ==
  /\ epc[g] = "revoke"
  /\ epc' = [epc EXCEPT ![g] = "done"]
  /\ creds' = [creds EXCEPT ![ConnOf[g]] = {}]
  /\ mq' = [mq EXCEPT ![g] = <<>>]
  /\ EventOnly
  /\ UNCHANGED <<sessions, sessVars, terminal_error, vpc, vabort>>

-----------------------------------------------------------------------------
(* The voice-setup task.                                                   *)

VoiceOnly == UNCHANGED <<mainVars, sessions, connVars, creds, genVars, sessVars,
                         eventVars, mumbleVars>>

\* The CryptState arrived; resolving a literal address and binding the UDP
\* socket do not suspend, so the task is now running on some worker.
VoiceCrypt(g) ==
  /\ vpc[g] = "waitCrypt"
  /\ vpc' = [vpc EXCEPT ![g] = "running"]
  /\ VoiceOnly /\ UNCHANGED <<vabort, bridge>>

\* 10 s without CryptState, or resolving or binding failed: voice_error.
VoiceFail(g) ==
  /\ vpc[g] \in {"waitCrypt", "running"}
  /\ vpc' = [vpc EXCEPT ![g] = "done"]
  /\ vabort' = [vabort EXCEPT ![g] = FALSE]
  /\ VoiceOnly /\ UNCHANGED bridge

\* The session mutex (or the resolver) makes the task wait: an abort takes
\* effect here.
VoiceSuspend(g) ==
  /\ vpc[g] = "running"
  /\ vpc' = [vpc EXCEPT ![g] = IF vabort[g] THEN "done" ELSE "lockWait"]
  /\ vabort' = [vabort EXCEPT ![g] = FALSE]
  /\ VoiceOnly /\ UNCHANGED bridge

\* The mutex is acquired: the audio bridge is stored in the session.
VoiceInstall(g) ==
  /\ vpc[g] \in {"running", "lockWait"} /\ lock[g] = "free"
  /\ vpc' = [vpc EXCEPT ![g] = "done"]
  /\ vabort' = [vabort EXCEPT ![g] = FALSE]
  /\ bridge' = [bridge EXCEPT ![g] = TRUE]
  /\ VoiceOnly

-----------------------------------------------------------------------------
(* The Mumble control task, as far as it ends sessions.                    *)

MumbleOnly == UNCHANGED <<mainVars, sessions, connVars, creds, genVars,
                          sessVars, eventVars, voiceVars>>

MumbleRunning == {"up", "synced", "rejected"}

\* The Disconnect command is queued, or the MumbleClient was dropped.  What
\* the task still reports is not read any more, so only Quit is left to it.
Released(g) == closed[g] \/ stage[g] = "failed"

\* ServerSync
MumbleSync(g) ==
  /\ mpc[g] = "up" /\ ~Released(g)
  /\ mpc' = [mpc EXCEPT ![g] = "synced"]
  /\ mq' = [mq EXCEPT ![g] = Append(@, "Connected")]
  /\ MumbleOnly

\* Reject reports the disconnection but the task goes on reading, until the
\* session it thereby ends tells it to quit.
MumbleReject(g) ==
  /\ mpc[g] = "up" /\ ~Released(g)
  /\ mpc' = [mpc EXCEPT ![g] = "rejected"]
  /\ mq' = [mq EXCEPT ![g] = Append(@, "Disconnected")]
  /\ MumbleOnly

\* The stream ended or failed, or CryptSetup was invalid.
MumbleLost(g) ==
  /\ mpc[g] \in {"up", "synced"} /\ ~Released(g)
  /\ mpc' = [mpc EXCEPT ![g] = "down"]
  /\ mq' = [mq EXCEPT ![g] = Append(@, "Disconnected")]
  /\ MumbleOnly

\* The command loop breaks.
MumbleQuit(g) ==
  /\ mpc[g] \in MumbleRunning /\ Released(g)
  /\ mpc' = [mpc EXCEPT ![g] = "down"]
  /\ MumbleOnly /\ UNCHANGED mq

-----------------------------------------------------------------------------
(* Shutdown: the signal, then SessionManager::close.                       *)

\* SIGTERM or Ctrl-C: begin_shutdown.
Signal ==
  /\ Stops /\ main = "serving"
  /\ main' = "signalled" /\ shutdown' = TRUE
  /\ UNCHANGED <<todo, mcur, sessions, connVars, creds, genVars, sessVars,
                 eventVars, voiceVars, mumbleVars>>

\* close() collects the keys of the map ...
CloseScan ==
  /\ main = "signalled"
  /\ main' = "closing"
  /\ todo' = {c \in Conns : Occupied(c)}
  /\ UNCHANGED <<shutdown, mcur, sessions, connVars, creds, genVars, sessVars,
                 eventVars, voiceVars, mumbleVars>>

\* ... and calls disconnect_user for each of them.
CloseRemove(c) ==
  /\ main = "closing" /\ c \in todo
  /\ todo' = todo \ {c}
  /\ sessions' = [sessions EXCEPT ![c] = NoGen]
  /\ mcur' = sessions[c]
  /\ main' = IF Occupied(c) THEN "discWait" ELSE "closing"
  /\ UNCHANGED <<shutdown, connVars, creds, genVars, sessVars, eventVars,
                 voiceVars, mumbleVars>>

CloseShutdown ==
  /\ main = "discWait" /\ lock[mcur] = "free" /\ ~AlreadyShut(mcur)
  /\ main' = "discShut"
  /\ ShutdownBegin(mcur, "main")
  /\ UNCHANGED <<shutdown, todo, mcur, sessions, connVars, creds, genVars,
                 session_id, eventVars, bridge, mumbleVars>>

\* Mutant: a session that somebody else has shut down is waited for again.
CloseWaitsAgain ==
  /\ main = "discWait" /\ lock[mcur] = "free" /\ AlreadyShut(mcur) /\ UNCHANGED vars

CloseSkipShutdown ==
  /\ main = "discWait" /\ lock[mcur] = "free" /\ AlreadyShut(mcur)
  /\ main' = "closing"
  /\ UNCHANGED <<shutdown, todo, mcur, sessions, connVars, creds, genVars,
                 sessVars, eventVars, voiceVars, mumbleVars>>

CloseShutdownEnd ==
  /\ main = "discShut"
  /\ main' = "closing"
  /\ ShutdownEnd(mcur)
  /\ UNCHANGED <<shutdown, todo, mcur, sessions, connVars, creds, stage,
                 closed, session_id, eventVars, vpc, vabort, mumbleVars>>

CloseDone ==
  /\ main = "closing" /\ todo = {}
  /\ main' = "closed" /\ mcur' = NoGen
  /\ UNCHANGED <<shutdown, todo, sessions, connVars, creds, genVars, sessVars,
                 eventVars, voiceVars, mumbleVars>>

\* close() returned and run() is done: the runtime is dropped with every task.
Exit ==
  /\ main = "closed"
  /\ main' = "exited"
  /\ UNCHANGED <<shutdown, todo, mcur, sessions, connVars, creds, genVars,
                 sessVars, eventVars, voiceVars, mumbleVars>>

\* Nothing is left to do: the process is gone, or every task has ended.
Quiescent ==
  \/ main = "exited"
  \/ /\ main = "serving"
     /\ \A c \in Conns : hpc[c] \in {"new", "gone"}
     /\ \A g \in Gens : /\ stage[g] \in {"unused", "failed", "live"}
                        /\ epc[g] \in {"none", "done"}
                        /\ vpc[g] \in {"none", "done"}
                        /\ mpc[g] \in {"off", "down"}
Done == Quiescent /\ UNCHANGED vars

-----------------------------------------------------------------------------
HandlerStep(c) ==
  \/ Accept(c) \/ SendTerminal(c) \/ SendFail(c) \/ Leave(c) \/ Stop(c)
  \/ BadConnect(c) \/ Lookup(c) \/ StartVoice(c) \/ RefreshIce(c)
  \/ OtherCall(c) \/ CallTimeout(c) \/ HandlerRemove(c) \/ HandlerShutdown(c)
  \/ HandlerSkipShutdown(c) \/ HandlerShutdownEnd(c) \/ HandlerRevoke(c)

ConnectStep(g) ==
  \/ Connect(g) \/ ConnectStopping(g) \/ DirectConnect(g) \/ Reserve(g)
  \/ Refuse(g) \/ MumbleUp(g) \/ ConnectFail(g) \/ Cancel(g) \/ Insert(g)
  \/ Duplicate(g) \/ DuplicateEnd(g)

EventStep(g) ==
  \/ EventInit(g) \/ EventBreak(g) \/ EventConnected(g)
  \/ EventConnectedLock(g) \/ EventConnectedSend(g) \/ EventDisconnected(g)
  \/ FinishShutdown(g) \/ FinishSkipShutdown(g) \/ FinishShutdownEnd(g)
  \/ FinishRemove(g) \/ FinishReplaced(g) \/ EventRevoke(g)

VoiceStep(g) ==
  \/ VoiceCrypt(g) \/ VoiceFail(g) \/ VoiceSuspend(g)
  \/ VoiceInstall(g)

MumbleStep(g) ==
  \/ MumbleSync(g) \/ MumbleReject(g) \/ MumbleLost(g) \/ MumbleQuit(g)

MainStep ==
  \/ Signal \/ CloseScan \/ CloseShutdown \/ CloseSkipShutdown \/ CloseShutdownEnd
  \/ CloseDone \/ Exit
  \/ \E c \in Conns : CloseRemove(c)

Running ==
  \/ \E c \in Conns : HandlerStep(c)
  \/ \E g \in Gens : \/ ConnectStep(g) \/ EventStep(g) \/ VoiceStep(g)
                     \/ MumbleStep(g)
  \/ MainStep

Next == (main # "exited" /\ Running) \/ Done

Spec == Init /\ [][Next]_vars

\* Fairness.  tokio polls every task that is ready, so a step that stays
\* possible is taken; each wait of connect_user and of the voice setup has a
\* time limit.  The handler's select! picks at random among its ready
\* branches, so a client that keeps sending cannot starve Stop forever.
\* Clients, the Mumble server and the signal owe nothing.
Polled(A) == main # "exited" /\ A
HandlerCleanup(c) ==
  \/ HandlerRemove(c) \/ HandlerShutdown(c) \/ HandlerSkipShutdown(c)
  \/ HandlerShutdownEnd(c) \/ HandlerRevoke(c)
ConnectProgress(g) ==
  \/ Reserve(g) \/ Refuse(g) \/ MumbleUp(g) \/ ConnectFail(g) \/ Insert(g)
  \/ Duplicate(g) \/ DuplicateEnd(g)
CloseProgress ==
  \/ CloseScan \/ CloseShutdown \/ CloseSkipShutdown \/ CloseShutdownEnd
  \/ CloseDone \/ Exit \/ \E c \in Conns : CloseRemove(c)
Fairness ==
  /\ \A c \in Conns :
       /\ SF_vars(Polled(Stop(c))) /\ WF_vars(Polled(SendTerminal(c)))
       /\ WF_vars(Polled(OtherCall(c))) /\ WF_vars(Polled(HandlerCleanup(c)))
  /\ \A g \in Gens :
       /\ WF_vars(Polled(ConnectProgress(g))) /\ WF_vars(Polled(EventStep(g)))
       /\ WF_vars(Polled(VoiceStep(g))) /\ WF_vars(Polled(MumbleQuit(g)))
  /\ WF_vars(Polled(CloseProgress))
FairSpec == Spec /\ Fairness

-----------------------------------------------------------------------------
(* Properties.                                                             *)

Holding == {g \in Gens : slot[g]}
Spent == {g \in Gens : stage[g] \notin {"unused", "checked"} /\ ~slot[g]}
Active == {c \in Conns : hpc[c] \notin {"new", "gone"}}
GensOf(c) == {g \in Gens : ConnOf[g] = c}

\* Type invariant of the variables above.
TypeOK ==
  /\ shutdown \in BOOLEAN /\ todo \subseteq Conns /\ mcur \in Gens \cup {NoGen}
  /\ main \in {"serving", "signalled", "closing", "discWait", "discShut",
              "closed", "exited"}
  /\ sessions \in [Conns -> Gens \cup {NoGen}] /\ slots \in Nat
  /\ hpc \in [Conns -> HandlerOpen \cup
                {"new", "leave", "discWait", "discShut", "revoke", "gone"}]
  /\ cur \in [Conns -> Gens \cup {NoGen}] /\ ws \in [Conns -> {"open", "closed"}]
  /\ out \in [Conns -> SUBSET (Gens \cup {NoGen})]
  /\ \A c \in Conns : hpc[c] \in {"connecting", "call", "discWait", "discShut"}
                    => cur[c] \in Gens
  /\ main \in {"discWait", "discShut"} => mcur \in Gens
  /\ websocket_slots \in Nat
  /\ creds \in [Conns -> SUBSET Gens]
  /\ stage \in [Gens -> Connecting \cup {"unused", "failed", "live"}]
  /\ slot \in [Gens -> BOOLEAN] /\ closed \in [Gens -> BOOLEAN]
  /\ session_id \in [Gens -> BOOLEAN]
  /\ lock \in [Gens -> {"free", "handler", "event", "main"}]
  /\ epc \in [Gens -> {"none", "init", "loop", "connLock", "connSend", "finish",
                      "finishing", "remove", "revoke", "done"}]
  /\ terminal_error \in [Gens -> BOOLEAN]
  /\ vpc \in [Gens -> {"none", "waitStart", "waitCrypt", "running", "lockWait",
                      "done"}]
  /\ vabort \in [Gens -> BOOLEAN] /\ bridge \in [Gens -> BOOLEAN]
  /\ mpc \in [Gens -> MumbleRunning \cup {"off", "down"}]
  /\ mq \in [Gens -> Seq({"Connected", "Disconnected"})]

\* A browser whose WebSocket was admitted is never told "Server full" while
\* the server runs: the upgrade's permit covers the session's, because no
\* path of connect_user, teardown or cancellation lets a session keep its
\* permit once the handler can connect again or has ended.
AdmittedNeverFull ==
  \A g \in Gens : stage[g] = "checked" /\ sessions[ConnOf[g]] = NoGen /\ ~shutdown
                 => slots > 0

\* A terminal error (mumble_disconnected, connect_failed) is queued only when
\* the session it is about has given back its capacity and left the map, so
\* the reconnect it invites cannot fail on the session's own remains.
TerminalAfterRelease ==
  \A c \in Conns, g \in Gens : g \in out[c] => ~slot[g] /\ sessions[c] # g

\* A session in the map is served by its event task, and if it is already
\* closed, that task is about to remove it: the map keeps no dead entry that
\* would answer "Already connected" for ever.
RegisteredIsServed ==
  \A c \in Conns, g \in Gens : sessions[c] = g =>
    /\ epc[g] \notin {"none", "revoke", "done"}
    /\ closed[g] => epc[g] \in {"finishing", "remove"}

\* While TURN credentials of a connection are valid, someone who will revoke
\* them is still to run: its handler, or an event task in its loop or later.
\* (process_events issues them after unlocking, refresh_ice on a session that
\* may be closed, so neither revocation alone would do.)
CredentialHasRevoker ==
  \A c \in Conns : \A h \in creds[c] :
    \/ hpc[c] # "gone"
    \/ \E g \in Gens : ConnOf[g] = c /\ epc[g] \notin {"none", "init", "done"}

\* turn.revoke(conn_id) at the end of an old event task revokes by connection,
\* not by session.  It takes the credentials of a registered, open session only
\* when its WebSocket is ending anyway: the send task has closed it, or has a
\* terminal error to send, or the server stops.
LiveCredentialKept ==
  [][\A c \in Conns : \A g \in creds[c] \ creds'[c] :
       IsCurrent(g) /\ ~closed[g] => ws[c] = "closed" \/ out[c] # {} \/ shutdown]_vars

\* A step that takes an entry out of the map clears it for its owner: the
\* handler's disconnect_user, close(), or the entry's own event task.
OwnerRemoves ==
  \A c \in Conns : \A g \in Gens :
    sessions[c] = g /\ sessions'[c] # g =>
      /\ sessions'[c] = NoGen
      /\ \/ hpc[c] = "leave" /\ hpc'[c] # "leave"
         \/ c \in todo /\ c \notin todo'
         \/ epc[g] = "remove" /\ epc'[g] = "revoke"

\* An entry leaves the map only by its own handler's disconnect_user, by
\* close(), or by its own event task; it is never replaced by another one,
\* and an old generation's finish_session does not touch a reconnect.
EntryRemovedByOwner == [][OwnerRemoves]_vars

\* SessionManager implements the registry: capacity, one session per
\* connection, and permits that are never taken twice by one session.
Registry == INSTANCE SessionRegistry WITH
  Connections <- Conns, Sessions <- Gens, Nobody <- NoGen,
  Capacity <- MaxConnections, registry <- sessions, holding <- Holding,
  spent <- Spent
ImplementsRegistry == Registry!Spec

\* A handler that leaves its loop cleans up, unless the process ends first: the
\* connection ends with no session, no capacity, no task, no TURN credentials.
CleanedUp(c) ==
  /\ hpc[c] = "gone" /\ sessions[c] = NoGen /\ creds[c] = {}
  /\ \A g \in GensOf(c) : ~slot[g] /\ epc[g] \in {"none", "done"}
                         /\ vpc[g] \in {"none", "done"} /\ mpc[g] \in {"off", "down"}
LeaveCleansUp ==
  \A c \in Conns : hpc[c] = "leave" ~> CleanedUp(c) \/ main = "exited"

\* A lost Mumble connection ends the WebSocket that used it, from the event that
\* the control task queues, behind whatever else is in the queue, to the handler.
MumbleGone(g) ==
  stage[g] = "live" /\ \E i \in DOMAIN mq[g] : mq[g][i] = "Disconnected"
LostMumbleEndsWebSocket ==
  \A g \in Gens : MumbleGone(g) ~> hpc[ConnOf[g]] = "gone" \/ main = "exited"

\* After a stop signal close() returns and the process ends, whatever the
\* handlers and event tasks that it shares session mutexes with are doing.
StopReturns == shutdown ~> main = "exited"

-----------------------------------------------------------------------------
(* Claims of the repository that the code does not keep.                   *)

\* src/session/tests.rs: immediate_disconnect_does_not_start_voice_after_
\* teardown.  A session whose teardown has finished has no audio bridge while
\* the map or its event task still keeps it from being dropped.
NoVoiceAfterTeardown ==
  \A g \in Gens : closed[g] /\ lock[g] = "free" =>
    ~(bridge[g] /\ (IsCurrent(g) \/ epc[g] # "done"))

\* README: SIGTERM/CTRL-C stops WebSockets, sessions, ...  When close() has
\* returned, no session is registered.
CloseStopsSessions ==
  main = "closed" => \A c \in Conns : sessions[c] = NoGen
=============================================================================
