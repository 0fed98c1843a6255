------------------------------ MODULE ServerRun ------------------------------
(***************************************************************************)
(* The life of the process (main.rs, server.rs): load the configuration,   *)
(* bind the sockets one after the other, start TURN, serve, and close in   *)
(* order after a signal or a failed step.                                  *)
(***************************************************************************)
EXTENDS TurnService

CONSTANTS Files, Envs  \* configuration files and environments

VARIABLE stage   \* how far run() is

vars == <<stage, turnVars>>

Init == /\ stage = "load" /\ config = None /\ TurnInit

Load(file, env) ==
  /\ stage = "load"
  /\ IF Loads(file, env)
     THEN config' = Overridden(file, env) /\ stage' = "http"
     ELSE config' = None /\ stage' = "failed"
  /\ UNCHANGED <<bound, shutdown, udp, accepting, streamVars, revokeVars, allocVars>>

\* Bind a socket: it is free of the program's own sockets, and of others'.
Free(socket) ==
  \A b \in bound : Protocol(b) # Protocol(socket)
                     \/ Ports(config, b) \cap Ports(config, socket) = {}

Bind(socket, next) ==
  /\ stage = socket /\ Free(socket)
  /\ bound' = bound \cup {socket} /\ stage' = next
  /\ UNCHANGED <<config, shutdown, udp, accepting, streamVars, revokeVars, allocVars>>

\* The listeners of TURN are bound before any of its tasks is started.
BindSockets ==
  \/ Bind("http", IF config.enabled THEN "udp" ELSE "media")
  \/ Bind("udp", "tcp")
  \/ Bind("tcp", IF config.cert # None THEN "tls" ELSE "turn")
  \/ Bind("tls", "turn")

\* TurnService::start: the UDP server, the task that closes it, accept loops.
StartTurn ==
  /\ stage = "turn" /\ stage' = "media"
  /\ udp' = "up" /\ servers' = {Udp}
  /\ accepting' = [l \in Listeners |-> IF l \in bound THEN "up" ELSE "none"]
  /\ UNCHANGED <<config, bound, shutdown, listener, task, closed, revokeVars, allocVars>>

BindMedia == Bind("media", "serving")

\* A step of start or run fails: what was bound is dropped.
StartFails ==
  /\ stage \in {"http", "udp", "tcp", "tls", "turn"}
  /\ stage' = "failed" /\ bound' = {}
  /\ UNCHANGED <<config, shutdown, udp, accepting, streamVars, revokeVars, allocVars>>

\* Mutant: run returns the error at once.
MediaFailsAtOnce ==
  /\ stage = "media" /\ stage' = "failed" /\ bound' = {}
  /\ UNCHANGED <<config, shutdown, udp, accepting, streamVars, revokeVars, allocVars>>

\* initialize_media fails: TURN is closed first.
MediaFails ==
  /\ stage = "media" /\ stage' = "aborting" /\ shutdown' = config.enabled
  /\ UNCHANGED <<config, bound, udp, accepting, streamVars, revokeVars, allocVars>>

\* While there are handlers and event tasks, sessions ask for credentials.
IceConfig(s) ==
  /\ stage \in {"serving", "draining", "closing"} /\ config.enabled
  /\ Issue(s) /\ UNCHANGED stage

\* A session ends, or manager.close() ends it; the handler and the event task
\* both revoke its credentials.
EndSession(c, s) ==
  /\ stage \in {"serving", "draining", "closing"} /\ config.enabled
  /\ Revoke(c, s) /\ UNCHANGED stage

\* The signal ends axum::serve and drops its listener.
Signal ==
  /\ stage = "serving" /\ stage' = "draining" /\ bound' = bound \ {"http"}
  /\ UNCHANGED <<config, shutdown, udp, accepting, streamVars, revokeVars, allocVars>>

\* manager.close() has closed the media mux; turn.close() tells the tasks.
CloseTurn ==
  /\ stage = "draining" /\ stage' = "closing"
  /\ bound' = bound \ {"media"} /\ shutdown' = config.enabled
  /\ UNCHANGED <<config, udp, accepting, streamVars, revokeVars, allocVars>>

\* turn.close() has waited for every task.
Closed ==
  /\ udp # "up" /\ \A l \in Listeners : accepting[l] \in {"none", "done"}
  /\ \/ stage = "closing" /\ stage' = "stopped"
     \/ stage = "aborting" /\ stage' = "failed"
  /\ bound' = bound \ {"http"}
  /\ UNCHANGED <<config, shutdown, udp, accepting, streamVars, revokeVars, allocVars>>

Next ==
  \/ \E file \in Files, env \in Envs : Load(file, env)
  \/ BindSockets \/ StartTurn \/ BindMedia \/ StartFails \/ MediaFails
  \/ Signal \/ CloseTurn \/ Closed
  \/ \E s \in Sessions : IceConfig(s) \/ \E c \in Calls : EndSession(c, s)
  \/ TurnNext /\ UNCHANGED stage

\* A request of u is carried out, or an allocation ends that cannot be refreshed.
Settle(u) ==
  \E server \in Servers :
    Allocate(<<server, u>>) \/ (~Authentic(u) /\ Expire(<<server, u>>))

\* Tasks run while they can, and an allocation that cannot be refreshed expires.
\* Nobody has to connect, finish a handshake, or send the signal, and no
\* deletion has to be carried out.
Fairness ==
  /\ WF_vars(CloseTurn \/ Closed) /\ WF_vars(CloseUdp /\ UNCHANGED stage)
  /\ \A l \in Listeners :
       WF_vars(((shutdown /\ AcceptBreaks(l)) \/ AcceptReturns(l)) /\ UNCHANGED stage)
  /\ \A t \in Streams : WF_vars(StreamNext(t) /\ UNCHANGED stage)
  /\ \A u \in Users : WF_vars(Settle(u) /\ UNCHANGED stage)

Spec == Init /\ [][Next]_vars /\ Fairness

-----------------------------------------------------------------------------
\* A configuration that validate accepts never makes the program bind a port
\* that it holds itself, whatever the environment overrides: neither at start
\* nor with an allocation's relay port.
NoOwnConflict == config # None => Disjoint(config)

\* When run() has returned, after a signal or because a step of the start
\* failed, no socket is bound, no task of TURN is left and no allocation
\* ("Closing must release both listener types, not leave background tasks alive").
NothingLeft ==
  stage \in {"stopped", "failed"} =>
    /\ bound = {} /\ Alive = {} /\ allocations = {}
    /\ \A l \in Listeners : accepting[l] \in {"none", "done"} /\ Holding(l) = {}

\* When revoke has returned, of the allocations that its session had on servers
\* in service those are left that a server did not delete within a second, and
\* those of a credential that expired and that some issue_at had removed before:
\* revoke does not know its username any more.  "Session teardown explicitly
\* deletes allocations" is true of the others only.
RevokeDeletes ==
  \A c \in Calls : call[c] = "returned" =>
    \A a \in due[c] \cap allocations : a \in late[c] \/ credentials[a[2]] = "purged"

\* What revoke misses does not stay, be it on a server that was too new to be
\* in its list, too slow to answer or in the middle of a request, or under a
\* username that was removed before: a credential that has left the store ends
\* up without allocations for good.
RevokedForGood ==
  \A u \in Users :
    credentials[u] \in {"purged", "revoked"} ~> [](\A a \in allocations \cup requests : a[2] # u)

\* A stream that closes gives its slot back, though nobody stops the service.
SlotComesBack == \A t \in Streams : t \in closed ~> task[t] = "done"

\* turn.close() returns, also while a TLS handshake hangs.
CloseReturns == stage \in {"closing", "aborting"} ~> stage \in {"stopped", "failed"}
=============================================================================
