----------------------------- MODULE TurnService -----------------------------
(***************************************************************************)
(* TurnService at work: the accept loops for TCP and TLS with their slots, *)
(* a task and a TURN server per stream, the list of servers that revoke    *)
(* goes through, the credentials, and close.  The turn crate is external:  *)
(* a server that runs authenticates a request against the credentials,     *)
(* then makes the allocation, and deletes the allocations of a username    *)
(* when it is told to, at any time in between.                             *)
(*                                                                         *)
(* A credential is known by the phase its remaining time puts it in; the   *)
(* times themselves are in TurnCredentials.                                *)
(***************************************************************************)
EXTENDS Config, FiniteSets

CONSTANTS Streams,    \* TCP connections of browsers
          Sessions,   \* sessions with TURN credentials
          MaxIssued,  \* bound on the usernames made for a session
          Calls       \* calls of revoke, by handlers and event tasks

Listeners == {"tcp", "tls"}
Udp == "udp"
Servers == Streams \cup {Udp}

\* <<s, n>>: the n-th username that is made for session s.
Users == Sessions \X (1 .. MaxIssued)

\* More than 90 s left; less; none, but not removed yet.
Kept == {"fresh", "old", "expired"}

ASSUME StreamsAssumption == Udp \notin Streams

VARIABLES config,
          bound,       \* sockets the process holds
          shutdown,    \* the watch channel
          udp,         \* the UDP server and the task that closes it
          accepting,   \* per listener, accept_streams
          listener,    \* per stream, where it came in
          task,        \* per stream, its task in accept_streams
          closed,      \* streams whose StreamConn is closed
          servers,     \* the servers in TurnService.servers, alive or not
          credentials, \* per username: "new", in Kept, "purged" or "revoked"
          requests,    \* <<server, username>> authenticated, not yet allocated
          allocations, \* <<server, username>>
          call,        \* per call of revoke: "none", "cleared", "deleting", "returned"
          names,       \* per call, usernames whose turn is still to come
          targets,     \* per call, the servers it collected
          pending,     \* per call, deletions it waits for: <<server, username>>
          late,        \* per call, deletions that took more than a second
          due          \* per call, what its session had on servers in service

turnVars == <<config, bound, shutdown, udp, accepting, listener, task, closed,
              servers, credentials, requests, allocations,
              call, names, targets, pending, late, due>>
streamVars == <<listener, task, closed, servers>>
revokeVars == <<call, names, targets, pending, late, due>>
allocVars == <<credentials, requests, allocations>>

TurnInit ==
  /\ bound = {} /\ shutdown = FALSE /\ udp = "none"
  /\ accepting = [l \in Listeners |-> "none"]
  /\ listener = [t \in Streams |-> "none"]
  /\ task = [t \in Streams |-> "none"] /\ closed = {} /\ servers = {}
  /\ credentials = [u \in Users |-> "new"] /\ requests = {} /\ allocations = {}
  /\ call = [c \in Calls |-> "none"]
  /\ names = [c \in Calls |-> {}] /\ targets = [c \in Calls |-> {}]
  /\ pending = [c \in Calls |-> {}] /\ late = [c \in Calls |-> {}]
  /\ due = [c \in Calls |-> {}]

\* Streams that hold one of the max_connections * 2 slots of a listener.
Holding(l) == {t \in Streams : listener[t] = l /\ task[t] \notin {"none", "done"}}

Alive == {t \in Streams : task[t] \in {"made", "serving", "closing"}}
           \cup (IF udp = "up" THEN {Udp} ELSE {})

-----------------------------------------------------------------------------
(* accept_streams.  select! takes any branch that is ready: a connection   *)
(* can still be accepted after the shutdown.                               *)

Accept(t, l) ==
  /\ accepting[l] = "up" /\ task[t] = "none"
  /\ Cardinality(Holding(l)) < config.max_connections * 2
  /\ listener' = [listener EXCEPT ![t] = l]
  /\ task' = [task EXCEPT ![t] = IF l = "tls" THEN "handshake" ELSE "ready"]
  /\ UNCHANGED <<config, bound, shutdown, udp, accepting, closed, servers,
                 revokeVars, allocVars>>

\* The loop ends at the shutdown, or when accept fails.
AcceptBreaks(l) ==
  /\ accepting[l] = "up"
  /\ accepting' = [accepting EXCEPT ![l] = "draining"]
  /\ UNCHANGED <<config, bound, shutdown, udp, streamVars, revokeVars, allocVars>>

\* It waits for its streams; the listener is dropped with it.
AcceptReturns(l) ==
  /\ accepting[l] = "draining" /\ Holding(l) = {}
  /\ accepting' = [accepting EXCEPT ![l] = "done"]
  /\ bound' = bound \ {l}
  /\ UNCHANGED <<config, shutdown, udp, streamVars, revokeVars, allocVars>>

StreamStep(t, from, to) ==
  /\ task[t] = from /\ task' = [task EXCEPT ![t] = to]
  /\ UNCHANGED <<config, bound, shutdown, udp, accepting, listener, closed, revokeVars>>

Handshake(t) == StreamStep(t, "handshake", "ready") /\ UNCHANGED <<servers, allocVars>>

\* Mutant: no limit on the handshake.
NeverGivesUp(t) == FALSE

\* The handshake fails or has not ended after 10 s; the slot is free.
HandshakeEnds(t) == StreamStep(t, "handshake", "done") /\ UNCHANGED <<servers, allocVars>>

\* make_server: Server::new starts to serve the stream, or fails.
NewServer(t) == StreamStep(t, "ready", "made") /\ UNCHANGED <<servers, allocVars>>
NewServerFails(t) == StreamStep(t, "ready", "done") /\ UNCHANGED <<servers, allocVars>>

\* make_server: the list forgets dead servers and gets the new one.
ListServer(t) ==
  /\ StreamStep(t, "made", "serving")
  /\ servers' = (servers \cap Alive) \cup {t}
  /\ UNCHANGED allocVars

\* The stream fails, is idle for 90 s, or the browser ends it.
StreamCloses(t) ==
  /\ task[t] \in {"made", "serving"} /\ t \notin closed
  /\ closed' = closed \cup {t}
  /\ UNCHANGED <<config, bound, shutdown, udp, accepting, listener, task, servers,
                 revokeVars, allocVars>>

\* Mutant: the task only waits for the shutdown.
OnShutdown(t) == shutdown

Ending(t) == t \in closed \/ shutdown

StopServing(t) ==
  /\ Ending(t) /\ StreamStep(t, "serving", "closing") /\ UNCHANGED <<servers, allocVars>>

\* server.close(): its allocations go with it.
ServerGone(server) ==
  /\ allocations' = {a \in allocations : a[1] # server}
  /\ requests' = {r \in requests : r[1] # server}

CloseServer(t) ==
  /\ StreamStep(t, "closing", "done") /\ ServerGone(t)
  /\ UNCHANGED <<servers, credentials>>

CloseUdp ==
  /\ udp = "up" /\ shutdown
  /\ udp' = "done" /\ bound' = bound \ {Udp} /\ ServerGone(Udp)
  /\ UNCHANGED <<config, shutdown, accepting, streamVars, revokeVars, credentials>>

-----------------------------------------------------------------------------
(* Credentials.                                                            *)

StoreStep ==
  UNCHANGED <<config, bound, shutdown, udp, accepting, streamVars, revokeVars,
              requests, allocations>>

Reusable(s) == {u \in Users : u[1] = s /\ credentials[u] = "fresh"}

\* issue_at: what has expired is removed, whoever it belongs to; then the
\* session's credential that is still fresh is found, or one is made.
Issue(s) ==
  /\ \E made \in {{}} \cup {{<<s, n>>} : n \in 1 .. MaxIssued} :
       /\ (made = {}) <=> (Reusable(s) # {})
       /\ \A u \in made : /\ credentials[u] = "new"
                          /\ \A n \in 1 .. u[2] - 1 : credentials[<<s, n>>] # "new"
       /\ credentials' = [u \in Users |-> IF u \in made THEN "fresh"
                                          ELSE IF credentials[u] = "expired" THEN "purged"
                                          ELSE credentials[u]]
  /\ StoreStep

\* unix_time() goes on, or is set back.
Clock(u) ==
  /\ credentials[u] \in Kept
  /\ \E phase \in IF credentials[u] = "old" THEN {"fresh", "expired"} ELSE {"old"} :
       credentials' = [credentials EXCEPT ![u] = phase]
  /\ StoreStep

\* Mutant: what was handed out once is accepted for ever.
OnceIssued(u) == credentials[u] # "new"

\* authenticate_at: the username is stored and has not expired.
Authentic(u) == credentials[u] \in {"fresh", "old"}

-----------------------------------------------------------------------------
(* Allocations, in the turn crate.                                         *)

\* A stream has one client address, which can have one allocation.
Authenticate(server, u) ==
  /\ server \in Alive \ closed /\ Authentic(u)
  /\ \A a \in requests \cup allocations : a[1] = server => server = Udp /\ a[2] # u
  /\ requests' = requests \cup {<<server, u>>}
  /\ UNCHANGED <<config, bound, shutdown, udp, accepting, streamVars, revokeVars,
                 credentials, allocations>>

\* allocate_conn: a port of the range, if one is left.
Allocate(r) ==
  /\ r \in requests /\ requests' = requests \ {r}
  /\ allocations' = IF Cardinality(allocations) <= config.relay_max - config.relay_min
                    THEN allocations \cup {r} ELSE allocations
  /\ UNCHANGED <<config, bound, shutdown, udp, accepting, streamVars, revokeVars,
                 credentials>>

\* The lifetime ends; only an authenticated refresh would extend it.
Expire(a) ==
  /\ a \in allocations /\ allocations' = allocations \ {a}
  /\ UNCHANGED <<config, bound, shutdown, udp, accepting, streamVars, revokeVars,
                 credentials, requests>>

-----------------------------------------------------------------------------
(* revoke.                                                                 *)

RevokeStep(c, from, to) ==
  /\ call[c] = from /\ call' = [call EXCEPT ![c] = to]
  /\ UNCHANGED <<config, bound, shutdown, udp, accepting, streamVars, requests>>

\* Mutant: revoke passes over what has expired.
AcceptedUsernames(s) == {u \in Users : u[1] = s /\ Authentic(u)}

\* What the store still has of s, expired or not: none, one or two usernames.
Usernames(s) == {u \in Users : u[1] = s /\ credentials[u] \in Kept}

\* First the credentials.  due: what s has on servers that are in service, but
\* for usernames that an earlier call has taken.
Revoke(c, s) ==
  /\ RevokeStep(c, "none", "cleared")
  /\ names' = [names EXCEPT ![c] = Usernames(s)]
  /\ credentials' = [u \in Users |-> IF u \in Usernames(s) THEN "revoked" ELSE credentials[u]]
  /\ due' = [due EXCEPT ![c] = {a \in allocations :
                                 /\ a[2][1] = s /\ credentials[a[2]] # "revoked"
                                 /\ a[1] = Udp \/ task[a[1]] = "serving"}]
  /\ UNCHANGED <<targets, pending, late, allocations>>

\* Then the servers, those that can be upgraded.
CollectServers(c) ==
  /\ RevokeStep(c, "cleared", "deleting")
  /\ targets' = [targets EXCEPT ![c] = servers \cap Alive]
  /\ UNCHANGED <<names, pending, late, due, credentials, allocations>>

\* for username in usernames: all servers are asked at once.
NextName(c, u) ==
  /\ pending[c] = {} /\ u \in names[c] /\ RevokeStep(c, "deleting", "deleting")
  /\ names' = [names EXCEPT ![c] = @ \ {u}]
  /\ pending' = [pending EXCEPT ![c] = targets[c] \X {u}]
  /\ UNCHANGED <<targets, late, due, credentials, allocations>>

\* delete_allocations_by_username
Delete(c, a) ==
  /\ a \in pending[c] /\ RevokeStep(c, "deleting", "deleting")
  /\ pending' = [pending EXCEPT ![c] = @ \ {a}]
  /\ allocations' = allocations \ {a}
  /\ UNCHANGED <<names, targets, late, due, credentials>>

\* No answer within a second; there is no second attempt.
DeleteTimesOut(c, a) ==
  /\ a \in pending[c] /\ RevokeStep(c, "deleting", "deleting")
  /\ pending' = [pending EXCEPT ![c] = @ \ {a}]
  /\ late' = [late EXCEPT ![c] = @ \cup {a}]
  /\ UNCHANGED <<names, targets, due, credentials, allocations>>

RevokeReturns(c) ==
  /\ names[c] = {} /\ pending[c] = {} /\ RevokeStep(c, "deleting", "returned")
  /\ UNCHANGED <<names, targets, pending, late, due, credentials, allocations>>

\* The steps of a stream's task that need nobody else.
StreamNext(t) ==
  \/ HandshakeEnds(t) \/ NewServer(t) \/ NewServerFails(t)
  \/ ListServer(t) \/ StopServing(t) \/ CloseServer(t)

TurnNext ==
  \/ \E t \in Streams : \/ \E l \in Listeners : Accept(t, l)
                        \/ Handshake(t) \/ StreamNext(t) \/ StreamCloses(t)
  \/ \E l \in Listeners : AcceptBreaks(l) \/ AcceptReturns(l)
  \/ CloseUdp
  \/ \E u \in Users : Clock(u) \/ \E server \in Servers : Authenticate(server, u)
  \/ \E r \in requests : Allocate(r)
  \/ \E a \in allocations : Expire(a)
  \/ \E c \in Calls : \/ CollectServers(c) \/ RevokeReturns(c)
                      \/ \E u \in names[c] : NextName(c, u)
                      \/ \E a \in pending[c] : Delete(c, a) \/ DeleteTimesOut(c, a)
=============================================================================
