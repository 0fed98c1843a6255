--------------------------- MODULE ServerRunProofs ---------------------------
(***************************************************************************)
(* Safety of the process's life and of TURN, for every set of streams,     *)
(* sessions, configuration files and environments.                         *)
(***************************************************************************)
EXTENDS ServerRun, TLAPS

-----------------------------------------------------------------------------
(* Ports.                                                                  *)

\* What Config::validate accepts gives every socket a port of its own.
LEMMA ValidDisjoint ==
  ASSUME NEW c, PortValues(c) \subseteq 0 .. MaxPort, Valid(c)
  PROVE  Disjoint(c)
<1>1. /\ c.listen_port \in Int /\ c.udp_port \in Int /\ c.port \in Int
      /\ c.tls_port \in Int /\ c.relay_min \in Int /\ c.relay_max \in Int
  <2>1. \A p \in 0 .. MaxPort : p \in Int
    OBVIOUS
  <2> QED
    BY <2>1, Zenon DEF PortValues
<1>2. SUFFICES ASSUME NEW a \in Needed(c), NEW b \in Needed(c), a # b,
                      Protocol(a) = Protocol(b), NEW p \in Ports(c, a) \cap Ports(c, b)
               PROVE  FALSE
  BY DEF Disjoint
<1>3. CASE c.enabled
  <2>1. /\ c.port # c.udp_port /\ c.port # c.listen_port
        /\ c.udp_port \notin c.relay_min .. c.relay_max
        /\ c.port \notin c.relay_min .. c.relay_max
        /\ c.cert # None => c.tls_port # c.port /\ c.tls_port # c.listen_port
    <3>1. PortsApart(c)
      BY <1>3 DEF Valid
    <3> QED
      BY <1>1, <3>1 DEF PortsApart, TlsPortFree
  <2>2. CASE Protocol(a) = "TCP"
    <3>1. a \in {"http", "tcp", "tls"} /\ b \in {"http", "tcp", "tls"}
      BY <1>2, <2>2 DEF Protocol
    <3>2. a = "tls" \/ b = "tls" => c.cert # None
      BY DEF Needed
    <3> QED
      BY <1>2, <2>1, <3>1, <3>2 DEF Ports
  <2>3. CASE Protocol(a) = "UDP"
    <3>1. a \in {"udp", "media", "relay"} /\ b \in {"udp", "media", "relay"}
      BY <1>2, <2>3 DEF Protocol, Needed
    <3> QED
      BY <1>2, <2>1, <3>1 DEF Ports
  <2> QED
    BY <2>2, <2>3 DEF Protocol
<1>4. CASE ~c.enabled
  BY <1>2, <1>4 DEF Needed, Protocol
<1> QED
  BY <1>3, <1>4, Zenon

\* Whatever file and environment are, a configuration that was loaded makes no
\* two parts of the program bind the same port.
THEOREM PortsDisjoint == Spec => []NoOwnConflict
<1>1. Init => NoOwnConflict
  BY DEF Init, NoOwnConflict
<1>2. ASSUME NoOwnConflict, [Next]_vars
      PROVE  NoOwnConflict'
  <2>1. CASE config' = config
    BY <1>2, <2>1 DEF NoOwnConflict, Disjoint, Needed, Ports
  <2>2. ASSUME NEW file \in Files, NEW env \in Envs, Load(file, env)
        PROVE  NoOwnConflict'
    <3>1. CASE Loads(file, env)
      <4> DEFINE c == Overridden(file, env)
      <4>1. PortValues(c) \subseteq 0 .. MaxPort /\ Valid(c)
        BY <3>1 DEF Loads
      <4>2. Disjoint(c)
        BY <4>1, ValidDisjoint
      <4>3. config' = c
        BY <2>2, <3>1 DEF Load
      <4> QED
        BY <4>2, <4>3 DEF NoOwnConflict, Disjoint, Needed, Ports
    <3>2. CASE ~Loads(file, env)
      BY <2>2, <3>2 DEF Load, NoOwnConflict
    <3> QED
      BY <3>1, <3>2
  <2>3. config' = config \/ \E file \in Files, env \in Envs : Load(file, env)
    BY <1>2, Zenon DEF Next, TurnNext, StreamNext, vars, turnVars, BindSockets, Bind, StartTurn,
      BindMedia, StartFails, MediaFails, Signal, CloseTurn, Closed, IceConfig, EndSession,
      Accept, Handshake, HandshakeEnds, NewServer, NewServerFails, ListServer,
      StreamCloses, StopServing, CloseServer, CloseUdp, AcceptBreaks, AcceptReturns,
      Issue, Clock, StoreStep, Authenticate, Allocate, Expire, Revoke, CollectServers,
      NextName, Delete, DeleteTimesOut, RevokeReturns, StreamStep, RevokeStep
  <2> QED
    BY <2>1, <2>2, <2>3
<1> QED
  BY <1>1, <1>2, PTL DEF Spec

-----------------------------------------------------------------------------
(* The inductive invariant.                                                *)

Starting == {"load", "http", "udp", "tcp", "tls", "turn"}
Over == {"stopped", "failed"}
Typed ==
  /\ stage \in Starting \cup {"media", "serving", "draining", "closing", "aborting"} \cup Over
  /\ bound \subseteq {"http", "udp", "tcp", "tls", "media"} /\ udp \in {"none", "up", "done"}
  /\ accepting \in [Listeners -> {"none", "up", "draining", "done"}]
  /\ listener \in [Streams -> Listeners \cup {"none"}]
  /\ task \in [Streams -> {"none", "handshake", "ready", "made", "serving", "closing", "done"}]
  /\ servers \subseteq Servers
  /\ credentials \in [Users -> {"new", "fresh", "old", "expired", "purged", "revoked"}]
  /\ requests \subseteq Servers \X Users /\ allocations \subseteq Servers \X Users
  /\ call \in [Calls -> {"none", "cleared", "deleting", "returned"}]
  /\ names \in [Calls -> SUBSET Users] /\ targets \in [Calls -> SUBSET Servers]
  /\ pending \in [Calls -> SUBSET (Servers \X Users)]
  /\ late \in [Calls -> SUBSET (Servers \X Users)]
  /\ due \in [Calls -> SUBSET (Servers \X Users)]

\* Before TURN starts nothing of it runs; afterwards each of its sockets belongs
\* to the task that will drop it; the end of run() waited for those tasks.
Owned ==
  /\ stage \in Starting =>
       udp = "none" /\ (\A l \in Listeners : accepting[l] = "none")
  /\ stage \in {"load", "http"} => bound = {}
  /\ stage \notin Starting =>
       /\ Udp \in bound => udp = "up"
       /\ \A l \in Listeners : l \in bound => accepting[l] \in {"up", "draining"}
  /\ "media" \in bound => stage \in {"serving", "draining"}
  /\ stage \in Over =>
       /\ udp # "up" /\ "http" \notin bound
       /\ \A l \in Listeners : accepting[l] \in {"none", "done"}

\* A stream that holds a slot belongs to a listener that still waits for it.
Awaited ==
  \A t \in Streams : task[t] \notin {"none", "done"} =>
    listener[t] \in Listeners /\ accepting[listener[t]] \in {"up", "draining"}

\* Servers in service are in the list, and requests and allocations are on
\* servers that are alive, under usernames that were handed out.
Listed ==
  /\ udp = "up" => Udp \in servers
  /\ \A t \in Streams : task[t] \in {"serving", "closing"} => t \in servers
Hosted ==
  /\ \A a \in requests \cup allocations : a[1] \in Alive /\ credentials[a[2]] # "new"
  /\ \A a \in requests : a \notin allocations

\* What a call of revoke has to delete was on a listed server, under a username
\* that is not in the store and cannot be used again.  If it is there and the
\* call took its username, this has still to come up, and then meets the server
\* among those collected; or the call waits for the server, or gave it up.
Accounted ==
  \A c \in Calls :
    /\ \A a \in due[c] :
         /\ a \notin requests /\ credentials[a[2]] \in {"purged", "revoked"}
         /\ a[1] # Udp => task[a[1]] \in {"serving", "closing", "done"}
         /\ credentials[a[2]] = "revoked" /\ a \in allocations =>
              \/ a[2] \in names[c] /\ (call[c] = "deleting" => a[1] \in targets[c])
              \/ a \in pending[c] \cup late[c]
    /\ call[c] = "returned" => names[c] = {} /\ pending[c] = {}

IInv == Typed /\ Owned /\ Awaited /\ Listed /\ Hosted /\ Accounted

\* The actions, by what they are about.
ProcessNext ==
  \/ \E file \in Files, env \in Envs : Load(file, env)
  \/ BindSockets \/ BindMedia \/ StartFails \/ MediaFails
  \/ Signal \/ CloseTurn \/ Closed
ListenNext ==
  \/ CloseUdp
  \/ \E l \in Listeners : AcceptBreaks(l) \/ AcceptReturns(l)
TaskNext ==
  \E t \in Streams : (\E l \in Listeners : Accept(t, l)) \/ Handshake(t) \/ StreamNext(t)
StoreNext ==
  \/ \E s \in Sessions : Issue(s)
  \/ \E u \in Users : Clock(u)
AllocNext ==
  \/ \E server \in Servers, u \in Users : Authenticate(server, u)
  \/ \E r \in requests : Allocate(r)
  \/ \E a \in allocations : Expire(a)
RevokeNext ==
  \E c \in Calls :
    \/ \E s \in Sessions : Revoke(c, s)
    \/ CollectServers(c) \/ RevokeReturns(c)
    \/ \E u \in names[c] : NextName(c, u)
    \/ \E a \in pending[c] : Delete(c, a) \/ DeleteTimesOut(c, a)

\* A step is one of these, and what it is not about it leaves alone.
LEMMA Steps ==
  ASSUME [Next]_vars
  PROVE  \/ ProcessNext /\ UNCHANGED <<udp, accepting, streamVars, revokeVars, allocVars>>
         \/ StartTurn
         \/ ListenNext /\ UNCHANGED <<stage, streamVars, revokeVars, credentials>>
         \/ TaskNext /\ UNCHANGED <<stage, bound, udp, accepting, revokeVars, credentials>>
         \/ AllocNext /\ UNCHANGED <<stage, bound, udp, accepting, streamVars, revokeVars, credentials>>
         \/ StoreNext /\ UNCHANGED <<stage, bound, udp, accepting, streamVars, revokeVars,
                                      requests, allocations>>
         \/ RevokeNext /\ UNCHANGED <<stage, bound, udp, accepting, streamVars, requests>>
         \/ UNCHANGED <<stage, bound, udp, accepting, listener, task, servers, revokeVars,
                        allocVars>>
<1>1. CASE UNCHANGED vars
  BY <1>1 DEF vars, turnVars, streamVars, revokeVars, allocVars
<1>2. CASE ProcessNext
  BY <1>2, Zenon DEF ProcessNext, Load, BindSockets, Bind, BindMedia, StartFails, MediaFails,
    Signal, CloseTurn, Closed
<1>3. CASE StartTurn
  BY <1>3
<1>4. CASE ListenNext /\ UNCHANGED stage
  BY <1>4, Zenon DEF ListenNext, CloseUdp, AcceptBreaks, AcceptReturns, allocVars
<1>5. CASE TaskNext /\ UNCHANGED stage
  <2>1. ASSUME NEW t \in Streams, NEW l \in Listeners, Accept(t, l)
        PROVE  UNCHANGED <<bound, udp, accepting, revokeVars, credentials>>
    BY <2>1, Zenon DEF Accept, allocVars
  <2>2. ASSUME NEW t \in Streams, Handshake(t) \/ StreamNext(t)
        PROVE  UNCHANGED <<bound, udp, accepting, revokeVars, credentials>>
    BY <2>2, Zenon DEF Handshake, StreamNext, HandshakeEnds, NewServer, NewServerFails,
      ListServer, StopServing, CloseServer, StreamStep, allocVars
  <2> QED
    BY <1>5, <2>1, <2>2, Zenon DEF TaskNext
<1>6. CASE AllocNext /\ UNCHANGED stage
  BY <1>6, Zenon DEF AllocNext, Authenticate, Allocate, Expire
<1>7. CASE RevokeNext /\ UNCHANGED stage
  <2>1. ASSUME NEW c \in Calls, NEW s \in Sessions, Revoke(c, s)
        PROVE  UNCHANGED <<bound, udp, accepting, streamVars, requests>>
    BY <2>1, Zenon DEF Revoke, RevokeStep
  <2>2. ASSUME NEW c \in Calls, CollectServers(c) \/ RevokeReturns(c)
        PROVE  UNCHANGED <<bound, udp, accepting, streamVars, requests>>
    BY <2>2, Zenon DEF CollectServers, RevokeReturns, RevokeStep
  <2>3. ASSUME NEW c \in Calls, NEW a, NextName(c, a) \/ Delete(c, a) \/ DeleteTimesOut(c, a)
        PROVE  UNCHANGED <<bound, udp, accepting, streamVars, requests>>
    BY <2>3, Zenon DEF NextName, Delete, DeleteTimesOut, RevokeStep
  <2> QED
    BY <1>7, <2>1, <2>2, <2>3, Zenon DEF RevokeNext
<1>8. CASE StoreNext /\ UNCHANGED stage
  BY <1>8, Zenon DEF StoreNext, Issue, Clock, StoreStep
<1>9. CASE \E t \in Streams : StreamCloses(t) /\ UNCHANGED stage
  BY <1>9, Zenon DEF StreamCloses
<1>10. \/ ProcessNext \/ StartTurn \/ UNCHANGED vars
       \/ /\ UNCHANGED stage
          /\ \/ ListenNext \/ TaskNext \/ StoreNext \/ AllocNext \/ RevokeNext
             \/ \E t \in Streams : StreamCloses(t)
  BY Zenon DEF Next, TurnNext, IceConfig, EndSession, ProcessNext, ListenNext, TaskNext,
    StoreNext, AllocNext, RevokeNext
<1> QED
  BY <1>1, <1>2, <1>3, <1>4, <1>5, <1>6, <1>7, <1>8, <1>9, <1>10, Zenon

\* Every action keeps the types.
LEMMA TypedStep ==
  ASSUME Typed, [Next]_vars
  PROVE  Typed'
<1> USE DEF Typed, Starting, Over, streamVars, revokeVars, allocVars
<1>1. CASE ProcessNext /\ UNCHANGED <<udp, accepting, streamVars, revokeVars, allocVars>>
  BY <1>1 DEF ProcessNext, Load, BindSockets, Bind, BindMedia, StartFails, MediaFails, Signal,
    CloseTurn, Closed
<1>2. CASE StartTurn
  BY <1>2 DEF StartTurn, Servers
<1>3. CASE ListenNext /\ UNCHANGED <<stage, streamVars, revokeVars, credentials>>
  <2>1. CASE CloseUdp
    BY <1>3, <2>1, ZenonT(30) DEF CloseUdp, ServerGone
  <2>2. ASSUME NEW l \in Listeners, AcceptBreaks(l) \/ AcceptReturns(l)
        PROVE  Typed'
    BY <1>3, <2>2, ZenonT(30) DEF AcceptBreaks, AcceptReturns
  <2> QED
    BY <1>3, <2>1, <2>2, Zenon DEF ListenNext
<1>4. CASE TaskNext /\ UNCHANGED <<stage, bound, udp, accepting, revokeVars, credentials>>
  <2>1. ASSUME NEW t \in Streams, NEW l \in Listeners, Accept(t, l)
        PROVE  Typed'
    BY <1>4, <2>1 DEF Accept
  <2>2. ASSUME NEW t \in Streams, Handshake(t) \/ StreamNext(t)
        PROVE  Typed'
    BY <1>4, <2>2 DEF StreamNext, Handshake, HandshakeEnds, NewServer, NewServerFails,
      ListServer, StopServing, CloseServer, StreamStep, ServerGone, Servers
  <2> QED
    BY <1>4, <2>1, <2>2, Zenon DEF TaskNext
<1>5. CASE AllocNext /\ UNCHANGED <<stage, bound, udp, accepting, streamVars, revokeVars, credentials>>
  <2>1. ASSUME NEW server \in Servers, NEW u \in Users, Authenticate(server, u)
        PROVE  Typed'
    BY <1>5, <2>1 DEF Authenticate
  <2>2. ASSUME NEW r, Allocate(r) \/ Expire(r)
        PROVE  Typed'
    BY <1>5, <2>2 DEF Allocate, Expire
  <2> QED
    BY <1>5, <2>1, <2>2, Zenon DEF AllocNext
<1>6. CASE RevokeNext /\ UNCHANGED <<stage, bound, udp, accepting, streamVars, requests>>
  <2>1. ASSUME NEW c \in Calls, NEW s \in Sessions, Revoke(c, s)
        PROVE  Typed'
    BY <1>6, <2>1 DEF Revoke, RevokeStep, Usernames
  <2>2. ASSUME NEW c \in Calls, CollectServers(c) \/ RevokeReturns(c)
        PROVE  Typed'
    BY <1>6, <2>2 DEF CollectServers, RevokeReturns, RevokeStep
  <2>3. ASSUME NEW c \in Calls, NEW u \in Users, NextName(c, u)
        PROVE  Typed'
    BY <1>6, <2>3 DEF NextName, RevokeStep
  <2>4. ASSUME NEW c \in Calls, NEW a \in pending[c], Delete(c, a) \/ DeleteTimesOut(c, a)
        PROVE  Typed'
    BY <1>6, <2>4 DEF Delete, DeleteTimesOut, RevokeStep
  <2> QED
    BY <1>6, <2>1, <2>2, <2>3, <2>4, Zenon DEF RevokeNext
<1>7. CASE StoreNext /\ UNCHANGED <<stage, bound, udp, accepting, streamVars, revokeVars,
                                   requests, allocations>>
  BY <1>7 DEF StoreNext, Issue, Clock, Kept
<1>8. CASE UNCHANGED <<stage, bound, udp, accepting, listener, task, servers, revokeVars, allocVars>>
  BY <1>8
<1> QED
  BY <1>1, <1>2, <1>3, <1>4, <1>5, <1>6, <1>7, <1>8, Steps

\* A username that was handed out is not new again, and one that has left the
\* store does not come back to it.
LEMMA StoreMoves ==
  ASSUME Typed
  PROVE  /\ StoreNext => \A u \in Users :
              /\ credentials[u] # "new" => credentials'[u] # "new"
              /\ credentials[u] \in {"purged", "revoked"} => credentials'[u] = credentials[u]
         /\ RevokeNext => \A u \in Users :
              /\ credentials'[u] = credentials[u] \/ credentials'[u] = "revoked"
              /\ credentials[u] \in {"purged", "revoked"} => credentials'[u] = credentials[u]
<1>1. credentials \in [Users -> {"new", "fresh", "old", "expired", "purged", "revoked"}]
  BY DEF Typed
<1>2. ASSUME NEW s \in Sessions, Issue(s), NEW u \in Users
      PROVE  /\ credentials[u] # "new" => credentials'[u] # "new"
             /\ credentials[u] \in {"purged", "revoked"} => credentials'[u] = credentials[u]
  BY <1>1, <1>2 DEF Issue
<1>3. ASSUME NEW v \in Users, Clock(v), NEW u \in Users
      PROVE  /\ credentials[u] # "new" => credentials'[u] # "new"
             /\ credentials[u] \in {"purged", "revoked"} => credentials'[u] = credentials[u]
  BY <1>1, <1>3 DEF Clock, Kept
<1>4. ASSUME NEW c \in Calls, NEW s \in Sessions, Revoke(c, s), NEW u \in Users
      PROVE  /\ credentials'[u] = credentials[u] \/ credentials'[u] = "revoked"
             /\ credentials[u] \in {"purged", "revoked"} => credentials'[u] = credentials[u]
  BY <1>1, <1>4 DEF Revoke, Usernames, Kept
<1>5. ASSUME RevokeNext, ~\E c \in Calls, s \in Sessions : Revoke(c, s)
      PROVE  credentials' = credentials
  BY <1>5, Zenon DEF RevokeNext, CollectServers, RevokeReturns, NextName, Delete, DeleteTimesOut
<1> QED
  BY <1>2, <1>3, <1>4, <1>5, Zenon DEF StoreNext

\* Sockets stay with the tasks that drop them, and run() ends after those.
LEMMA OwnedStep ==
  ASSUME Typed, Owned, [Next]_vars
  PROVE  Owned'
<1> USE DEF Typed, Owned, Starting, Over, Listeners, Udp
<1>1. CASE ProcessNext /\ UNCHANGED <<udp, accepting, streamVars, revokeVars, allocVars>>
  <2>1. CASE \E file \in Files, env \in Envs : Load(file, env)
    BY <1>1, <2>1 DEF Load
  <2>2. CASE BindSockets
    <3>1. CASE Bind("http", IF config.enabled THEN "udp" ELSE "media")
      BY <1>1, <3>1 DEF Bind
    <3>2. CASE Bind("udp", "tcp")
      BY <1>1, <3>2 DEF Bind
    <3>3. CASE Bind("tcp", IF config.cert # None THEN "tls" ELSE "turn")
      BY <1>1, <3>3 DEF Bind
    <3>4. CASE Bind("tls", "turn")
      BY <1>1, <3>4 DEF Bind
    <3> QED
      BY <2>2, <3>1, <3>2, <3>3, <3>4 DEF BindSockets
  <2>3. CASE BindMedia
    BY <1>1, <2>3 DEF BindMedia, Bind
  <2>4. CASE StartFails \/ MediaFails
    BY <1>1, <2>4 DEF StartFails, MediaFails
  <2>5. CASE Signal \/ CloseTurn \/ Closed
    BY <1>1, <2>5 DEF Signal, CloseTurn, Closed
  <2> QED
    BY <1>1, <2>1, <2>2, <2>3, <2>4, <2>5 DEF ProcessNext
<1>2. CASE StartTurn
  BY <1>2 DEF StartTurn
<1>3. CASE ListenNext /\ UNCHANGED <<stage, streamVars, revokeVars, credentials>>
  BY <1>3 DEF ListenNext, CloseUdp, AcceptBreaks, AcceptReturns
<1>4. CASE UNCHANGED <<stage, bound, udp, accepting>>
  BY <1>4
<1> QED
  BY <1>1, <1>2, <1>3, <1>4, Steps

\* accept_streams returns only when none of its streams holds a slot.
LEMMA AwaitedStep ==
  ASSUME Typed, Owned, Awaited, [Next]_vars
  PROVE  Awaited'
<1> USE DEF Typed, Awaited, streamVars
<1>1. CASE StartTurn
  BY <1>1 DEF StartTurn, Owned, Starting
<1>2. CASE ListenNext /\ UNCHANGED <<stage, streamVars, revokeVars, credentials>>
  BY <1>2 DEF ListenNext, CloseUdp, AcceptBreaks, AcceptReturns, Holding
<1>3. CASE TaskNext /\ UNCHANGED <<stage, bound, udp, accepting, revokeVars, credentials>>
  <2>1. ASSUME NEW t \in Streams, NEW l \in Listeners, Accept(t, l)
        PROVE  Awaited'
    BY <1>3, <2>1 DEF Accept
  <2>2. ASSUME NEW t \in Streams, Handshake(t) \/ StreamNext(t)
        PROVE  Awaited'
    BY <1>3, <2>2 DEF StreamNext, Handshake, HandshakeEnds, NewServer, NewServerFails,
      ListServer, StopServing, CloseServer, StreamStep
  <2> QED
    BY <1>3, <2>1, <2>2, Zenon DEF TaskNext
<1>4. CASE UNCHANGED <<listener, task, accepting>>
  BY <1>4
<1> QED
  BY <1>1, <1>2, <1>3, <1>4, Steps

\* make_server lists a server before its task serves; dead ones only are dropped.
LEMMA ListedStep ==
  ASSUME Typed, Owned, Awaited, Listed, [Next]_vars
  PROVE  Listed'
<1> USE DEF Typed, Listed, streamVars
<1>1. CASE StartTurn
  BY <1>1 DEF StartTurn, Owned, Awaited, Starting
<1>2. CASE ListenNext /\ UNCHANGED <<stage, streamVars, revokeVars, credentials>>
  BY <1>2 DEF ListenNext, CloseUdp, AcceptBreaks, AcceptReturns
<1>3. CASE TaskNext /\ UNCHANGED <<stage, bound, udp, accepting, revokeVars, credentials>>
  <2>1. ASSUME NEW t \in Streams, NEW l \in Listeners, Accept(t, l)
        PROVE  Listed'
    BY <1>3, <2>1 DEF Accept
  <2>2. ASSUME NEW t \in Streams, ListServer(t)
        PROVE  Listed'
    BY <1>3, <2>2 DEF ListServer, StreamStep, Alive
  <2>3. ASSUME NEW t \in Streams, Handshake(t) \/ (StreamNext(t) /\ ~ListServer(t))
        PROVE  Listed'
    BY <1>3, <2>3 DEF StreamNext, Handshake, HandshakeEnds, NewServer, NewServerFails,
      StopServing, CloseServer, StreamStep
  <2> QED
    BY <1>3, <2>1, <2>2, <2>3, Zenon DEF TaskNext
<1>4. CASE UNCHANGED <<udp, task, servers>>
  BY <1>4
<1> QED
  BY <1>1, <1>2, <1>3, <1>4, Steps

\* A server takes its requests and allocations with it when it closes.
LEMMA HostedStep ==
  ASSUME Typed, Owned, Awaited, Hosted, [Next]_vars
  PROVE  Hosted'
<1> USE StreamsAssumption DEF Typed, Hosted, Alive, streamVars, allocVars
<1>1. CASE StartTurn
  BY <1>1 DEF StartTurn, Owned, Starting
<1>2. CASE ListenNext /\ UNCHANGED <<stage, streamVars, revokeVars, credentials>>
  BY <1>2 DEF ListenNext, CloseUdp, AcceptBreaks, AcceptReturns, ServerGone
<1>3. CASE TaskNext /\ UNCHANGED <<stage, bound, udp, accepting, revokeVars, credentials>>
  <2>1. ASSUME NEW t \in Streams, NEW l \in Listeners, Accept(t, l)
        PROVE  Hosted'
    BY <1>3, <2>1 DEF Accept
  <2>2. ASSUME NEW t \in Streams, CloseServer(t)
        PROVE  Hosted'
    BY <1>3, <2>2 DEF CloseServer, StreamStep, ServerGone
  <2>3. ASSUME NEW t \in Streams, Handshake(t) \/ (StreamNext(t) /\ ~CloseServer(t))
        PROVE  Hosted'
    BY <1>3, <2>3 DEF StreamNext, Handshake, HandshakeEnds, NewServer, NewServerFails,
      StopServing, ListServer, StreamStep
  <2> QED
    BY <1>3, <2>1, <2>2, <2>3, Zenon DEF TaskNext
<1>4. CASE AllocNext /\ UNCHANGED <<stage, bound, udp, accepting, streamVars, revokeVars, credentials>>
  <2>1. ASSUME NEW server \in Servers, NEW u \in Users, Authenticate(server, u)
        PROVE  Hosted'
    <3>1. /\ server \in Alive /\ credentials[u] # "new"
          /\ allocations' = allocations /\ requests' = requests \cup {<<server, u>>}
      BY <2>1 DEF Authenticate, Authentic
    <3>2. <<server, u>> \notin allocations
      BY <2>1 DEF Authenticate
    <3> QED
      BY <1>4, <3>1, <3>2
  <2>2. ASSUME NEW r \in requests, Allocate(r)
        PROVE  Hosted'
    <3>1. requests' = requests \ {r} /\ allocations' \subseteq allocations \cup {r}
      BY <2>2 DEF Allocate
    <3> QED
      BY <1>4, <3>1
  <2>3. ASSUME NEW a \in allocations, Expire(a)
        PROVE  Hosted'
    BY <1>4, <2>3 DEF Expire
  <2> QED
    BY <1>4, <2>1, <2>2, <2>3, Zenon DEF AllocNext
<1>5. CASE RevokeNext /\ UNCHANGED <<stage, bound, udp, accepting, streamVars, requests>>
  <2>1. allocations' \subseteq allocations
    BY <1>5 DEF RevokeNext, Revoke, CollectServers, NextName, Delete, DeleteTimesOut, RevokeReturns
  <2>2. \A u \in Users : credentials'[u] = credentials[u] \/ credentials'[u] = "revoked"
    BY <1>5, StoreMoves
  <2> QED
    BY <1>5, <2>1, <2>2
<1>6. CASE StoreNext /\ UNCHANGED <<stage, bound, udp, accepting, streamVars, revokeVars,
                                   requests, allocations>>
  <2>1. \A u \in Users : credentials[u] # "new" => credentials'[u] # "new"
    BY <1>6, StoreMoves
  <2> QED
    BY <1>6, <2>1
<1>7. CASE UNCHANGED <<udp, task, credentials, requests, allocations>>
  BY <1>7
<1> QED
  BY <1>1, <1>2, <1>3, <1>4, <1>5, <1>6, <1>7, Steps

\* What revoke is accountable for only shrinks, or moves on with revoke.
LEMMA AccountedStep ==
  ASSUME Typed, Listed, Hosted, Accounted, [Next]_vars
  PROVE  Accounted'
<1> USE StreamsAssumption DEF Typed, Accounted, streamVars, revokeVars, allocVars
<1>1. ASSUME UNCHANGED <<task, revokeVars, credentials>>, allocations' \subseteq allocations,
             requests' \subseteq requests
      PROVE  Accounted'
  BY <1>1
<1>2. CASE ListenNext /\ UNCHANGED <<stage, streamVars, revokeVars, credentials>>
  <2>1. allocations' \subseteq allocations /\ requests' \subseteq requests
    BY <1>2 DEF ListenNext, CloseUdp, AcceptBreaks, AcceptReturns, ServerGone
  <2> QED
    BY <1>1, <1>2, <2>1
<1>3. CASE TaskNext /\ UNCHANGED <<stage, bound, udp, accepting, revokeVars, credentials>>
  <2>1. allocations' \subseteq allocations /\ requests' \subseteq requests
    BY <1>3 DEF TaskNext, StreamNext, Accept, Handshake, HandshakeEnds, NewServer,
      NewServerFails, ListServer, StopServing, CloseServer, ServerGone
  <2>2. \A t \in Streams : task[t] \in {"serving", "closing", "done"} =>
          task'[t] \in {"serving", "closing", "done"}
    BY <1>3 DEF TaskNext, StreamNext, Accept, Handshake, HandshakeEnds, NewServer,
      NewServerFails, ListServer, StopServing, CloseServer, StreamStep
  <2>3. \A c \in Calls : \A a \in due[c] : a[1] # Udp => a[1] \in Streams
    BY DEF Servers
  <2> QED
    BY <1>3, <2>1, <2>2, <2>3
<1>4. CASE AllocNext /\ UNCHANGED <<stage, bound, udp, accepting, streamVars, revokeVars, credentials>>
  <2>1. ASSUME NEW server \in Servers, NEW u \in Users, Authenticate(server, u)
        PROVE  Accounted'
    <3>1. \A c \in Calls : <<server, u>> \notin due[c]
      BY <2>1 DEF Authenticate, Authentic
    <3> QED
      BY <1>4, <2>1, <3>1 DEF Authenticate
  <2>2. ASSUME NEW r \in requests, Allocate(r)
        PROVE  Accounted'
    <3>1. requests' \subseteq requests /\ allocations' \subseteq allocations \cup {r}
      BY <2>2 DEF Allocate
    <3>2. \A c \in Calls : r \notin due[c]
      OBVIOUS
    <3> QED
      BY <1>4, <3>1, <3>2
  <2>3. ASSUME NEW a \in allocations, Expire(a)
        PROVE  Accounted'
    BY <1>1, <1>4, <2>3 DEF Expire
  <2> QED
    BY <1>4, <2>1, <2>2, <2>3, Zenon DEF AllocNext
<1>5. CASE StoreNext /\ UNCHANGED <<stage, bound, udp, accepting, streamVars, revokeVars,
                                   requests, allocations>>
  <2>1. \A u \in Users : credentials[u] \in {"purged", "revoked"} => credentials'[u] = credentials[u]
    BY <1>5, StoreMoves
  <2> QED
    BY <1>5, <2>1
<1>6. ASSUME NEW c \in Calls, NEW s \in Sessions, Revoke(c, s),
             UNCHANGED <<task, requests>>
      PROVE  Accounted'
  <2>1. \A u \in Users : credentials[u] \in {"purged", "revoked"} => credentials'[u] = credentials[u]
    BY <1>6, StoreMoves, Zenon DEF RevokeNext
  <2>2. ASSUME NEW d \in Calls, d # c, NEW a \in due'[d]
        PROVE  a \in due[d]
    BY <1>6, <2>2 DEF Revoke
  <2>3. ASSUME NEW a \in due'[c]
        PROVE  /\ a \in allocations /\ a[2][1] = s /\ credentials[a[2]] # "revoked"
               /\ a[1] # Udp => task[a[1]] = "serving"
    BY <1>6, <2>3 DEF Revoke
  <2>4. ASSUME NEW a \in due'[c]
        PROVE  /\ a \notin requests' /\ credentials'[a[2]] \in {"purged", "revoked"}
               /\ credentials'[a[2]] = "revoked" => a[2] \in names'[c] /\ call'[c] = "cleared"
               /\ a[1] # Udp => task'[a[1]] = "serving"
    BY <1>6, <2>3, <2>4 DEF Revoke, RevokeStep, Usernames, Kept, Hosted
  <2>5. call' = [call EXCEPT ![c] = "cleared"] /\ \A d \in Calls : d # c => names'[d] = names[d]
    BY <1>6 DEF Revoke, RevokeStep
  <2> QED
    BY <1>6, <2>1, <2>2, <2>4, <2>5 DEF Revoke
<1>7. ASSUME NEW c \in Calls, CollectServers(c), UNCHANGED <<task, requests>>
      PROVE  Accounted'
  <2>1. \A a \in due[c] \cap allocations : a[1] \in servers \cap Alive
    BY DEF Hosted, Listed, Alive
  <2> QED
    BY <1>7, <2>1 DEF CollectServers, RevokeStep
<1>8. ASSUME NEW c \in Calls, NEW u \in Users, NextName(c, u), UNCHANGED <<task, requests>>
      PROVE  Accounted'
  <2>1. \A a \in due[c] : a[2] = u /\ a[1] \in targets[c] => a \in pending'[c]
    BY <1>8 DEF NextName
  <2> QED
    BY <1>8, <2>1 DEF NextName, RevokeStep
<1>9. ASSUME NEW c \in Calls, NEW a \in pending[c], Delete(c, a), UNCHANGED <<task, requests>>
      PROVE  Accounted'
  BY <1>9 DEF Delete, RevokeStep
<1>10. ASSUME NEW c \in Calls, NEW a \in pending[c], DeleteTimesOut(c, a), UNCHANGED <<task, requests>>
       PROVE  Accounted'
  BY <1>10 DEF DeleteTimesOut, RevokeStep
<1>11. ASSUME NEW c \in Calls, RevokeReturns(c), UNCHANGED <<task, requests>>
       PROVE  Accounted'
  BY <1>11 DEF RevokeReturns, RevokeStep
<1>12. CASE StartTurn
  BY <1>1, <1>12 DEF StartTurn
<1>13. CASE RevokeNext /\ UNCHANGED <<task, requests>>
  BY <1>6, <1>7, <1>8, <1>9, <1>10, <1>11, <1>13, Zenon DEF RevokeNext
<1>14. CASE UNCHANGED <<task, revokeVars, allocVars>>
  BY <1>1, <1>14
<1> QED
  BY <1>2, <1>3, <1>4, <1>5, <1>12, <1>13, <1>14, Steps

-----------------------------------------------------------------------------
\* IInv holds in every state of every instance.
THEOREM Invariance == Spec => []IInv
<1>1. Init => IInv
  BY DEF Init, TurnInit, IInv, Typed, Owned, Awaited, Listed, Hosted, Accounted,
    Starting, Over, Servers
<1>2. IInv /\ [Next]_vars => IInv'
  BY TypedStep, OwnedStep, AwaitedStep, ListedStep, HostedStep, AccountedStep, Zenon DEF IInv
<1> QED
  BY <1>1, <1>2, PTL DEF Spec

\* However the process ends, with any streams, sessions and configurations, it
\* leaves no socket, no stream task and no allocation behind.
THEOREM EndsClean == Spec => []NothingLeft
<1>1. IInv => NothingLeft
  <2> SUFFICES ASSUME IInv, stage \in Over
               PROVE  NothingLeft
    BY DEF NothingLeft, Over
  <2> USE DEF IInv
  <2>1. udp # "up" /\ \A l \in Listeners : accepting[l] \in {"none", "done"}
    BY DEF Owned
  <2>2. \A t \in Streams : task[t] \in {"none", "done"}
    BY <2>1 DEF Awaited
  <2>3. Alive = {}
    BY <2>1, <2>2 DEF Alive
  <2>4. allocations = {}
    BY <2>3 DEF Hosted
  <2>5. bound = {}
    BY <2>1 DEF Owned, Over, Starting, Typed, Listeners, Udp
  <2>6. \A l \in Listeners : Holding(l) = {}
    BY <2>2 DEF Holding
  <2> QED
    BY <2>1, <2>3, <2>4, <2>5, <2>6 DEF NothingLeft
<1> QED
  BY <1>1, Invariance, PTL

\* A call of revoke that has returned has deleted what its session had on servers
\* in service under the usernames that were still stored, except where the second
\* ran out, whatever requests, streams, refreshes and other calls ran beside it.
THEOREM RevocationDeletes == Spec => []RevokeDeletes
<1>1. IInv => RevokeDeletes
  BY DEF IInv, Accounted, RevokeDeletes
<1> QED
  BY <1>1, Invariance, PTL
=============================================================================
