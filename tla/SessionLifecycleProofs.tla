----------------------- MODULE SessionLifecycleProofs -----------------------
(***************************************************************************)
(* Type correctness of SessionLifecycle, for every number of connections,  *)
(* connect_user calls and permits; then its inductive invariant IInv, the  *)
(* kinds of step that preserve it, one lemma per actor, and what follows:  *)
(* RegisteredIsServed, TerminalAfterRelease and CredentialHasRevoker.      *)
(* Then, with the WebSocket handlers as the only callers of connect_user,  *)
(* who answers for a session permit, and that an old session's revocation  *)
(* spares the credentials of the one that took its place.                  *)
(***************************************************************************)
EXTENDS SessionLifecycle, TLAPS

\* The last of a queue stays the last when the first is taken, or is the one
\* that was just queued.
LEMMA LastOfQueue ==
  ASSUME NEW q \in Seq({"Connected", "Disconnected"})
  PROVE  /\ LET r == Append(q, "Disconnected")
            IN r # <<>> /\ r[Len(r)] = "Disconnected"
         /\ q # <<>> /\ Head(q) = "Connected" /\ q[Len(q)] = "Disconnected" =>
              LET r == Tail(q) IN r # <<>> /\ r[Len(r)] = "Disconnected"
<1>1. LET r == Append(q, "Disconnected")
      IN r # <<>> /\ r[Len(r)] = "Disconnected"
  OBVIOUS
<1>2. ASSUME q # <<>>, Head(q) = "Connected", q[Len(q)] = "Disconnected"
      PROVE  Tail(q) # <<>> /\ Tail(q)[Len(Tail(q))] = "Disconnected"
  <2>1. Len(q) \in Nat /\ Len(q) # 0 /\ Len(q) # 1
    BY <1>2
  <2>2. Len(Tail(q)) = Len(q) - 1 /\ Tail(q)[Len(q) - 1] = q[Len(q)]
    BY <1>2, <2>1
  <2>3. Len(<<>>) = 0
    BY Zenon
  <2>4. Len(Tail(q)) # 0
    BY <2>1, <2>2
  <2>5. Tail(q) # <<>>
    BY <2>3, <2>4, Zenon
  <2> QED BY <1>2, <2>2, <2>5, Zenon
<1> QED BY <1>1, <1>2, Zenon

\* Dropping a permit keeps the semaphore's count a natural number.
LEMMA DropPermitType ==
  ASSUME TypeOK, NEW g \in Gens, DropPermit(g)
  PROVE  slot' \in [Gens -> BOOLEAN] /\ slots' \in Nat
<1>1. CASE slot[g]
  BY <1>1 DEF TypeOK, DropPermit
<1>2. CASE ~slot[g]
  BY <1>2, Zenon DEF TypeOK, DropPermit
<1> QED BY <1>1, <1>2, Zenon

\* A step of a WebSocket handler or of its send task keeps the types.
LEMMA HandlerStepType ==
  ASSUME TypeOK, NEW c \in Conns, HandlerStep(c)
  PROVE  TypeOK'
<1> USE ConnOfAssumption, GensAssumption
      DEF Connecting, HandlerOpen, MumbleRunning,
          mainVars, connVars, genVars, sessVars, eventVars, voiceVars,
          mumbleVars
<1>1. CASE Accept(c)
  BY <1>1 DEF TypeOK, Accept
<1>2. CASE SendTerminal(c)
  BY <1>2, Zenon DEF TypeOK, SendTerminal, EndSend
<1>3. CASE SendFail(c)
  BY <1>3, Zenon DEF TypeOK, SendFail, EndSend
<1>4. CASE Leave(c)
  BY <1>4 DEF TypeOK, Leave
<1>5. CASE Stop(c)
  BY <1>5 DEF TypeOK, Stop
<1>6. CASE BadConnect(c)
  BY <1>6 DEF TypeOK, BadConnect, Report
<1>7. CASE Lookup(c)
  BY <1>7 DEF TypeOK, Lookup
<1>8. CASE StartVoice(c)
  BY <1>8 DEF TypeOK, StartVoice, CallReturns
<1>9. CASE RefreshIce(c)
  BY <1>9 DEF TypeOK, RefreshIce, CallReturns
<1>10. CASE OtherCall(c)
  BY <1>10 DEF TypeOK, OtherCall, CallReturns
<1>11. CASE CallTimeout(c)
  BY <1>11 DEF TypeOK, CallTimeout
<1>12. CASE HandlerRemove(c)
  BY <1>12 DEF TypeOK, HandlerRemove, Occupied
<1>13. CASE HandlerShutdown(c)
  BY <1>13 DEF TypeOK, HandlerShutdown, AbortVoice, AlreadyShut, ShutdownBegin
<1>14. CASE HandlerSkipShutdown(c)
  BY <1>14 DEF TypeOK, HandlerSkipShutdown, AlreadyShut
<1>15. CASE HandlerShutdownEnd(c)
  BY <1>15, DropPermitType DEF TypeOK, HandlerShutdownEnd, ShutdownEnd
<1>16. CASE HandlerRevoke(c)
  BY <1>16 DEF TypeOK, HandlerRevoke, EndSend
<1> QED BY <1>1, <1>2, <1>3, <1>4, <1>5, <1>6, <1>7, <1>8, <1>9, <1>10, <1>11,
  <1>12, <1>13, <1>14, <1>15, <1>16, Zenon DEF HandlerStep

\* A step of connect_user keeps the types.
LEMMA ConnectStepType ==
  ASSUME TypeOK, NEW g \in Gens, ConnectStep(g)
  PROVE  TypeOK'
<1> USE ConnOfAssumption, GensAssumption
      DEF Connecting, HandlerOpen, MumbleRunning,
          mainVars, connVars, genVars, sessVars, eventVars, voiceVars,
          mumbleVars
<1>1. CASE Connect(g)
  BY <1>1 DEF TypeOK, Connect
<1>2. CASE ConnectStopping(g)
  BY <1>2 DEF TypeOK, ConnectStopping, Report
<1>3. CASE DirectConnect(g)
  BY <1>3, ZenonT(40) DEF TypeOK, DirectConnect
<1>4. CASE Reserve(g)
  BY <1>4 DEF TypeOK, Reserve
<1>5. CASE Refuse(g)
  BY <1>5 DEF TypeOK, Refuse, ReturnConnect, Awaited, Report
<1>6. CASE MumbleUp(g)
  BY <1>6, ZenonT(40) DEF TypeOK, MumbleUp
<1>7. CASE ConnectFail(g)
  BY SMTT(30), <1>7, DropPermitType DEF TypeOK, ConnectFail, ReturnConnect, Awaited,
    Report
<1>8. CASE Cancel(g)
  BY <1>8, DropPermitType DEF TypeOK, Cancel
<1>9. CASE Insert(g)
  BY <1>9 DEF TypeOK, Insert, ReturnConnect, Awaited, Report, Occupied
<1>10. CASE Duplicate(g)
  BY <1>10, ZenonT(40) DEF TypeOK, Duplicate, Occupied
<1>11. CASE DuplicateEnd(g)
  BY <1>11, DropPermitType DEF TypeOK, DuplicateEnd, ReturnConnect, Awaited,
    Report
<1> QED BY <1>1, <1>2, <1>3, <1>4, <1>5, <1>6, <1>7, <1>8, <1>9, <1>10, <1>11, Zenon
  DEF ConnectStep

\* A step of process_events or finish_session keeps the types.
LEMMA EventStepType ==
  ASSUME TypeOK, NEW g \in Gens, EventStep(g)
  PROVE  TypeOK'
<1> USE ConnOfAssumption, GensAssumption
      DEF Connecting, HandlerOpen, MumbleRunning,
          mainVars, connVars, genVars, sessVars, eventVars, voiceVars,
          mumbleVars
<1>1. CASE EventInit(g)
  BY <1>1, ZenonT(40) DEF TypeOK, EventInit, EventOnly
<1>2. CASE EventBreak(g)
  BY <1>2, ZenonT(40) DEF TypeOK, EventBreak, EventOnly
<1>3. CASE EventConnected(g)
  BY <1>3 DEF TypeOK, EventConnected, EventOnly, Receives
<1>4. CASE EventConnectedLock(g)
  BY <1>4, ZenonT(40) DEF TypeOK, EventConnectedLock, EventOnly
<1>5. CASE EventConnectedSend(g)
  BY <1>5 DEF TypeOK, EventConnectedSend, EventOnly
<1>6. CASE EventDisconnected(g)
  BY <1>6 DEF TypeOK, EventDisconnected, EventOnly, Receives
<1>7. CASE FinishShutdown(g)
  BY <1>7, ZenonT(40) DEF TypeOK, FinishShutdown, AbortVoice, AlreadyShut, ShutdownBegin,
    EventOnly
<1>8. CASE FinishSkipShutdown(g)
  BY <1>8, ZenonT(40) DEF TypeOK, FinishSkipShutdown, AlreadyShut, EventOnly
<1>9. CASE FinishShutdownEnd(g)
  BY <1>9, DropPermitType, ZenonT(40) DEF TypeOK, FinishShutdownEnd, ShutdownEnd
<1>10. CASE FinishRemove(g)
  BY <1>10 DEF TypeOK, FinishRemove, Report, IsCurrent
<1>11. CASE FinishReplaced(g)
  BY <1>11, ZenonT(40) DEF TypeOK, FinishReplaced, EventOnly, IsCurrent
<1>12. CASE EventRevoke(g)
  BY <1>12 DEF TypeOK, EventRevoke, EventOnly
<1> QED BY <1>1, <1>2, <1>3, <1>4, <1>5, <1>6, <1>7, <1>8, <1>9, <1>10, <1>11,
  <1>12, Zenon DEF EventStep

\* A step of the voice-setup or the Mumble control task keeps the types.
LEMMA TaskStepType ==
  ASSUME TypeOK, NEW g \in Gens, VoiceStep(g) \/ MumbleStep(g)
  PROVE  TypeOK'
<1> USE DEF Connecting, HandlerOpen, MumbleRunning,
          mainVars, connVars, genVars, sessVars, eventVars, voiceVars,
          mumbleVars
<1>1. CASE VoiceCrypt(g)
  BY <1>1, ZenonT(40) DEF TypeOK, VoiceCrypt, VoiceOnly
<1>2. CASE VoiceFail(g)
  BY <1>2, ZenonT(40) DEF TypeOK, VoiceFail, VoiceOnly
<1>3. CASE VoiceSuspend(g)
  BY <1>3, ZenonT(40) DEF TypeOK, VoiceSuspend, VoiceOnly
<1>4. CASE VoiceInstall(g)
  BY <1>4, ZenonT(40) DEF TypeOK, VoiceInstall, VoiceOnly
<1>5. CASE MumbleSync(g)
  BY <1>5 DEF TypeOK, MumbleSync, MumbleOnly, Released
<1>6. CASE MumbleReject(g)
  BY <1>6 DEF TypeOK, MumbleReject, MumbleOnly, Released
<1>7. CASE MumbleLost(g)
  BY <1>7 DEF TypeOK, MumbleLost, MumbleOnly, Released
<1>8. CASE MumbleQuit(g)
  BY <1>8, ZenonT(40) DEF TypeOK, MumbleQuit, MumbleOnly, Released
<1> QED BY <1>1, <1>2, <1>3, <1>4, <1>5, <1>6, <1>7, <1>8, Zenon
  DEF VoiceStep, MumbleStep

\* A step of begin_shutdown, close() or run() keeps the types.
LEMMA MainStepType ==
  ASSUME TypeOK, MainStep
  PROVE  TypeOK'
<1> USE ConnOfAssumption, GensAssumption
      DEF Connecting, HandlerOpen, MumbleRunning,
          mainVars, connVars, genVars, sessVars, eventVars, voiceVars,
          mumbleVars
<1>1. CASE Signal
  BY <1>1, ZenonT(40) DEF TypeOK, Signal
<1>2. CASE CloseScan
  BY <1>2, ZenonT(40) DEF TypeOK, CloseScan, Occupied
<1>3. CASE CloseShutdown
  BY <1>3, ZenonT(40) DEF TypeOK, CloseShutdown, AbortVoice, AlreadyShut, ShutdownBegin
<1>4. CASE CloseSkipShutdown
  BY <1>4, ZenonT(40) DEF TypeOK, CloseSkipShutdown, AlreadyShut
<1>5. CASE CloseShutdownEnd
  BY <1>5, DropPermitType, ZenonT(40) DEF TypeOK, CloseShutdownEnd, ShutdownEnd
<1>6. CASE CloseDone
  BY <1>6, ZenonT(40) DEF TypeOK, CloseDone
<1>7. CASE Exit
  BY <1>7, ZenonT(40) DEF TypeOK, Exit
<1>8. ASSUME NEW c \in Conns, CloseRemove(c)
      PROVE  TypeOK'
  BY <1>8 DEF TypeOK, CloseRemove, Occupied
<1> QED BY <1>1, <1>2, <1>3, <1>4, <1>5, <1>6, <1>7, <1>8, ZenonT(40) DEF MainStep

\* Every state of every behaviour is well typed.
THEOREM Typing == Spec => []TypeOK
<1>1. Init => TypeOK
  <2> SUFFICES ASSUME Init PROVE TypeOK
    BY Zenon
  <2>1. mq \in [Gens -> Seq({"Connected", "Disconnected"})]
    BY DEF Init
  <2>2. slots \in Nat /\ websocket_slots \in Nat
    BY MaxConnectionsAssumption, Zenon DEF Init
  <2> QED
    BY ZenonT(30), <2>1, <2>2 DEF Init, TypeOK, Connecting, HandlerOpen,
      MumbleRunning
<1>2. TypeOK /\ [Next]_vars => TypeOK'
  <2> SUFFICES ASSUME TypeOK, [Next]_vars PROVE TypeOK'
    BY Zenon
  <2>1. CASE Running
    BY <2>1, HandlerStepType, ConnectStepType, EventStepType, TaskStepType,
       MainStepType, ZenonT(40) DEF Running
  <2>2. CASE UNCHANGED vars
    BY <2>2, ZenonT(40) DEF TypeOK, vars, mainVars, connVars, genVars, sessVars,
         eventVars, voiceVars, mumbleVars
  <2> QED BY <2>1, <2>2, ZenonT(40) DEF Next, Done
<1> QED BY <1>1, <1>2, PTL DEF Spec

-----------------------------------------------------------------------------
\* How the stage of a connect_user call, its permit, the session's closed flag
\* and its event task hang together.
Life ==
  \A g \in Gens :
    /\ slot[g] => stage[g] \in {"connecting", "built", "dup", "live"}
    /\ stage[g] \in {"connecting", "built", "dup"} => slot[g]
    /\ closed[g] => stage[g] \in {"dup", "failed", "live"}
    /\ epc[g] # "none" <=> stage[g] = "live"
    /\ epc[g] \in {"remove", "revoke"} => ~slot[g]
    /\ epc[g] = "finishing" => closed[g]

\* The map holds, under a conn_id, only sessions of that connection.
Placed ==
  \A c \in Conns : sessions[c] # NoGen =>
    /\ sessions[c] \in Gens /\ ConnOf[sessions[c]] = c
    /\ stage[sessions[c]] = "live"

\* What disconnect_user shuts down was taken out of the map.
Removers ==
  /\ \A c \in Conns : hpc[c] \in {"discWait", "discShut"} =>
       /\ cur[c] \in Gens /\ stage[cur[c]] = "live"
       /\ ConnOf[cur[c]] = c /\ sessions[c] # cur[c]
  /\ main \in {"discWait", "discShut"} =>
       /\ mcur \in Gens /\ stage[mcur] = "live"
       /\ ConnOf[mcur] \in Conns /\ sessions[ConnOf[mcur]] # mcur

\* Terminal errors are about calls that failed or sessions that were live.
Reported ==
  \A c \in Conns, g \in Gens : g \in out[c] => stage[g] \in {"failed", "live"}

IInv == /\ Life /\ Placed /\ Removers /\ Reported
        /\ RegisteredIsServed /\ TerminalAfterRelease /\ CredentialHasRevoker

\* The shapes of the variables IInv speaks about, without their ranges.
LEMMA Domains ==
  ASSUME TypeOK
  PROVE  /\ DOMAIN sessions = Conns /\ DOMAIN hpc = Conns /\ DOMAIN cur = Conns
         /\ DOMAIN out = Conns /\ DOMAIN creds = Conns
         /\ DOMAIN stage = Gens /\ DOMAIN epc = Gens
         /\ slot \in [Gens -> BOOLEAN] /\ closed \in [Gens -> BOOLEAN]
BY Zenon DEF TypeOK

\* A revoker stays one: no handler is gone that was not, no event task loses
\* its duty.
LEMMA RevokerStays ==
  ASSUME CredentialHasRevoker, UNCHANGED creds,
         \A c \in Conns : hpc'[c] = "gone" => hpc[c] = "gone",
         \A h \in Gens : epc[h] # "none" => epc'[h] = epc[h]
  PROVE  CredentialHasRevoker'
BY Zenon DEF CredentialHasRevoker

\* Each conjunct of IInv depends on a few variables only.
LEMMA Frames ==
  /\ Life /\ UNCHANGED <<slot, stage, closed, epc>> => Life'
  /\ Placed /\ UNCHANGED <<sessions, stage>> => Placed'
  /\ Removers /\ UNCHANGED <<hpc, cur, stage, sessions, main, mcur>> => Removers'
  /\ Reported /\ UNCHANGED <<out, stage>> => Reported'
  /\ RegisteredIsServed /\ UNCHANGED <<sessions, epc, closed>>
       => RegisteredIsServed'
  /\ TerminalAfterRelease /\ UNCHANGED <<out, slot, sessions>>
       => TerminalAfterRelease'
  /\ CredentialHasRevoker /\ UNCHANGED <<creds, hpc, epc>>
       => CredentialHasRevoker'
<1>1. Life /\ UNCHANGED <<slot, stage, closed, epc>> => Life'
  BY ZenonT(40) DEF Life
<1>2. Placed /\ UNCHANGED <<sessions, stage>> => Placed'
  BY Zenon DEF Placed
<1>3. Removers /\ UNCHANGED <<hpc, cur, stage, sessions, main, mcur>>
        => Removers'
  BY DEF Removers
<1>4. Reported /\ UNCHANGED <<out, stage>> => Reported'
  BY Zenon DEF Reported
<1>5. RegisteredIsServed /\ UNCHANGED <<sessions, epc, closed>>
        => RegisteredIsServed'
  BY Zenon DEF RegisteredIsServed
<1>6. TerminalAfterRelease /\ UNCHANGED <<out, slot, sessions>>
        => TerminalAfterRelease'
  BY Zenon DEF TerminalAfterRelease
<1>7. CredentialHasRevoker /\ UNCHANGED <<creds, hpc, epc>>
        => CredentialHasRevoker'
  BY DEF CredentialHasRevoker
<1> QED BY <1>1, <1>2, <1>3, <1>4, <1>5, <1>6, <1>7, ZenonT(40)

\* A step that moves handlers to places outside disconnect_user, a handler that
\* ends having revoked its credentials, and that queues no terminal error about
\* a session.
HandlerMove ==
  /\ \A d \in Conns :
       \/ hpc'[d] = hpc[d] /\ cur'[d] = cur[d] /\ creds'[d] = creds[d]
       \/ /\ hpc'[d] \notin {"discWait", "discShut"}
          /\ hpc'[d] = "gone" => creds'[d] = {}
  /\ \A d \in Conns : out'[d] \subseteq out[d] \cup {NoGen}
  /\ UNCHANGED <<slot, stage, closed, epc, sessions, main, mcur>>

\* Such a step preserves IInv.
LEMMA HandlerMoves ==
  ASSUME IInv, HandlerMove
  PROVE  IInv'
<1> USE DEF HandlerMove
<1>1. Removers'
  BY DEF IInv, Removers
<1>2. Reported' /\ TerminalAfterRelease'
  BY GensAssumption, ZenonT(40) DEF IInv, Reported, TerminalAfterRelease
<1>3. CredentialHasRevoker'
  BY DEF IInv, CredentialHasRevoker
<1> QED BY <1>1, <1>2, <1>3, Frames, Zenon DEF IInv

\* A step of connect_user that does not register the session: the permit goes
\* with the stage, and an error is reported once the call failed.
StageMove(g) ==
  /\ \A h \in Gens : h # g => /\ stage'[h] = stage[h] /\ slot'[h] = slot[h]
                              /\ closed'[h] = closed[h]
  /\ stage[g] \notin {"failed", "live"} /\ stage'[g] # "live"
  /\ slot'[g] <=> stage'[g] \in {"connecting", "built", "dup"}
  /\ closed'[g] => stage'[g] \in {"dup", "failed"}
  /\ \A d \in Conns :
       \/ out'[d] \subseteq out[d]
       \/ stage'[g] = "failed" /\ out'[d] \subseteq out[d] \cup {g}
  /\ \A d \in Conns :
       \/ hpc'[d] = hpc[d] /\ cur'[d] = cur[d]
       \/ hpc'[d] \notin {"discWait", "discShut", "gone"}
  /\ UNCHANGED <<epc, sessions, creds, main, mcur>>

\* Such a step preserves IInv.
LEMMA StageMoves ==
  ASSUME IInv, NEW g \in Gens, StageMove(g)
  PROVE  IInv'
<1> USE GensAssumption DEF StageMove
<1>1. \A d \in Conns : sessions[d] # g
  BY DEF IInv, Placed
<1>2. Life'
  BY DEF IInv, Life
<1>3. Placed'
  BY DEF IInv, Placed
<1>4. Removers'
  BY DEF IInv, Removers
<1>5. Reported'
  BY ZenonT(40) DEF IInv, Reported
<1>6. RegisteredIsServed'
  BY <1>1 DEF IInv, RegisteredIsServed
<1>7. TerminalAfterRelease'
  BY <1>1 DEF IInv, TerminalAfterRelease, Reported
<1>8. CredentialHasRevoker'
  BY DEF IInv, CredentialHasRevoker
<1> QED BY <1>2, <1>3, <1>4, <1>5, <1>6, <1>7, <1>8, Zenon DEF IInv

\* A step that only moves an event task: it does not leave its session closed or
\* unattended in the map, and ends with its connection's credentials revoked.
EventMove(g) ==
  /\ \A h \in Gens : h # g => epc'[h] = epc[h]
  /\ epc[g] # "none" /\ epc'[g] \notin {"none", "finishing"}
  /\ epc'[g] \in {"remove", "revoke"} => ~slot[g]
  /\ \A d \in Conns : sessions[d] = g =>
       /\ epc'[g] \notin {"revoke", "done"}
       /\ closed[g] => epc'[g] = "remove"
  /\ \A d \in Conns : \/ creds'[d] \subseteq creds[d]
                      \/ d = ConnOf[g] /\ epc'[g] \notin {"init", "done"}
  /\ epc'[g] \in {"init", "done"} => epc[g] = "init" \/ creds'[ConnOf[g]] = {}
  /\ UNCHANGED <<slot, stage, closed, sessions, hpc, cur, out, main, mcur>>

\* Such a step preserves IInv.
LEMMA EventMoves ==
  ASSUME IInv, NEW g \in Gens, EventMove(g)
  PROVE  IInv'
<1> USE DEF EventMove
<1>1. Life'
  BY Zenon DEF IInv, Life
<1>2. RegisteredIsServed'
  BY DEF IInv, RegisteredIsServed
<1>3. CredentialHasRevoker'
  BY ZenonT(40) DEF IInv, CredentialHasRevoker
<1> QED BY <1>1, <1>2, <1>3, Frames, Zenon DEF IInv

\* shutdown_user_session may close a live session that is not in the map ...
LEMMA TeardownBegin ==
  ASSUME IInv, NEW g \in Gens, stage[g] = "live",
         \A d \in Conns : sessions[d] # g,
         closed'[g], \A h \in Gens : h # g => closed'[h] = closed[h],
         UNCHANGED <<slot, stage, epc, sessions>>
  PROVE  Life' /\ RegisteredIsServed'
<1>1. Life'
  BY ZenonT(40) DEF IInv, Life
<1>2. RegisteredIsServed'
  BY ZenonT(40) DEF IInv, RegisteredIsServed
<1> QED BY <1>1, <1>2, Zenon

\* ... and release the permit of a live session.
LEMMA TeardownEnd ==
  ASSUME IInv, NEW g \in Gens, stage[g] = "live",
         ~slot'[g], \A h \in Gens : h # g => slot'[h] = slot[h],
         UNCHANGED <<stage, closed, epc, out, sessions>>
  PROVE  Life' /\ TerminalAfterRelease'
<1>1. Life'
  BY ZenonT(40) DEF IInv, Life
<1>2. TerminalAfterRelease'
  BY ZenonT(40) DEF IInv, TerminalAfterRelease
<1> QED BY <1>1, <1>2, Zenon

\* The handler, its calls and its disconnect_user preserve IInv.
LEMMA HandlerStepInv ==
  ASSUME TypeOK, IInv, NEW c \in Conns, HandlerStep(c)
  PROVE  IInv'
<1> USE DEF mainVars, connVars, genVars, sessVars, eventVars
<1>1. CASE Accept(c)
  <2>1. HandlerMove
    BY <1>1, Domains, ZenonT(40) DEF HandlerMove, Accept
  <2> QED BY <2>1, HandlerMoves, ZenonT(40)
<1>2. CASE SendTerminal(c)
  <2>1. HandlerMove
    BY <1>2, Domains, ZenonT(40) DEF HandlerMove, SendTerminal, EndSend
  <2> QED BY <2>1, HandlerMoves, Zenon
<1>3. CASE SendFail(c)
  <2>1. HandlerMove
    BY <1>3, Domains, ZenonT(40) DEF HandlerMove, SendFail, EndSend
  <2> QED BY <2>1, HandlerMoves, Zenon
<1>4. CASE Leave(c)
  <2>1. HandlerMove
    BY <1>4, Domains, ZenonT(40) DEF HandlerMove, Leave
  <2> QED BY <2>1, HandlerMoves, Zenon
<1>5. CASE Stop(c)
  <2>1. HandlerMove
    BY <1>5, Domains, ZenonT(40) DEF HandlerMove, Stop
  <2> QED BY <2>1, HandlerMoves, Zenon
<1>6. CASE BadConnect(c)
  <2>1. HandlerMove
    BY <1>6, Domains, ZenonT(40) DEF HandlerMove, BadConnect, Report
  <2> QED BY <2>1, HandlerMoves, Zenon
<1>7. CASE Lookup(c)
  <2>1. HandlerMove
    BY <1>7, Domains, ZenonT(40) DEF HandlerMove, Lookup
  <2> QED BY <2>1, HandlerMoves, Zenon
<1>8. CASE StartVoice(c)
  <2>1. HandlerMove
    BY <1>8, Domains, ZenonT(40) DEF HandlerMove, StartVoice, CallReturns
  <2> QED BY <2>1, HandlerMoves, Zenon
<1>9. CASE RefreshIce(c)
  <2>1. HandlerMove
    BY <1>9, Domains, ZenonT(40) DEF HandlerMove, RefreshIce, CallReturns
  <2> QED BY <2>1, HandlerMoves, Zenon
<1>10. CASE OtherCall(c)
  <2>1. HandlerMove
    BY <1>10, Domains, ZenonT(40) DEF HandlerMove, OtherCall, CallReturns
  <2> QED BY <2>1, HandlerMoves, Zenon
<1>11. CASE CallTimeout(c)
  <2>1. HandlerMove
    BY <1>11, Domains, ZenonT(40) DEF HandlerMove, CallTimeout
  <2> QED BY <2>1, HandlerMoves, Zenon
<1>12. CASE HandlerSkipShutdown(c)
  <2>1. HandlerMove
    BY <1>12, Domains, ZenonT(40) DEF HandlerMove, HandlerSkipShutdown
  <2> QED BY <2>1, HandlerMoves, Zenon
<1>13. CASE HandlerRevoke(c)
  <2>1. HandlerMove
    BY <1>13, Domains, ZenonT(40) DEF HandlerMove, HandlerRevoke, EndSend
  <2> QED BY <2>1, HandlerMoves, Zenon
<1>14. CASE HandlerRemove(c)
  <2>1. /\ \A d \in Conns : d # c => /\ sessions'[d] = sessions[d]
                                     /\ cur'[d] = cur[d] /\ hpc'[d] = hpc[d]
        /\ sessions'[c] = NoGen /\ cur'[c] = sessions[c]
        /\ hpc'[c] = IF Occupied(c) THEN "discWait" ELSE "revoke"
    BY <1>14, Domains, ZenonT(40) DEF HandlerRemove
  <2>2. UNCHANGED <<slot, stage, closed, epc, out, creds, main, mcur>>
    BY <1>14, ZenonT(40) DEF HandlerRemove
  <2>3. Placed'
    <3>1. \A d \in Conns : sessions'[d] # NoGen => sessions'[d] = sessions[d]
      BY <2>1, Zenon
    <3> QED BY <2>2, <3>1, ZenonT(40) DEF IInv, Placed
  <2>4. Removers'
    <3>1. ASSUME NEW d \in Conns, hpc'[d] \in {"discWait", "discShut"}
          PROVE  /\ cur'[d] \in Gens /\ stage'[cur'[d]] = "live"
                 /\ ConnOf[cur'[d]] = d /\ sessions'[d] # cur'[d]
      <4>1. CASE d = c
        BY <2>1, <2>2, <3>1, <4>1, GensAssumption, ZenonT(40) DEF IInv, Placed, Occupied
      <4>2. CASE d # c
        <5>1. sessions'[d] = sessions[d] /\ cur'[d] = cur[d] /\ hpc'[d] = hpc[d]
          BY <2>1, <4>2, Zenon
        <5>2. /\ cur[d] \in Gens /\ stage[cur[d]] = "live"
              /\ ConnOf[cur[d]] = d /\ sessions[d] # cur[d]
          BY <3>1, <5>1, ZenonT(40) DEF IInv, Removers
        <5> QED BY <2>2, <5>1, <5>2, Zenon
      <4> QED
        BY <4>1, <4>2, ZenonT(40)
    <3>2. ASSUME main' \in {"discWait", "discShut"}
          PROVE  /\ mcur' \in Gens /\ stage'[mcur'] = "live"
                 /\ ConnOf[mcur'] \in Conns /\ sessions'[ConnOf[mcur']] # mcur'
      BY <2>1, <2>2, <3>2, GensAssumption, ZenonT(40) DEF IInv, Removers
    <3> QED
      BY <3>1, <3>2, Zenon DEF Removers
  <2>5. RegisteredIsServed'
    <3>1. \A d \in Conns, h \in Gens : sessions'[d] = h => sessions[d] = h
      BY <2>1, GensAssumption, Zenon
    <3> QED BY <2>2, <3>1, ZenonT(40) DEF IInv, RegisteredIsServed
  <2>6. TerminalAfterRelease'
    BY <2>1, <2>2, GensAssumption, ZenonT(40) DEF IInv, TerminalAfterRelease
  <2>7. CredentialHasRevoker'
    <3>1. \A d \in Conns : hpc'[d] = "gone" => hpc[d] = "gone"
      BY <2>1, ZenonT(40)
    <3> QED BY <2>2, <3>1, RevokerStays, Zenon DEF IInv
  <2> QED BY <2>2, <2>3, <2>4, <2>5, <2>6, <2>7, Frames, ZenonT(40) DEF IInv
<1>15. CASE HandlerShutdown(c)
  <2>0. cur[c] \in Gens
    BY <1>15, ZenonT(40) DEF HandlerShutdown, IInv, Removers
  <2>1. /\ hpc[c] = "discWait" /\ hpc'[c] = "discShut" /\ closed'[cur[c]]
        /\ \A d \in Conns : d # c => hpc'[d] = hpc[d]
        /\ \A h \in Gens : h # cur[c] => closed'[h] = closed[h]
    <3>1. /\ hpc[c] = "discWait" /\ hpc' = [hpc EXCEPT ![c] = "discShut"]
          /\ closed' = [closed EXCEPT ![cur[c]] = TRUE]
      BY <1>15, ZenonT(40) DEF HandlerShutdown, ShutdownBegin
    <3>2. DOMAIN hpc = Conns /\ closed \in [Gens -> BOOLEAN]
      BY Domains, ZenonT(40)
    <3>3. hpc'[c] = "discShut" /\ \A d \in Conns : d # c => hpc'[d] = hpc[d]
      BY <3>1, <3>2, ZenonT(40)
    <3>4. closed'[cur[c]] /\ \A h \in Gens : h # cur[c] => closed'[h] = closed[h]
      BY <2>0, <3>1, <3>2, ZenonT(40)
    <3> QED BY <3>1, <3>3, <3>4, ZenonT(40)
  <2>2. UNCHANGED <<slot, stage, epc, sessions, cur, out, creds, main, mcur>>
    BY <1>15, ZenonT(40) DEF HandlerShutdown
  <2>3. stage[cur[c]] = "live" /\ \A d \in Conns : sessions[d] # cur[c]
    <3>1. stage[cur[c]] = "live" /\ sessions[ConnOf[cur[c]]] # cur[c]
      BY <2>1, ZenonT(40) DEF IInv, Removers
    <3>2. \A d \in Conns : sessions[d] = cur[c] => ConnOf[cur[c]] = d
      BY <2>0, GensAssumption, ZenonT(40) DEF IInv, Placed
    <3> QED BY <3>1, <3>2, ZenonT(40)
  <2>4. Life' /\ RegisteredIsServed'
    BY <2>0, <2>1, <2>2, <2>3, TeardownBegin, ZenonT(40)
  <2>5. Removers'
    <3>1. \A d \in Conns : hpc'[d] \in {"discWait", "discShut"} =>
                           hpc[d] \in {"discWait", "discShut"}
      BY <2>1, Zenon
    <3> QED BY <2>2, <3>1, ZenonT(40) DEF IInv, Removers
  <2>6. CredentialHasRevoker'
    <3>1. \A d \in Conns : hpc'[d] = "gone" => hpc[d] = "gone"
      BY <2>1, Zenon
    <3> QED BY <2>2, <3>1, RevokerStays, Zenon DEF IInv
  <2> QED BY <2>2, <2>4, <2>5, <2>6, Frames, Zenon DEF IInv
<1>16. CASE HandlerShutdownEnd(c)
  <2>0. cur[c] \in Gens
    BY <1>16, ZenonT(40) DEF HandlerShutdownEnd, IInv, Removers
  <2>1. /\ hpc[c] = "discShut" /\ hpc'[c] = "revoke" /\ ~slot'[cur[c]]
        /\ \A d \in Conns : d # c => hpc'[d] = hpc[d]
        /\ \A h \in Gens : h # cur[c] => slot'[h] = slot[h]
    BY <1>16, <2>0, Domains, ZenonT(40) DEF HandlerShutdownEnd, ShutdownEnd, DropPermit
  <2>2. UNCHANGED <<stage, closed, epc, sessions, cur, out, creds, main, mcur>>
    BY <1>16, ZenonT(40) DEF HandlerShutdownEnd, mainVars, eventVars, genVars
  <2>3. stage[cur[c]] = "live"
    BY <2>1, ZenonT(40) DEF IInv, Removers
  <2>4. Life' /\ TerminalAfterRelease'
    BY <2>0, <2>1, <2>2, <2>3, TeardownEnd, ZenonT(40)
  <2>5. Removers'
    BY <2>1, <2>2, ZenonT(40) DEF IInv, Removers
  <2>6. CredentialHasRevoker'
    BY <2>1, <2>2, ZenonT(40) DEF IInv, CredentialHasRevoker
  <2> QED BY <2>2, <2>4, <2>5, <2>6, Frames, ZenonT(40) DEF IInv
<1> QED BY <1>1, <1>2, <1>3, <1>4, <1>5, <1>6, <1>7, <1>8, <1>9, <1>10, <1>11,
  <1>12, <1>13, <1>14, <1>15, <1>16, ZenonT(40) DEF HandlerStep

-----------------------------------------------------------------------------
(* connect_user, the tasks of a session and close() preserve IInv.         *)

\* connect_user preserves IInv.
LEMMA ConnectStepInv ==
  ASSUME TypeOK, IInv, NEW g \in Gens, ConnectStep(g)
  PROVE  IInv'
<1> USE ConnOfAssumption DEF mainVars, connVars, genVars, sessVars, eventVars
<1>0. /\ slot[g] => stage[g] \in {"connecting", "built", "dup", "live"}
      /\ stage[g] \in {"connecting", "built", "dup"} => slot[g]
      /\ closed[g] => stage[g] \in {"dup", "failed", "live"}
  BY Zenon DEF IInv, Life
<1>1. CASE Connect(g)
  <2>1. StageMove(g)
    BY <1>1, <1>0, Domains, ZenonT(40) DEF StageMove, Connect
  <2> QED BY <2>1, StageMoves, ZenonT(40)
<1>2. CASE ConnectStopping(g)
  <2>1. StageMove(g)
    BY <1>2, <1>0, Domains, ZenonT(40) DEF StageMove, ConnectStopping, Report
  <2> QED BY <2>1, StageMoves, Zenon
<1>3. CASE DirectConnect(g)
  <2>1. StageMove(g)
    BY <1>3, <1>0, Domains, ZenonT(40) DEF StageMove, DirectConnect
  <2> QED BY <2>1, StageMoves, Zenon
<1>4. CASE Reserve(g)
  <2>1. StageMove(g)
    BY <1>4, <1>0, Domains, ZenonT(40) DEF StageMove, Reserve
  <2> QED BY <2>1, StageMoves, Zenon
<1>5. CASE Refuse(g)
  <2>1. StageMove(g)
    BY <1>5, <1>0, Domains, ZenonT(40) DEF StageMove, Refuse, ReturnConnect, Report
  <2> QED BY <2>1, StageMoves, Zenon
<1>6. CASE MumbleUp(g)
  <2>1. StageMove(g)
    BY <1>6, <1>0, Domains, ZenonT(40) DEF StageMove, MumbleUp
  <2> QED BY <2>1, StageMoves, Zenon
<1>7. CASE ConnectFail(g)
  <2>1. StageMove(g)
    BY <1>7, <1>0, Domains, ZenonT(40) DEF StageMove, ConnectFail, DropPermit,
      ReturnConnect, Report
  <2> QED BY <2>1, StageMoves, Zenon
<1>8. CASE Cancel(g)
  <2>1. StageMove(g)
    BY <1>8, <1>0, Domains, ZenonT(40) DEF StageMove, Cancel, DropPermit, Connecting
  <2> QED BY <2>1, StageMoves, Zenon
<1>9. CASE Duplicate(g)
  <2>1. StageMove(g)
    BY <1>9, <1>0, Domains, ZenonT(40) DEF StageMove, Duplicate
  <2> QED BY <2>1, StageMoves, Zenon
<1>10. CASE DuplicateEnd(g)
  <2>1. StageMove(g)
    BY <1>10, <1>0, Domains, ZenonT(40) DEF StageMove, DuplicateEnd, DropPermit,
      ReturnConnect, Report
  <2> QED BY <2>1, StageMoves, Zenon
<1>11. CASE Insert(g)
  <2> DEFINE c == ConnOf[g]
  <2>1. /\ \A d \in Conns : d # c => sessions'[d] = sessions[d]
        /\ sessions[c] = NoGen /\ sessions'[c] = g
        /\ \A h \in Gens : h # g => stage'[h] = stage[h] /\ epc'[h] = epc[h]
        /\ stage[g] = "built" /\ stage'[g] = "live" /\ epc'[g] = "init"
        /\ c \in Conns
    BY <1>11, Domains, ZenonT(40) DEF Insert, Occupied
  <2>2. /\ \A d \in Conns : out'[d] = out[d]
        /\ \A d \in Conns : \/ hpc'[d] = hpc[d] /\ cur'[d] = cur[d]
                            \/ hpc'[d] = "loop"
    BY <1>11, Domains, ZenonT(40) DEF Insert, ReturnConnect, Report
  <2>3. UNCHANGED <<slot, closed, creds, main, mcur>>
    BY <1>11, Zenon DEF Insert
  <2>4. Life'
    BY <2>1, <2>3, ZenonT(40) DEF IInv, Life
  <2>5. Placed'
    <3> SUFFICES ASSUME NEW d \in Conns, sessions'[d] # NoGen
                 PROVE  /\ sessions'[d] \in Gens /\ ConnOf[sessions'[d]] = d
                        /\ stage'[sessions'[d]] = "live"
      BY Zenon DEF Placed
    <3>1. CASE d = c
      BY <2>1, <3>1, Zenon
    <3>2. CASE d # c
      <4>1. sessions'[d] = sessions[d]
        BY <2>1, <3>2, Zenon
      <4>2. /\ sessions[d] \in Gens /\ ConnOf[sessions[d]] = d
            /\ stage[sessions[d]] = "live"
        BY <4>1, Zenon DEF IInv, Placed
      <4>3. sessions[d] # g
        BY <2>1, <4>2, Zenon
      <4>4. stage'[sessions[d]] = "live"
        BY <2>1, <4>2, <4>3, Zenon
      <4> QED BY <4>1, <4>2, <4>4, Zenon
    <3> QED BY <3>1, <3>2, Zenon
  <2>6. Removers'
    <3>1. ASSUME NEW d \in Conns, hpc'[d] \in {"discWait", "discShut"}
          PROVE  /\ cur'[d] \in Gens /\ stage'[cur'[d]] = "live"
                 /\ ConnOf[cur'[d]] = d /\ sessions'[d] # cur'[d]
      <4>1. hpc'[d] = hpc[d] /\ cur'[d] = cur[d]
        BY <2>2, <3>1, ZenonT(40)
      <4>2. /\ cur[d] \in Gens /\ stage[cur[d]] = "live"
            /\ ConnOf[cur[d]] = d /\ sessions[d] # cur[d]
        BY <3>1, <4>1, ZenonT(40) DEF IInv, Removers
      <4>3. cur[d] # g
        BY <2>1, <4>2, ZenonT(40)
      <4>4. stage'[cur[d]] = "live" /\ sessions'[d] # cur[d]
        BY <2>1, <4>2, <4>3, ZenonT(40)
      <4> QED BY <4>1, <4>2, <4>4, ZenonT(40)
    <3>2. ASSUME main' \in {"discWait", "discShut"}
          PROVE  /\ mcur' \in Gens /\ stage'[mcur'] = "live"
                 /\ ConnOf[mcur'] \in Conns /\ sessions'[ConnOf[mcur']] # mcur'
      <4>1. /\ mcur \in Gens /\ stage[mcur] = "live"
            /\ ConnOf[mcur] \in Conns /\ sessions[ConnOf[mcur]] # mcur
        BY <2>3, <3>2, ZenonT(40) DEF IInv, Removers
      <4>2. mcur # g
        BY <2>1, <4>1, ZenonT(40)
      <4> QED BY <2>1, <2>3, <4>1, <4>2, ZenonT(40)
    <3> QED BY <3>1, <3>2, Zenon DEF Removers
  <2>7. Reported'
    BY <2>1, <2>2, ZenonT(40) DEF IInv, Reported
  <2>8. RegisteredIsServed'
    <3> SUFFICES ASSUME NEW d \in Conns, NEW h \in Gens, sessions'[d] = h
                 PROVE  /\ epc'[h] \notin {"none", "revoke", "done"}
                        /\ closed'[h] => epc'[h] \in {"finishing", "remove"}
      BY Zenon DEF RegisteredIsServed
    <3>1. CASE h = g
      <4>1. ~closed[g]
        BY <2>1, Zenon DEF IInv, Life
      <4> QED BY <2>1, <2>3, <3>1, <4>1, Zenon
    <3>2. CASE h # g
      <4>1. sessions[d] = h
        BY <2>1, <3>2, Zenon
      <4> QED BY <2>1, <2>3, <3>2, <4>1, ZenonT(40) DEF IInv, RegisteredIsServed
    <3> QED BY <3>1, <3>2, Zenon
  <2>9. TerminalAfterRelease'
    <3>1. g \notin out[c]
      BY <2>1, Zenon DEF IInv, Reported
    <3>2. ASSUME NEW d \in Conns, NEW h \in Gens, h \in out'[d]
          PROVE  ~slot'[h] /\ sessions'[d] # h
      <4>1. h \in out[d] /\ ~slot[h] /\ sessions[d] # h
        BY <2>2, <3>2, Zenon DEF IInv, TerminalAfterRelease
      <4>2. sessions'[d] # h
        BY <2>1, <3>1, <4>1, ZenonT(40)
      <4> QED BY <2>3, <4>1, <4>2, Zenon
    <3> QED BY <3>2, Zenon DEF TerminalAfterRelease
  <2>10. CredentialHasRevoker'
    <3>1. epc[g] = "none"
      BY <2>1, Zenon DEF IInv, Life
    <3>2. \A h \in Gens : epc[h] # "none" => epc'[h] = epc[h]
      BY <2>1, <3>1, Zenon
    <3>3. \A d \in Conns : hpc'[d] = "gone" => hpc[d] = "gone"
      BY <2>2, Zenon
    <3> QED BY <2>3, <3>2, <3>3, RevokerStays, Zenon DEF IInv
  <2> QED BY <2>4, <2>5, <2>6, <2>7, <2>8, <2>9, <2>10, ZenonT(40) DEF IInv
<1> QED BY <1>1, <1>2, <1>3, <1>4, <1>5, <1>6, <1>7, <1>8, <1>9, <1>10, <1>11, Zenon
  DEF ConnectStep

\* The event task preserves IInv.
LEMMA EventStepInv ==
  ASSUME TypeOK, IInv, NEW g \in Gens, EventStep(g)
  PROVE  IInv'
<1> USE ConnOfAssumption
      DEF mainVars, connVars, genVars, sessVars, eventVars, EventOnly
<1>0. /\ epc[g] = "remove" => ~slot[g]
      /\ epc[g] \in {"remove", "revoke"} => ~slot[g]
      /\ \A d \in Conns : sessions[d] = g =>
           /\ ConnOf[g] = d /\ epc[g] # "revoke"
           /\ closed[g] => epc[g] \in {"finishing", "remove"}
  <2>1. epc[g] \in {"remove", "revoke"} => ~slot[g]
    BY Zenon DEF IInv, Life
  <2>2. ASSUME NEW d \in Conns, sessions[d] = g
        PROVE  /\ ConnOf[g] = d /\ epc[g] # "revoke"
               /\ closed[g] => epc[g] \in {"finishing", "remove"}
    <3>1. ConnOf[g] = d
      BY <2>2, GensAssumption, ZenonT(40) DEF IInv, Placed
    <3>2. /\ epc[g] \notin {"none", "revoke", "done"}
          /\ closed[g] => epc[g] \in {"finishing", "remove"}
      BY <2>2, Zenon DEF IInv, RegisteredIsServed
    <3> QED BY <3>1, <3>2, Zenon
  <2> QED BY <2>1, <2>2, Zenon
<1>1. CASE EventInit(g)
  <2>1. EventMove(g)
    BY <1>1, <1>0, Domains, Zenon DEF EventMove, EventInit
  <2> QED BY <2>1, EventMoves, Zenon
<1>2. CASE EventBreak(g)
  <2>1. EventMove(g)
    BY <1>2, <1>0, Domains, Zenon DEF EventMove, EventBreak
  <2> QED BY <2>1, EventMoves, Zenon
<1>3. CASE EventConnected(g)
  <2>1. EventMove(g)
    BY <1>3, <1>0, Domains, ZenonT(40) DEF EventMove, EventConnected, Receives
  <2> QED BY <2>1, EventMoves, Zenon
<1>4. CASE EventConnectedLock(g)
  <2>1. EventMove(g)
    BY <1>4, <1>0, Domains, ZenonT(40) DEF EventMove, EventConnectedLock
  <2> QED BY <2>1, EventMoves, Zenon
<1>5. CASE EventConnectedSend(g)
  <2>1. EventMove(g)
    BY <1>5, <1>0, Domains, ZenonT(40) DEF EventMove, EventConnectedSend
  <2> QED BY <2>1, EventMoves, Zenon
<1>6. CASE EventDisconnected(g)
  <2>1. EventMove(g)
    BY <1>6, <1>0, Domains, Zenon DEF EventMove, EventDisconnected, Receives
  <2> QED BY <2>1, EventMoves, Zenon
<1>7. CASE FinishSkipShutdown(g)
  <2>1. EventMove(g)
    BY <1>7, <1>0, Domains, ZenonT(40) DEF EventMove, FinishSkipShutdown, AlreadyShut
  <2> QED BY <2>1, EventMoves, Zenon
<1>8. CASE FinishReplaced(g)
  <2>1. EventMove(g)
    BY <1>8, <1>0, Domains, ZenonT(40) DEF EventMove, FinishReplaced, IsCurrent
  <2> QED BY <2>1, EventMoves, Zenon
<1>9. CASE EventRevoke(g)
  <2>1. EventMove(g)
    BY <1>9, <1>0, Domains, ZenonT(40) DEF EventMove, EventRevoke
  <2> QED BY <2>1, EventMoves, Zenon
<1>10. CASE FinishShutdown(g)
  <2>1. /\ \A h \in Gens : h # g => epc'[h] = epc[h] /\ closed'[h] = closed[h]
        /\ epc[g] = "finish" /\ epc'[g] = "finishing" /\ closed'[g]
    BY <1>10, Domains, ZenonT(40) DEF FinishShutdown, ShutdownBegin
  <2>2. UNCHANGED <<slot, stage, sessions, hpc, cur, out, creds, main, mcur>>
    BY <1>10, Zenon DEF FinishShutdown
  <2>3. Life'
    BY <2>1, <2>2, ZenonT(40) DEF IInv, Life
  <2>4. RegisteredIsServed'
    BY <2>1, <2>2, ZenonT(40) DEF IInv, RegisteredIsServed
  <2>5. CredentialHasRevoker'
    BY <2>1, <2>2, ZenonT(40) DEF IInv, CredentialHasRevoker
  <2> QED BY <2>2, <2>3, <2>4, <2>5, Frames, ZenonT(40) DEF IInv
<1>11. CASE FinishShutdownEnd(g)
  <2>1. /\ \A h \in Gens : h # g => epc'[h] = epc[h] /\ slot'[h] = slot[h]
        /\ epc[g] = "finishing" /\ epc'[g] = "remove" /\ ~slot'[g]
    BY <1>11, Domains, ZenonT(40) DEF FinishShutdownEnd, ShutdownEnd, DropPermit
  <2>2. UNCHANGED <<stage, closed, sessions, hpc, cur, out, creds, main, mcur>>
    BY <1>11, Zenon DEF FinishShutdownEnd
  <2>3. Life'
    BY <2>1, <2>2, ZenonT(40) DEF IInv, Life
  <2>4. RegisteredIsServed'
    BY <2>1, <2>2, ZenonT(40) DEF IInv, RegisteredIsServed
  <2>5. TerminalAfterRelease'
    BY <2>1, <2>2, ZenonT(40) DEF IInv, TerminalAfterRelease
  <2>6. CredentialHasRevoker'
    BY <2>1, <2>2, ZenonT(40) DEF IInv, CredentialHasRevoker
  <2> QED BY <2>2, <2>3, <2>4, <2>5, <2>6, Frames, Zenon DEF IInv
<1>12. CASE FinishRemove(g)
  <2> DEFINE c == ConnOf[g]
  <2>1. /\ \A h \in Gens : h # g => epc'[h] = epc[h]
        /\ epc[g] = "remove" /\ epc'[g] = "revoke"
        /\ \A d \in Conns : d # c => sessions'[d] = sessions[d] /\ out'[d] = out[d]
        /\ sessions[c] = g /\ sessions'[c] = NoGen
        /\ out'[c] \subseteq out[c] \cup {g}
        /\ c \in Conns
    BY <1>12, Domains, ZenonT(40) DEF FinishRemove, IsCurrent, Report
  <2>2. UNCHANGED <<slot, stage, closed, hpc, cur, creds, main, mcur>>
    BY <1>12, Zenon DEF FinishRemove
  <2>3. Life'
    BY <2>1, <2>2, ZenonT(40) DEF IInv, Life
  <2>4. Placed'
    BY <2>1, <2>2, ZenonT(40) DEF IInv, Placed
  <2>5. Removers'
    <3>1. \A d \in Conns, h \in Gens : sessions[d] # h => sessions'[d] # h
      BY <2>1, GensAssumption, ZenonT(40)
    <3>2. ASSUME NEW d \in Conns, hpc'[d] \in {"discWait", "discShut"}
          PROVE  /\ cur'[d] \in Gens /\ stage'[cur'[d]] = "live"
                 /\ ConnOf[cur'[d]] = d /\ sessions'[d] # cur'[d]
      <4>1. /\ cur[d] \in Gens /\ stage[cur[d]] = "live"
            /\ ConnOf[cur[d]] = d /\ sessions[d] # cur[d]
        BY <2>2, <3>2, ZenonT(40) DEF IInv, Removers
      <4> QED BY <2>2, <3>1, <4>1, Zenon
    <3>3. ASSUME main' \in {"discWait", "discShut"}
          PROVE  /\ mcur' \in Gens /\ stage'[mcur'] = "live"
                 /\ ConnOf[mcur'] \in Conns /\ sessions'[ConnOf[mcur']] # mcur'
      <4>1. /\ mcur \in Gens /\ stage[mcur] = "live"
            /\ ConnOf[mcur] \in Conns /\ sessions[ConnOf[mcur]] # mcur
        BY <2>2, <3>3, ZenonT(40) DEF IInv, Removers
      <4> QED BY <2>2, <3>1, <4>1, Zenon
    <3> QED BY <3>2, <3>3, Zenon DEF Removers
  <2>6. Reported'
    BY <2>1, <2>2, ZenonT(40) DEF IInv, Reported, Life
  <2>7. RegisteredIsServed'
    <3> SUFFICES ASSUME NEW d \in Conns, NEW h \in Gens, sessions'[d] = h
                 PROVE  /\ epc'[h] \notin {"none", "revoke", "done"}
                        /\ closed'[h] => epc'[h] \in {"finishing", "remove"}
      BY Zenon DEF RegisteredIsServed
    <3>1. d # c /\ sessions[d] = h
      BY <2>1, GensAssumption, Zenon
    <3>2. h # g
      BY <1>0, <3>1, Zenon
    <3> QED BY <2>1, <2>2, <3>1, <3>2, ZenonT(40) DEF IInv, RegisteredIsServed
  <2>8. TerminalAfterRelease'
    <3> SUFFICES ASSUME NEW d \in Conns, NEW h \in Gens, h \in out'[d]
                 PROVE  ~slot'[h] /\ sessions'[d] # h
      BY Zenon DEF TerminalAfterRelease
    <3>1. CASE h \in out[d]
      <4>1. ~slot[h] /\ sessions[d] # h
        BY <3>1, Zenon DEF IInv, TerminalAfterRelease
      <4> QED BY <2>1, <2>2, <4>1, GensAssumption, Zenon
    <3>2. CASE h \notin out[d]
      <4>1. d = c /\ h = g
        BY <2>1, <3>2, Zenon
      <4> QED BY <1>0, <2>1, <2>2, <4>1, GensAssumption, Zenon
    <3> QED BY <3>1, <3>2, Zenon
  <2>9. CredentialHasRevoker'
    BY <2>1, <2>2, ZenonT(40) DEF IInv, CredentialHasRevoker
  <2> QED BY <2>3, <2>4, <2>5, <2>6, <2>7, <2>8, <2>9, Zenon DEF IInv
<1> QED BY <1>1, <1>2, <1>3, <1>4, <1>5, <1>6, <1>7, <1>8, <1>9, <1>10, <1>11,
  <1>12, Zenon DEF EventStep

\* begin_shutdown, close() and run() preserve IInv.
LEMMA MainStepInv ==
  ASSUME TypeOK, IInv, MainStep
  PROVE  IInv'
<1> USE DEF mainVars, connVars, genVars, sessVars, eventVars
<1>1. CASE Signal \/ CloseScan \/ CloseSkipShutdown \/ CloseDone \/ Exit
  <2>1. /\ main' \notin {"discWait", "discShut"}
        /\ UNCHANGED <<slot, stage, closed, epc, sessions, hpc, cur, out, creds>>
    BY <1>1, Zenon DEF Signal, CloseScan, CloseSkipShutdown, CloseDone, Exit
  <2>2. Removers'
    BY <2>1, Zenon DEF IInv, Removers
  <2> QED BY <2>1, <2>2, Frames, Zenon DEF IInv
<1>2. ASSUME NEW c \in Conns, CloseRemove(c)
      PROVE  IInv'
  <2>1. /\ \A d \in Conns : d # c => sessions'[d] = sessions[d]
        /\ sessions'[c] = NoGen /\ mcur' = sessions[c]
        /\ main' = IF Occupied(c) THEN "discWait" ELSE "closing"
    BY <1>2, Domains, ZenonT(40) DEF CloseRemove
  <2>2. UNCHANGED <<slot, stage, closed, epc, hpc, cur, out, creds>>
    BY <1>2, Zenon DEF CloseRemove
  <2>3. Placed'
    BY <2>1, <2>2, ZenonT(40) DEF IInv, Placed
  <2>4. Removers'
    <3>1. \A d \in Conns, h \in Gens : sessions[d] # h => sessions'[d] # h
      BY <2>1, GensAssumption, Zenon
    <3>2. ASSUME NEW d \in Conns, hpc'[d] \in {"discWait", "discShut"}
          PROVE  /\ cur'[d] \in Gens /\ stage'[cur'[d]] = "live"
                 /\ ConnOf[cur'[d]] = d /\ sessions'[d] # cur'[d]
      <4>1. /\ cur[d] \in Gens /\ stage[cur[d]] = "live"
            /\ ConnOf[cur[d]] = d /\ sessions[d] # cur[d]
        BY <2>2, <3>2, ZenonT(40) DEF IInv, Removers
      <4> QED BY <2>2, <3>1, <4>1, Zenon
    <3>3. ASSUME main' \in {"discWait", "discShut"}
          PROVE  /\ mcur' \in Gens /\ stage'[mcur'] = "live"
                 /\ ConnOf[mcur'] \in Conns /\ sessions'[ConnOf[mcur']] # mcur'
      <4>1. sessions[c] # NoGen
        BY <2>1, <3>3, Zenon DEF Occupied
      <4>2. /\ sessions[c] \in Gens /\ ConnOf[sessions[c]] = c
            /\ stage[sessions[c]] = "live"
        BY <4>1, Zenon DEF IInv, Placed
      <4> QED BY <2>1, <2>2, <4>1, <4>2, Zenon
    <3> QED BY <3>2, <3>3, Zenon DEF Removers
  <2>5. RegisteredIsServed'
    BY <2>1, <2>2, GensAssumption, ZenonT(40) DEF IInv, RegisteredIsServed
  <2>6. TerminalAfterRelease'
    BY <2>1, <2>2, GensAssumption, Zenon DEF IInv, TerminalAfterRelease
  <2> QED BY <2>2, <2>3, <2>4, <2>5, <2>6, Frames, ZenonT(40) DEF IInv
<1>3. CASE CloseShutdown
  <2>0. mcur \in Gens
    BY <1>3, ZenonT(40) DEF CloseShutdown, IInv, Removers
  <2>1. /\ main = "discWait" /\ main' = "discShut" /\ closed'[mcur]
        /\ \A h \in Gens : h # mcur => closed'[h] = closed[h]
    BY <1>3, <2>0, Domains, ZenonT(40) DEF CloseShutdown, ShutdownBegin
  <2>2. UNCHANGED <<slot, stage, epc, sessions, hpc, cur, out, creds, mcur>>
    BY <1>3, Zenon DEF CloseShutdown
  <2>3. stage[mcur] = "live" /\ \A d \in Conns : sessions[d] # mcur
    <3>1. stage[mcur] = "live" /\ sessions[ConnOf[mcur]] # mcur
      BY <2>1, ZenonT(40) DEF IInv, Removers
    <3>2. \A d \in Conns : sessions[d] = mcur => ConnOf[mcur] = d
      BY <2>0, GensAssumption, ZenonT(40) DEF IInv, Placed
    <3> QED BY <3>1, <3>2, ZenonT(40)
  <2>4. Life' /\ RegisteredIsServed'
    BY <2>0, <2>1, <2>2, <2>3, TeardownBegin, ZenonT(40)
  <2>5. Removers'
    BY <2>1, <2>2, ZenonT(40) DEF IInv, Removers
  <2> QED BY <2>2, <2>4, <2>5, Frames, ZenonT(40) DEF IInv
<1>4. CASE CloseShutdownEnd
  <2>0. mcur \in Gens
    BY <1>4, ZenonT(40) DEF CloseShutdownEnd, IInv, Removers
  <2>1. /\ main = "discShut" /\ main' = "closing" /\ ~slot'[mcur]
        /\ \A h \in Gens : h # mcur => slot'[h] = slot[h]
    BY <1>4, <2>0, Domains, ZenonT(40) DEF CloseShutdownEnd, ShutdownEnd, DropPermit
  <2>2. UNCHANGED <<stage, closed, epc, sessions, hpc, cur, out, creds, mcur>>
    BY <1>4, Zenon DEF CloseShutdownEnd
  <2>3. stage[mcur] = "live"
    BY <2>1, Zenon DEF IInv, Removers
  <2>4. Life' /\ TerminalAfterRelease'
    BY <2>0, <2>1, <2>2, <2>3, TeardownEnd, ZenonT(40)
  <2>5. Removers'
    BY <2>1, <2>2, ZenonT(40) DEF IInv, Removers
  <2> QED BY <2>2, <2>4, <2>5, Frames, ZenonT(40) DEF IInv
<1> QED BY <1>1, <1>2, <1>3, <1>4, Zenon DEF MainStep

\* The voice-setup and Mumble control tasks touch nothing IInv speaks about.
LEMMA TaskStepInv ==
  ASSUME IInv, NEW g \in Gens, VoiceStep(g) \/ MumbleStep(g)
  PROVE  IInv'
<1>1. UNCHANGED <<mainVars, sessions, connVars, creds, genVars, sessVars,
                  eventVars>>
  BY Zenon DEF VoiceStep, VoiceCrypt, VoiceFail, VoiceSuspend, VoiceInstall,
    VoiceOnly, MumbleStep, MumbleSync, MumbleReject, MumbleLost, MumbleQuit,
    MumbleOnly
<1>2. UNCHANGED <<slot, stage, closed, epc, sessions, hpc, cur, out, creds, main,
                  mcur>>
  BY <1>1, Zenon DEF mainVars, connVars, genVars, sessVars, eventVars
<1> QED BY <1>2, Frames, ZenonT(40) DEF IInv

\* IInv holds in every state.
THEOREM Invariance == Spec => []IInv
<1>1. Init => IInv
  <2> SUFFICES ASSUME Init PROVE IInv
    BY Zenon
  <2>1. Life /\ Placed
    BY ZenonT(40) DEF Init, Life, Placed
  <2>2. Removers
    BY Zenon DEF Init, Removers
  <2>3. Reported /\ TerminalAfterRelease /\ CredentialHasRevoker
    BY Zenon DEF Init, Reported, TerminalAfterRelease, CredentialHasRevoker
  <2>4. RegisteredIsServed
    BY GensAssumption, ZenonT(40) DEF Init, RegisteredIsServed
  <2> QED BY <2>1, <2>2, <2>3, <2>4, ZenonT(40) DEF IInv
<1>2. TypeOK /\ IInv /\ [Next]_vars => IInv'
  <2> SUFFICES ASSUME TypeOK, IInv, [Next]_vars PROVE IInv'
    BY Zenon
  <2>1. CASE Running
    BY <2>1, HandlerStepInv, ConnectStepInv, EventStepInv, TaskStepInv,
       MainStepInv, ZenonT(40) DEF Running
  <2>2. CASE UNCHANGED vars
    <3>1. UNCHANGED <<slot, stage, closed, epc, sessions, hpc, cur, out, creds,
                      main, mcur>>
      BY <2>2, ZenonT(40) DEF vars, mainVars, connVars, genVars, sessVars, eventVars
    <3> QED BY <3>1, Frames, ZenonT(40) DEF IInv
  <2> QED BY <2>1, <2>2, Zenon DEF Next, Done
<1> QED BY <1>1, <1>2, Typing, PTL DEF Spec

\* The map keeps no session that no event task serves, nor a closed one that
\* its event task is not about to remove.
THEOREM RegisteredServed == Spec => []RegisteredIsServed
BY Invariance, PTL DEF IInv

\* No terminal error is queued before the session it reports on has released
\* its capacity and left the map.
THEOREM TerminalReleased == Spec => []TerminalAfterRelease
BY Invariance, PTL DEF IInv

\* TURN credentials never outlive everyone who would revoke them.
THEOREM CredentialRevoked == Spec => []CredentialHasRevoker
BY Invariance, PTL DEF IInv

-----------------------------------------------------------------------------
(* Ownership of permits.                                                   *)

\* Who answers for a session permit while the server runs and the handlers are
\* the only callers: the handler that awaits connect_user, the map, or the
\* handler that is shutting the session down.
HeldBy(g) ==
  \/ stage[g] \in Connecting /\ ~Occupied(ConnOf[g])
  \/ IsCurrent(g)
  \/ hpc[ConnOf[g]] \in {"discWait", "discShut"} /\ cur[ConnOf[g]] = g

Owned ==
  /\ \A g \in Gens : stage[g] \in Connecting => Awaited(g)
  /\ \A c \in Conns : Occupied(c) =>
       hpc[c] \in {"loop", "call", "connecting", "leave"}
  /\ main # "serving" => shutdown
  /\ \A g \in Gens : slot[g] => shutdown \/ HeldBy(g)

\* A handler that neither awaits connect_user nor shuts a session down moves,
\* and at most a call without a permit fails.
LEMMA HandlerMovesOwned ==
  ASSUME Owned, NEW c \in Conns, UNCHANGED <<slot, main, shutdown, sessions>>,
         \A h \in Gens : stage'[h] = stage[h] \/ (stage'[h] \notin Connecting /\ ~slot[h]),
         \A d \in Conns : d # c => hpc'[d] = hpc[d] /\ cur'[d] = cur[d],
         hpc[c] \notin {"connecting", "discWait", "discShut"},
         Occupied(c) => hpc'[c] \in {"loop", "call", "connecting", "leave"}
  PROVE  Owned'
<1>1. ASSUME NEW h \in Gens, stage'[h] \in Connecting PROVE Awaited(h)'
  <2>1. Awaited(h)
    BY <1>1, Zenon DEF Owned
  <2>2. ConnOf[h] \in Conns /\ ConnOf[h] # c
    BY <2>1, ConnOfAssumption, ZenonT(30) DEF Awaited
  <2> QED BY <2>1, <2>2, Zenon DEF Awaited
<1>2. \A d \in Conns : Occupied(d)' => hpc'[d] \in {"loop", "call", "connecting", "leave"}
  BY Zenon DEF Owned, Occupied
<1>3. ASSUME NEW h \in Gens, slot'[h], ~shutdown PROVE HeldBy(h)'
  <2>1. HeldBy(h) /\ stage'[h] = stage[h] /\ ConnOf[h] \in Conns
    BY <1>3, ConnOfAssumption, Zenon DEF Owned
  <2>2. CASE ConnOf[h] = c
    <3>1. stage[h] \notin Connecting
      BY <2>2, Zenon DEF Owned, Awaited
    <3>2. sessions[ConnOf[h]] = h
      BY <2>1, <2>2, <3>1, Zenon DEF HeldBy, IsCurrent
    <3> QED BY <3>2, Zenon DEF HeldBy, IsCurrent
  <2>3. CASE ConnOf[h] # c
    BY <2>1, <2>3, Zenon DEF HeldBy, IsCurrent, Occupied
  <2> QED BY <2>2, <2>3, Zenon
<1> QED BY <1>1, <1>2, <1>3, Zenon DEF Owned

\* A handler in disconnect_user goes on, and lets its session go when that holds
\* no permit.
LEMMA HandlerLetsGo ==
  ASSUME Owned, NEW c \in Conns, UNCHANGED <<stage, main, shutdown, sessions, cur>>,
         \A h \in Gens : slot'[h] => slot[h],
         \A d \in Conns : d # c => hpc'[d] = hpc[d],
         hpc[c] \in {"discWait", "discShut"},
         \/ hpc'[c] = "discShut"
         \/ cur[c] \in Gens => ~slot'[cur[c]]
  PROVE  Owned'
<1>0. hpc[c] \notin {"loop", "call", "connecting", "leave"}
  BY Zenon
<1>1. ~Occupied(c)
  BY <1>0, Zenon DEF Owned
<1>2. \A h \in Gens : stage'[h] \in Connecting => Awaited(h)'
  BY <1>0, ConnOfAssumption, Zenon DEF Owned, Awaited
<1>3. \A d \in Conns : Occupied(d)' => hpc'[d] \in {"loop", "call", "connecting", "leave"}
  BY <1>1, Zenon DEF Owned, Occupied
<1>4. ASSUME NEW h \in Gens, slot'[h], ~shutdown PROVE HeldBy(h)'
  <2>1. HeldBy(h) /\ ConnOf[h] \in Conns
    BY <1>4, ConnOfAssumption, Zenon DEF Owned
  <2>2. hpc[ConnOf[h]] \in {"discWait", "discShut"} /\ cur[ConnOf[h]] = h =>
          hpc'[ConnOf[h]] \in {"discWait", "discShut"}
    BY <1>4, <2>1, Zenon
  <2> QED BY <2>1, <2>2, Zenon DEF HeldBy, IsCurrent, Occupied
<1> QED BY <1>2, <1>3, <1>4, Zenon DEF Owned

\* disconnect_user takes the permit's session from the map to the handler.
LEMMA HandlerRemoveOwned ==
  ASSUME TypeOK, Owned, NEW c \in Conns, HandlerRemove(c)
  PROVE  Owned'
<1> USE DEF mainVars, connVars, genVars, sessVars, eventVars, voiceVars, mumbleVars
<1>1. UNCHANGED <<stage, slot, main, shutdown>> /\ hpc[c] = "leave"
  BY Zenon DEF HandlerRemove
<1>2. /\ sessions'[c] = NoGen /\ cur'[c] = sessions[c]
      /\ Occupied(c) => hpc'[c] = "discWait"
  BY Domains, Zenon DEF HandlerRemove
<1>3. \A d \in Conns : d # c =>
        sessions'[d] = sessions[d] /\ cur'[d] = cur[d] /\ hpc'[d] = hpc[d]
  BY Domains, Zenon DEF HandlerRemove
<1>4. \A h \in Gens : stage'[h] \in Connecting => Awaited(h)'
  BY <1>1, <1>3, ConnOfAssumption, Zenon DEF Owned, Awaited
<1>5. \A d \in Conns : Occupied(d)' => hpc'[d] \in {"loop", "call", "connecting", "leave"}
  BY <1>2, <1>3, Zenon DEF Owned, Occupied
<1>6. ASSUME NEW h \in Gens, slot'[h], ~shutdown PROVE HeldBy(h)'
  <2>1. HeldBy(h) /\ ConnOf[h] \in Conns /\ h # NoGen
    BY <1>1, <1>6, ConnOfAssumption, GensAssumption, Zenon DEF Owned
  <2>2. CASE ConnOf[h] = c
    <3>1. hpc[c] \notin {"connecting", "discWait", "discShut"}
      BY <1>1, Zenon
    <3>2. stage[h] \notin Connecting
      BY <2>2, <3>1, Zenon DEF Owned, Awaited
    <3>3. sessions[c] = h
      BY <2>1, <2>2, <3>1, <3>2, Zenon DEF HeldBy, IsCurrent
    <3>4. hpc'[c] = "discWait" /\ cur'[c] = h
      BY <1>2, <2>1, <3>3, Zenon DEF Occupied
    <3> QED BY <2>2, <3>4, Zenon DEF HeldBy
  <2>3. CASE ConnOf[h] # c
    BY <1>1, <1>3, <2>1, <2>3, Zenon DEF HeldBy, IsCurrent, Occupied
  <2> QED BY <2>2, <2>3, Zenon
<1> QED BY <1>1, <1>4, <1>5, <1>6, Zenon DEF Owned

\* The handler gives up a session only after its teardown.
LEMMA HandlerStepOwned ==
  ASSUME TypeOK, Owned, NEW c \in Conns, HandlerStep(c)
  PROVE  Owned'
<1> USE DEF mainVars, connVars, genVars, sessVars, eventVars, voiceVars, mumbleVars
<1>1. CASE \/ Accept(c) \/ Leave(c) \/ Stop(c) \/ BadConnect(c) \/ Lookup(c)
           \/ StartVoice(c) \/ RefreshIce(c) \/ OtherCall(c) \/ CallTimeout(c)
           \/ HandlerRevoke(c)
  <2>1. UNCHANGED <<stage, slot, main, shutdown, sessions>>
    BY <1>1, ZenonT(30) DEF Accept, Leave, Stop, BadConnect, Lookup, StartVoice, RefreshIce,
      OtherCall, CallReturns, CallTimeout, HandlerRevoke
  <2>2. \A d \in Conns : d # c => hpc'[d] = hpc[d] /\ cur'[d] = cur[d]
    BY <1>1, Domains, ZenonT(30) DEF Accept, Leave, Stop, BadConnect, Lookup, StartVoice,
      RefreshIce, OtherCall, CallReturns, CallTimeout, HandlerRevoke
  <2>3. hpc[c] \in {"new", "fresh", "loop", "call", "revoke"}
    BY <1>1, ZenonT(30) DEF Accept, Leave, Stop, BadConnect, Lookup, StartVoice,
      RefreshIce, OtherCall, CallReturns, CallTimeout, HandlerRevoke
  <2>4. hpc[c] \notin {"connecting", "discWait", "discShut"}
    BY <2>3, Zenon
  <2>5. Occupied(c) => hpc[c] \notin {"new", "revoke"}
    BY Zenon DEF Owned
  <2>6. Occupied(c) => ~Accept(c) /\ ~HandlerRevoke(c)
    BY <2>5, Zenon DEF Accept, HandlerRevoke
  <2>7. Occupied(c) => hpc'[c] \in {"loop", "call", "connecting", "leave"}
    BY <1>1, <2>6, Domains, ZenonT(30) DEF Leave, Stop, BadConnect, Lookup, StartVoice,
      RefreshIce, OtherCall, CallReturns, CallTimeout
  <2> QED BY <2>1, <2>2, <2>4, <2>7, HandlerMovesOwned, Zenon
<1>2. CASE HandlerShutdown(c)
  <2>1. /\ UNCHANGED <<stage, slot, main, shutdown, sessions, cur>>
        /\ hpc[c] = "discWait" /\ hpc'[c] = "discShut"
        /\ \A d \in Conns : d # c => hpc'[d] = hpc[d]
    BY <1>2, Domains, Zenon DEF HandlerShutdown
  <2> QED BY <2>1, HandlerLetsGo, Zenon
<1>3. CASE HandlerSkipShutdown(c)
  <2>1. /\ UNCHANGED <<stage, slot, main, shutdown, sessions, cur>>
        /\ hpc[c] = "discWait" /\ ~slot[cur[c]]
        /\ \A d \in Conns : d # c => hpc'[d] = hpc[d]
    BY <1>3, Domains, Zenon DEF HandlerSkipShutdown, AlreadyShut
  <2> QED BY <2>1, HandlerLetsGo, Zenon
<1>4. CASE HandlerShutdownEnd(c)
  <2>1. /\ UNCHANGED <<stage, main, shutdown, sessions, cur>>
        /\ hpc[c] = "discShut"
        /\ \A d \in Conns : d # c => hpc'[d] = hpc[d]
    BY <1>4, Domains, Zenon DEF HandlerShutdownEnd
  <2>2. slot' = [slot EXCEPT ![cur[c]] = FALSE]
    BY <1>4, Zenon DEF HandlerShutdownEnd, ShutdownEnd, DropPermit
  <2>3. /\ \A h \in Gens : slot'[h] => slot[h]
        /\ cur[c] \in Gens => ~slot'[cur[c]]
    BY <2>2, Domains, Zenon
  <2> QED BY <2>1, <2>3, HandlerLetsGo, Zenon
<1>5. CASE SendTerminal(c) \/ SendFail(c)
  <2>1. UNCHANGED <<stage, slot, hpc, cur, sessions, main, shutdown>>
    BY <1>5, Zenon DEF SendTerminal, SendFail
  <2> QED BY <2>1, Zenon DEF Owned, HeldBy, Awaited, Occupied, IsCurrent
<1> QED BY <1>1, <1>2, <1>3, <1>4, <1>5, HandlerRemoveOwned, Zenon DEF HandlerStep

\* A handler awaits one connect_user.
LEMMA AwaitedAlone ==
  ASSUME NEW g \in Gens, NEW h \in Gens, Awaited(g), Awaited(h), ConnOf[h] = ConnOf[g]
  PROVE  h = g
BY Zenon DEF Awaited

\* When connect_user fails, the handler that awaits it goes on with no permit.
LEMMA ReturnOwned ==
  ASSUME Owned, NEW g \in Gens,
         stage[g] \in Connecting, stage'[g] = "failed", ~slot'[g],
         \A h \in Gens : h # g => stage'[h] = stage[h] /\ slot'[h] = slot[h],
         hpc'[ConnOf[g]] \in {"loop", "leave"},
         \A d \in Conns : d # ConnOf[g] => hpc'[d] = hpc[d] /\ cur'[d] = cur[d],
         UNCHANGED <<sessions, main, shutdown>>
  PROVE  Owned'
<1>0. Awaited(g) /\ "failed" \notin Connecting
  BY Zenon DEF Owned, Connecting
<1>1. ASSUME NEW h \in Gens, h # g, stage[h] \in Connecting PROVE ConnOf[h] # ConnOf[g]
  <2>1. Awaited(h)
    BY <1>1, Zenon DEF Owned
  <2> QED BY <1>0, <1>1, <2>1, AwaitedAlone, Zenon
<1>2. ASSUME NEW h \in Gens, stage'[h] \in Connecting PROVE Awaited(h)'
  <2>1. h # g /\ stage[h] \in Connecting
    BY <1>0, <1>2, ZenonT(30)
  <2>2. ConnOf[h] # ConnOf[g] /\ ConnOf[h] \in Conns /\ Awaited(h)
    BY <1>1, <2>1, ConnOfAssumption, Zenon DEF Owned
  <2> QED BY <2>2, Zenon DEF Awaited
<1>3. \A d \in Conns : Occupied(d)' => hpc'[d] \in {"loop", "call", "connecting", "leave"}
  BY Zenon DEF Owned, Occupied
<1>4. ASSUME NEW h \in Gens, slot'[h], ~shutdown PROVE HeldBy(h)'
  <2>1. HeldBy(h) /\ h # g /\ ConnOf[h] \in Conns /\ stage'[h] = stage[h]
    BY <1>4, ConnOfAssumption, Zenon DEF Owned
  <2>2. CASE ConnOf[h] = ConnOf[g]
    <3>1. hpc[ConnOf[h]] = "connecting"
      BY <1>0, <2>2, Zenon DEF Awaited
    <3>2. hpc[ConnOf[h]] \notin {"discWait", "discShut"}
      BY <3>1, Zenon
    <3> QED BY <2>1, <3>2, Zenon DEF HeldBy, IsCurrent, Occupied
  <2>3. CASE ConnOf[h] # ConnOf[g]
    BY <2>1, <2>3, Zenon DEF HeldBy, IsCurrent, Occupied
  <2> QED BY <2>2, <2>3, Zenon
<1> QED BY <1>2, <1>3, <1>4, Zenon DEF Owned

\* connect_user goes on, taking a permit at most while its place is free.
LEMMA ConnectStaysOwned ==
  ASSUME Owned, NEW g \in Gens, UNCHANGED <<hpc, cur, sessions, main, shutdown>>,
         stage[g] \in Connecting, stage'[g] \in Connecting,
         \A h \in Gens : h # g => stage'[h] = stage[h] /\ slot'[h] = slot[h],
         slot'[g] => slot[g] \/ ~Occupied(ConnOf[g])
  PROVE  Owned'
<1>1. \A h \in Gens : stage'[h] \in Connecting => Awaited(h)'
  BY Zenon DEF Owned, Awaited
<1>2. ASSUME NEW h \in Gens, slot'[h], ~shutdown PROVE HeldBy(h)'
  <2>1. CASE h = g /\ ~Occupied(ConnOf[g])
    BY <2>1, Zenon DEF HeldBy, Occupied
  <2>2. CASE slot[h]
    <3>1. HeldBy(h)
      BY <1>2, <2>2, Zenon DEF Owned
    <3>2. stage[h] \in Connecting => stage'[h] \in Connecting
      BY ZenonT(30)
    <3> QED BY <3>1, <3>2, Zenon DEF HeldBy, IsCurrent, Occupied
  <2> QED BY <1>2, <2>1, <2>2, Zenon
<1> QED BY <1>1, <1>2, Zenon DEF Owned, Occupied

\* The session enters the map with its permit, and the handler goes on.
LEMMA InsertOwned ==
  ASSUME TypeOK, Owned, NEW g \in Gens, Insert(g)
  PROVE  Owned'
<1> USE DEF mainVars, connVars, genVars, sessVars, eventVars, voiceVars, mumbleVars
<1>0. ConnOf[g] \in Conns /\ stage[g] = "built" /\ ~Occupied(ConnOf[g])
  BY ConnOfAssumption, Zenon DEF Insert
<1>1. stage[g] \in Connecting /\ "live" \notin Connecting
  BY <1>0, Zenon DEF Connecting
<1>2. Awaited(g)
  BY <1>1, Zenon DEF Owned
<1>3. /\ UNCHANGED <<slot, main, shutdown>> /\ stage' = [stage EXCEPT ![g] = "live"]
      /\ sessions' = [sessions EXCEPT ![ConnOf[g]] = g]
      /\ hpc' = [hpc EXCEPT ![ConnOf[g]] = "loop"]
      /\ \A d \in Conns : d # ConnOf[g] => cur'[d] = cur[d]
  BY <1>2, Domains, Zenon DEF Insert, ReturnConnect
<1>4. \A h \in Gens : h # g /\ stage[h] \in Connecting => ConnOf[h] # ConnOf[g]
  BY <1>2, Zenon DEF Owned, Awaited
<1>5. ASSUME NEW h \in Gens, stage'[h] \in Connecting PROVE Awaited(h)'
  <2>1. h # g /\ stage[h] \in Connecting
    BY <1>1, <1>3, <1>5, Domains, Zenon
  <2>2. ConnOf[h] # ConnOf[g] /\ ConnOf[h] \in Conns /\ Awaited(h)
    BY <1>4, <2>1, ConnOfAssumption, Zenon DEF Owned
  <2> QED BY <1>3, <2>2, Domains, Zenon DEF Awaited
<1>6. \A d \in Conns : Occupied(d)' => hpc'[d] \in {"loop", "call", "connecting", "leave"}
  BY <1>3, Domains, Zenon DEF Owned, Occupied
<1>7. ASSUME NEW h \in Gens, slot'[h], ~shutdown PROVE HeldBy(h)'
  <2>0. HeldBy(h) /\ ConnOf[h] \in Conns
    BY <1>3, <1>7, ConnOfAssumption, Zenon DEF Owned
  <2>1. CASE h = g
    BY <1>0, <1>3, <2>1, Domains, Zenon DEF HeldBy, IsCurrent
  <2>2. CASE h # g /\ ConnOf[h] = ConnOf[g]
    <3>1. stage[h] \notin Connecting
      BY <1>4, <2>2, Zenon
    <3>2. hpc[ConnOf[h]] \notin {"discWait", "discShut"}
      BY <1>2, <2>2, Zenon DEF Awaited
    <3>3. sessions[ConnOf[h]] = NoGen /\ h # NoGen
      BY <1>0, <2>2, GensAssumption, Zenon DEF Occupied
    <3> QED BY <2>0, <3>1, <3>2, <3>3, Zenon DEF HeldBy, IsCurrent
  <2>3. CASE ConnOf[h] # ConnOf[g]
    <3>1. stage'[h] = stage[h] /\ sessions'[ConnOf[h]] = sessions[ConnOf[h]]
          /\ hpc'[ConnOf[h]] = hpc[ConnOf[h]] /\ cur'[ConnOf[h]] = cur[ConnOf[h]]
      BY <1>3, <2>0, <2>3, Domains, Zenon
    <3> QED BY <2>0, <3>1, Zenon DEF HeldBy, IsCurrent, Occupied
  <2> QED BY <2>1, <2>2, <2>3, Zenon
<1> QED BY <1>3, <1>5, <1>6, <1>7, Zenon DEF Owned

\* connect_user of a handler keeps its permit owned by that handler.
LEMMA ConnectStepOwned ==
  ASSUME ~DirectCallers, TypeOK, IInv, Owned, NEW g \in Gens, ConnectStep(g)
  PROVE  Owned'
<1> USE DEF mainVars, connVars, genVars, sessVars, eventVars, voiceVars, mumbleVars
<1>0. ConnOf[g] \in Conns /\ (stage[g] \in {"unused", "checked"} => ~slot[g])
  BY ConnOfAssumption, Zenon DEF IInv, Life
<1>1. CASE Connect(g)
  <2>1. /\ UNCHANGED <<slot, main, shutdown, sessions>> /\ ~slot[g]
        /\ hpc[ConnOf[g]] \in {"fresh", "loop"}
        /\ hpc' = [hpc EXCEPT ![ConnOf[g]] = "connecting"]
        /\ cur' = [cur EXCEPT ![ConnOf[g]] = g]
        /\ \A h \in Gens : h # g => stage'[h] = stage[h]
    BY <1>0, <1>1, Domains, Zenon DEF Connect
  <2>2. \A h \in Gens : stage[h] \in Connecting => ConnOf[h] # ConnOf[g]
    BY <2>1, Zenon DEF Owned, Awaited
  <2>3. \A h \in Gens : stage'[h] \in Connecting => Awaited(h)'
    BY <1>0, <2>1, <2>2, ConnOfAssumption, Domains, Zenon DEF Owned, Awaited
  <2>4. \A d \in Conns : Occupied(d)' => hpc'[d] \in {"loop", "call", "connecting", "leave"}
    BY <2>1, Domains, Zenon DEF Owned, Occupied
  <2>5. ASSUME NEW h \in Gens, slot'[h], ~shutdown PROVE HeldBy(h)'
    <3>1. HeldBy(h) /\ ConnOf[h] \in Conns /\ stage'[h] = stage[h]
      BY <2>1, <2>5, ConnOfAssumption, Zenon DEF Owned
    <3>2. CASE ConnOf[h] = ConnOf[g]
      BY <2>1, <2>2, <3>1, <3>2, Zenon DEF HeldBy, IsCurrent
    <3>3. CASE ConnOf[h] # ConnOf[g]
      <4>1. hpc'[ConnOf[h]] = hpc[ConnOf[h]] /\ cur'[ConnOf[h]] = cur[ConnOf[h]]
        BY <2>1, <3>1, <3>3, Domains, Zenon
      <4> QED BY <2>1, <3>1, <4>1, Zenon DEF HeldBy, IsCurrent, Occupied
    <3> QED BY <3>2, <3>3, Zenon
  <2> QED BY <2>1, <2>3, <2>4, <2>5, Zenon DEF Owned
<1>2. CASE ConnectStopping(g)
  <2>1. /\ UNCHANGED <<slot, main, shutdown, sessions, cur>>
        /\ hpc[ConnOf[g]] \in {"fresh", "loop"}
        /\ hpc' = [hpc EXCEPT ![ConnOf[g]] = "loop"]
        /\ stage' = [stage EXCEPT ![g] = "failed"] /\ ~slot[g]
    BY <1>0, <1>2, Zenon DEF ConnectStopping
  <2>2. \A h \in Gens : stage'[h] = stage[h] \/ (stage'[h] \notin Connecting /\ ~slot[h])
    BY <2>1, Domains, Zenon DEF Connecting
  <2>3. /\ hpc'[ConnOf[g]] = "loop"
        /\ \A d \in Conns : d # ConnOf[g] => hpc'[d] = hpc[d] /\ cur'[d] = cur[d]
    BY <1>0, <2>1, Domains, Zenon
  <2>4. hpc[ConnOf[g]] \notin {"connecting", "discWait", "discShut"}
    BY <2>1, Zenon
  <2> QED BY <1>0, <2>1, <2>2, <2>3, <2>4, HandlerMovesOwned, Zenon
<1>3. CASE DirectConnect(g)
  BY <1>3, Zenon DEF DirectConnect
<1>4. CASE Reserve(g)
  <2>1. /\ UNCHANGED <<hpc, cur, sessions, main, shutdown>> /\ ~Occupied(ConnOf[g])
        /\ stage[g] = "checked" /\ stage'[g] = "connecting"
        /\ \A h \in Gens : h # g => stage'[h] = stage[h] /\ slot'[h] = slot[h]
    BY <1>4, Domains, Zenon DEF Reserve, Occupied
  <2>2. stage[g] \in Connecting /\ stage'[g] \in Connecting
    BY <2>1, Zenon DEF Connecting
  <2> QED BY <2>1, <2>2, ConnectStaysOwned, Zenon
<1>5. CASE Refuse(g)
  <2>1. Awaited(g)
    BY <1>5, Zenon DEF Owned, Refuse, Connecting
  <2> QED BY <1>5, <2>1, <1>0, Domains, ReturnOwned, ZenonT(30)
    DEF Refuse, ReturnConnect, Connecting, Awaited
<1>6. CASE MumbleUp(g) \/ Duplicate(g)
  <2>1. /\ UNCHANGED <<hpc, cur, sessions, main, shutdown, slot>>
        /\ stage[g] \in {"connecting", "built"} /\ stage'[g] \in {"built", "dup"}
        /\ \A h \in Gens : h # g => stage'[h] = stage[h]
    BY <1>6, Domains, Zenon DEF MumbleUp, Duplicate
  <2>2. stage[g] \in Connecting /\ stage'[g] \in Connecting
    BY <2>1, Zenon DEF Connecting
  <2> QED BY <2>1, <2>2, ConnectStaysOwned, Zenon
<1>7. CASE ConnectFail(g)
  <2>1. Awaited(g)
    BY <1>7, Zenon DEF Owned, ConnectFail, Connecting
  <2> QED BY ZenonT(30), <1>7, <2>1, <1>0, Domains, ReturnOwned
    DEF ConnectFail, DropPermit, ReturnConnect, Connecting, Awaited
<1>8. CASE Cancel(g)
  <2>1. Awaited(g)
    BY <1>8, Zenon DEF Owned, Cancel, Connecting
  <2> QED BY ZenonT(30), <1>8, <2>1, <1>0, Domains, ReturnOwned DEF Cancel,
    DropPermit, Connecting, Awaited
<1>9. CASE DuplicateEnd(g)
  <2>1. Awaited(g)
    BY <1>9, Zenon DEF Owned, DuplicateEnd, Connecting
  <2> QED BY ZenonT(30), <1>9, <2>1, <1>0, Domains, ReturnOwned
    DEF DuplicateEnd, DropPermit, ReturnConnect, Connecting, Awaited
<1> QED BY <1>1, <1>2, <1>3, <1>4, <1>5, <1>6, <1>7, <1>8, <1>9, InsertOwned, Zenon
  DEF ConnectStep

\* The event task removes a session only when its permit is released.
LEMMA EventStepOwned ==
  ASSUME TypeOK, IInv, Owned, NEW g \in Gens, EventStep(g)
  PROVE  Owned'
<1> USE DEF mainVars, connVars, genVars, sessVars, eventVars, voiceVars, mumbleVars
<1>1. CASE FinishShutdownEnd(g)
  <2>1. /\ UNCHANGED <<stage, hpc, cur, sessions, main, shutdown>>
        /\ slot' = [slot EXCEPT ![g] = FALSE]
    BY <1>1, Zenon DEF FinishShutdownEnd, DropPermit, ShutdownEnd
  <2>2. \A h \in Gens : slot'[h] => slot[h]
    BY <2>1, Domains, Zenon
  <2> QED BY <2>1, <2>2, Zenon DEF Owned, HeldBy, Awaited, Occupied, IsCurrent
<1>2. CASE FinishRemove(g)
  <2>1. /\ UNCHANGED <<stage, slot, hpc, cur, main, shutdown>>
        /\ sessions' = [sessions EXCEPT ![ConnOf[g]] = NoGen]
        /\ sessions[ConnOf[g]] = g /\ ConnOf[g] \in Conns
    BY <1>2, ConnOfAssumption, Zenon DEF FinishRemove, IsCurrent
  <2>2. ~slot[g]
    BY <1>2, Zenon DEF FinishRemove, IInv, Life
  <2>3. \A d \in Conns : Occupied(d)' => Occupied(d)
    BY <2>1, Domains, Zenon DEF Occupied
  <2>4. \A h \in Gens : h # g /\ IsCurrent(h) => IsCurrent(h)'
    BY <2>1, Domains, ConnOfAssumption, Zenon DEF IsCurrent
  <2>5. ASSUME NEW h \in Gens, slot'[h], ~shutdown PROVE HeldBy(h)'
    <3>1. HeldBy(h) /\ h # g /\ ConnOf[h] \in Conns
      BY <2>1, <2>2, <2>5, ConnOfAssumption, Zenon DEF Owned
    <3> QED BY <2>1, <2>3, <2>4, <3>1, Zenon DEF HeldBy
  <2> QED BY <2>1, <2>3, <2>5, Zenon DEF Owned, Awaited
<1>3. CASE \/ EventInit(g) \/ EventBreak(g) \/ EventConnected(g)
            \/ EventConnectedLock(g) \/ EventConnectedSend(g)
            \/ EventDisconnected(g) \/ FinishShutdown(g)
            \/ FinishSkipShutdown(g) \/ FinishReplaced(g) \/ EventRevoke(g)
  <2>1. UNCHANGED <<stage, slot, hpc, cur, sessions, main, shutdown>>
    BY <1>3, ZenonT(30) DEF EventInit, EventOnly, EventBreak, EventConnected,
      EventConnectedLock, EventConnectedSend, EventDisconnected,
      FinishShutdown, FinishSkipShutdown, FinishReplaced, EventRevoke
  <2> QED BY <2>1, Zenon DEF Owned, HeldBy, Awaited, Occupied, IsCurrent
<1> QED BY <1>1, <1>2, <1>3, Zenon DEF EventStep

\* close() takes sessions out of the map only after the shutdown flag is set.
LEMMA MainStepOwned ==
  ASSUME TypeOK, Owned, MainStep
  PROVE  Owned'
<1> USE DEF mainVars, connVars, genVars, sessVars, eventVars, voiceVars, mumbleVars
<1>1. UNCHANGED <<stage, hpc, cur>>
  BY ZenonT(30) DEF MainStep, Signal, CloseScan, CloseShutdown, CloseSkipShutdown,
    CloseShutdownEnd, CloseDone, Exit, CloseRemove
<1>2. shutdown'
  <2>1. CASE Signal
    BY <2>1, SMT DEF Signal
  <2>2. CASE ~Signal
    <3>1. shutdown' = shutdown
      BY <2>2, ZenonT(30) DEF MainStep, CloseScan, CloseShutdown, CloseSkipShutdown,
        CloseShutdownEnd, CloseDone, Exit, CloseRemove
    <3>2. main \in {"signalled", "closing", "discWait", "discShut", "closed"}
      BY <2>2, ZenonT(30) DEF MainStep, CloseScan, CloseShutdown, CloseSkipShutdown,
        CloseShutdownEnd, CloseDone, Exit, CloseRemove
    <3> QED BY <3>1, <3>2, Zenon DEF Owned
  <2> QED BY <2>1, <2>2, Zenon
<1>3. \A d \in Conns : Occupied(d)' => Occupied(d)
  <2>1. ASSUME NEW c \in Conns, CloseRemove(c), NEW d \in Conns, Occupied(d)' PROVE Occupied(d)
    BY <2>1, Domains, Zenon DEF CloseRemove, Occupied
  <2>2. CASE ~\E c \in Conns : CloseRemove(c)
    BY <2>2, ZenonT(30) DEF MainStep, Signal, CloseScan, CloseShutdown, CloseSkipShutdown,
      CloseShutdownEnd, CloseDone, Exit, Occupied
  <2> QED BY <2>1, <2>2, Zenon
<1> QED BY <1>1, <1>2, <1>3, Zenon DEF Owned, Awaited

\* The voice-setup and Mumble tasks hold no permit.
LEMMA TaskStepOwned ==
  ASSUME Owned, NEW g \in Gens, VoiceStep(g) \/ MumbleStep(g)
  PROVE  Owned'
<1>1. UNCHANGED <<mainVars, sessions, connVars, genVars>>
  BY Zenon DEF VoiceStep, VoiceCrypt, VoiceFail, VoiceSuspend, VoiceInstall,
    VoiceOnly, MumbleStep, MumbleSync, MumbleReject, MumbleLost, MumbleQuit,
    MumbleOnly
<1> QED
  BY <1>1, Zenon DEF Owned, HeldBy, Awaited, Occupied, IsCurrent, mainVars, connVars, genVars

\* With handlers as the only callers, every held permit belongs to the
\* handler of its own connection, until the server is told to stop.
LEMMA Ownership == ASSUME ~DirectCallers PROVE Spec => []Owned
<1>1. Init => Owned
  <2> SUFFICES ASSUME Init PROVE Owned
    BY Zenon
  <2>1. \A g \in Gens : stage[g] \notin Connecting /\ ~slot[g]
    BY Zenon DEF Init, Connecting
  <2>2. \A c \in Conns : ~Occupied(c)
    BY Zenon DEF Init, Occupied
  <2>3. main = "serving"
    BY ZenonT(30) DEF Init
  <2> QED BY <2>1, <2>2, <2>3, Zenon DEF Owned
<1>2. TypeOK /\ IInv /\ Owned /\ [Next]_vars => Owned'
  <2> SUFFICES ASSUME TypeOK, IInv, Owned, [Next]_vars PROVE Owned'
    BY Zenon
  <2>1. CASE Running
    BY <2>1, HandlerStepOwned, ConnectStepOwned, EventStepOwned,
       TaskStepOwned, MainStepOwned, Zenon DEF Running
  <2>2. CASE UNCHANGED vars
    BY ZenonT(30), <2>2 DEF Owned, HeldBy, Awaited, Occupied, IsCurrent, vars,
      mainVars, connVars,
      genVars
  <2> QED BY <2>1, <2>2, Zenon DEF Next, Done
<1> QED BY <1>1, <1>2, Typing, Invariance, PTL DEF Spec

-----------------------------------------------------------------------------
(* Credentials of a reconnect.                                             *)

\* The browser knows, or will, that its connection is at an end: what
\* LiveCredentialKept asks for.  None of it is ever taken back.
Told(c) == ws[c] = "closed" \/ out[c] # {} \/ shutdown

\* The handler has taken the session out of the map and connects no more.
Ending == {"discWait", "discShut", "revoke", "gone"}

\* The event task in its loop or before it.
Early == {"none", "init", "loop", "connLock", "connSend"}

\* An event task that ends the session in the map has a terminal error to
\* report, unless the WebSocket is ending anyway.
Warned(g) ==
  epc[g] \in {"finish", "finishing", "remove"} /\ IsCurrent(g) =>
    terminal_error[g] \/ ws[ConnOf[g]] = "closed" \/ shutdown

\* A session that left the map left a browser that is told, or a handler that
\* is ending.
Left(g) ==
  stage[g] = "live" /\ ~IsCurrent(g) => Told(ConnOf[g]) \/ hpc[ConnOf[g]] \in Ending

\* A lost Mumble connection is the last thing the event task hears of it.
Announced(g) ==
  mpc[g] = "down" /\ epc[g] \in Early /\ ~Released(g) =>
    mq[g] # <<>> /\ mq[g][Len(mq[g])] = "Disconnected"

Noticed == \A g \in Gens : Warned(g) /\ Left(g) /\ Announced(g)

\* The shapes of the variables Noticed speaks about.
LEMMA Shapes ==
  ASSUME TypeOK
  PROVE  /\ DOMAIN sessions = Conns /\ DOMAIN hpc = Conns /\ DOMAIN ws = Conns
         /\ DOMAIN out = Conns /\ DOMAIN creds = Conns
         /\ DOMAIN stage = Gens /\ DOMAIN epc = Gens /\ DOMAIN closed = Gens
         /\ DOMAIN terminal_error = Gens /\ DOMAIN mpc = Gens
         /\ mq \in [Gens -> Seq({"Connected", "Disconnected"})]
BY Zenon DEF TypeOK

\* What every step of the program keeps: a browser that is told stays told, and
\* a handler that is ending goes on ending.
Calm ==
  /\ shutdown => shutdown'
  /\ \A c \in Conns : /\ ws[c] = "closed" => ws'[c] = "closed"
                      /\ Told(c) => Told(c)'
                      /\ hpc[c] \in Ending => hpc'[c] \in Ending

\* The ways in which steps change what Calm is about.
LEMMA CalmUnchanged ==
  ASSUME UNCHANGED <<ws, out, hpc, shutdown>>
  PROVE  Calm
BY Zenon DEF Calm, Told

LEMMA CalmMoved ==
  ASSUME TypeOK, NEW c \in Conns, NEW place, UNCHANGED <<ws, out, shutdown>>,
         hpc' = [hpc EXCEPT ![c] = place], hpc[c] \notin Ending \/ place \in Ending
  PROVE  Calm
<1>1. \A d \in Conns : hpc[d] \in Ending => hpc'[d] \in Ending
  BY Shapes, Zenon
<1> QED BY <1>1, Zenon DEF Calm, Told

LEMMA CalmReported ==
  ASSUME TypeOK, NEW c \in Conns, NEW g, NEW error, Report(c, g, error),
         UNCHANGED <<ws, shutdown>>, \A d \in Conns : hpc[d] \in Ending => hpc'[d] \in Ending
  PROVE  Calm
<1>1. \A d \in Conns : out[d] \subseteq out'[d]
  BY Shapes, Zenon DEF Report
<1>2. \A d \in Conns : out[d] # {} => out'[d] # {}
  BY <1>1, Zenon
<1> QED BY <1>2, Zenon DEF Calm, Told

LEMMA CalmEnded ==
  ASSUME TypeOK, NEW c \in Conns, EndSend(c), UNCHANGED shutdown,
         \A d \in Conns : hpc[d] \in Ending => hpc'[d] \in Ending
  PROVE  Calm
<1>1. \A d \in Conns : ws'[d] = "closed" \/ (ws'[d] = ws[d] /\ out'[d] = out[d])
  BY Shapes, Zenon DEF EndSend
<1> QED BY <1>1, Zenon DEF Calm, Told

\* Steps of the handler ...
LEMMA HandlerCalm ==
  ASSUME TypeOK, NEW c \in Conns, HandlerStep(c)
  PROVE  Calm
<1> USE DEF mainVars, connVars, genVars, sessVars, eventVars, voiceVars, mumbleVars
<1>1. CASE \/ Accept(c) \/ Leave(c) \/ Stop(c) \/ Lookup(c) \/ CallTimeout(c)
           \/ StartVoice(c) \/ RefreshIce(c) \/ OtherCall(c)
           \/ HandlerRemove(c) \/ HandlerShutdown(c) \/ HandlerSkipShutdown(c)
           \/ HandlerShutdownEnd(c)
  <2>1. UNCHANGED <<ws, out, shutdown>>
    BY <1>1, ZenonT(30) DEF Accept, Leave, Stop, Lookup, CallTimeout, StartVoice, RefreshIce,
      OtherCall, CallReturns, HandlerRemove, HandlerShutdown, HandlerSkipShutdown,
      HandlerShutdownEnd
  <2>2. \E place : /\ hpc' = [hpc EXCEPT ![c] = place]
                   /\ hpc[c] \notin Ending \/ place \in Ending
    <3>1. CASE Accept(c) \/ Leave(c) \/ Stop(c) \/ Lookup(c) \/ CallTimeout(c)
      BY <3>1, Zenon DEF Accept, Leave, Stop, Lookup, CallTimeout, Ending
    <3>2. CASE StartVoice(c) \/ RefreshIce(c) \/ OtherCall(c)
      BY <3>2, Zenon DEF StartVoice, RefreshIce, OtherCall, CallReturns, Ending
    <3>3. CASE HandlerRemove(c)
      BY <3>3, Zenon DEF HandlerRemove, Ending
    <3>4. CASE HandlerShutdown(c) \/ HandlerSkipShutdown(c) \/ HandlerShutdownEnd(c)
      BY <3>4, Zenon DEF HandlerShutdown, HandlerSkipShutdown, HandlerShutdownEnd, Ending
    <3> QED BY <1>1, <3>1, <3>2, <3>3, <3>4, Zenon
  <2> QED BY <2>1, <2>2, CalmMoved, Zenon
<1>2. CASE SendTerminal(c) \/ SendFail(c)
  BY <1>2, CalmEnded, Zenon DEF SendTerminal, SendFail
<1>3. CASE HandlerRevoke(c)
  <2>1. \A d \in Conns : hpc[d] \in Ending => hpc'[d] \in Ending
    BY <1>3, Shapes, Zenon DEF HandlerRevoke, Ending
  <2> QED BY <1>3, <2>1, CalmEnded, Zenon DEF HandlerRevoke
<1>4. CASE BadConnect(c)
  <2>1. \A d \in Conns : hpc[d] \in Ending => hpc'[d] \in Ending
    BY <1>4, Shapes, Zenon DEF BadConnect, Ending
  <2> QED BY <1>4, <2>1, CalmReported, Zenon DEF BadConnect
<1> QED BY <1>1, <1>2, <1>3, <1>4, Zenon DEF HandlerStep

\* ... of connect_user ...
LEMMA ConnectCalm ==
  ASSUME TypeOK, NEW g \in Gens, ConnectStep(g)
  PROVE  Calm
<1> USE DEF mainVars, connVars, genVars, sessVars, eventVars, voiceVars, mumbleVars
<1> DEFINE c == ConnOf[g]
<1>0. c \in Conns
  BY ConnOfAssumption, Zenon
<1>1. CASE DirectConnect(g) \/ Reserve(g) \/ MumbleUp(g) \/ Duplicate(g)
  <2>1. UNCHANGED <<ws, out, hpc, shutdown>>
    BY <1>1, Zenon DEF DirectConnect, Reserve, MumbleUp, Duplicate
  <2> QED BY <2>1, CalmUnchanged, Zenon
<1>2. CASE Connect(g) \/ Cancel(g)
  <2>1. UNCHANGED <<ws, out, shutdown>>
    BY <1>2, Zenon DEF Connect, Cancel
  <2>2. \E place : /\ hpc' = [hpc EXCEPT ![c] = place]
                   /\ hpc[c] \notin Ending \/ place \in Ending
    BY <1>2, Zenon DEF Connect, Cancel, Ending
  <2> QED BY <1>0, <2>1, <2>2, CalmMoved, Zenon
<1>3. CASE ConnectStopping(g)
  <2>1. \A d \in Conns : hpc[d] \in Ending => hpc'[d] \in Ending
    BY <1>3, Shapes, Zenon DEF ConnectStopping, Ending
  <2> QED BY <1>0, <1>3, <2>1, CalmReported, Zenon DEF ConnectStopping
<1>4. ASSUME ReturnConnect(g, TRUE) \/ ReturnConnect(g, FALSE), UNCHANGED <<ws, shutdown>>
      PROVE  Calm
  <2>1. \A d \in Conns : hpc[d] \in Ending => hpc'[d] \in Ending
    BY <1>4, Shapes, Zenon DEF ReturnConnect, Awaited, Ending
  <2>2. \E error : Report(c, g, error)
    BY <1>4, Zenon DEF ReturnConnect
  <2> QED BY <1>0, <1>4, <2>1, <2>2, CalmReported, Zenon
<1>5. CASE Refuse(g) \/ ConnectFail(g) \/ Insert(g) \/ DuplicateEnd(g)
  BY <1>4, <1>5, Zenon DEF Refuse, ConnectFail, Insert, DuplicateEnd
<1> QED BY <1>1, <1>2, <1>3, <1>5, Zenon DEF ConnectStep

\* ... of the other tasks, and of the process.
LEMMA TaskCalm ==
  ASSUME TypeOK, NEW g \in Gens, EventStep(g) \/ VoiceStep(g) \/ MumbleStep(g)
  PROVE  Calm
<1> USE DEF mainVars, connVars, genVars, sessVars, eventVars, voiceVars, mumbleVars
<1>1. CASE FinishRemove(g)
  <2>1. ConnOf[g] \in Conns
    BY ConnOfAssumption, Zenon
  <2> QED BY <1>1, <2>1, CalmReported, Zenon DEF FinishRemove
<1>2. CASE EventStep(g) /\ ~FinishRemove(g)
  <2>1. UNCHANGED <<ws, out, hpc, shutdown>>
    BY <1>2, ZenonT(30) DEF EventStep, EventOnly, EventInit, EventBreak, EventConnected,
      EventConnectedLock, EventConnectedSend, EventDisconnected, FinishShutdown,
      FinishSkipShutdown, FinishShutdownEnd, FinishReplaced, EventRevoke
  <2> QED BY <2>1, CalmUnchanged, Zenon
<1>3. CASE VoiceStep(g) \/ MumbleStep(g)
  <2>1. UNCHANGED <<ws, out, hpc, shutdown>>
    BY <1>3, ZenonT(30) DEF VoiceStep, VoiceCrypt, VoiceFail, VoiceSuspend, VoiceInstall,
      VoiceOnly, MumbleStep, MumbleSync, MumbleReject, MumbleLost, MumbleQuit, MumbleOnly
  <2> QED BY <2>1, CalmUnchanged, Zenon
<1> QED BY <1>1, <1>2, <1>3, Zenon

LEMMA MainCalm ==
  ASSUME MainStep
  PROVE  Calm
<1> USE DEF mainVars, connVars, genVars, sessVars, eventVars, voiceVars, mumbleVars
<1>1. CASE Signal
  <2>1. UNCHANGED <<ws, out, hpc>> /\ shutdown' = TRUE
    BY <1>1, Zenon DEF Signal
  <2> QED BY <2>1, Zenon DEF Calm, Told
<1>2. ASSUME NEW c \in Conns, CloseRemove(c)
      PROVE  Calm
  BY <1>2, CalmUnchanged, Zenon DEF CloseRemove
<1>3. CASE \/ CloseScan \/ CloseShutdown \/ CloseSkipShutdown \/ CloseShutdownEnd
           \/ CloseDone \/ Exit
  BY <1>3, CalmUnchanged, Zenon DEF CloseScan, CloseShutdown, CloseSkipShutdown,
    CloseShutdownEnd, CloseDone, Exit
<1> QED BY <1>1, <1>2, <1>3, Zenon DEF MainStep

\* What leaves the three parts of Noticed alone, for one session.
WarnedStays(h) ==
  /\ epc'[h] = epc[h] /\ terminal_error'[h] = terminal_error[h]
  /\ sessions'[ConnOf[h]] = h => sessions[ConnOf[h]] = h
LeftStays(h) ==
  /\ stage'[h] = "live" => stage[h] = "live"
  /\ sessions[ConnOf[h]] = h => sessions'[ConnOf[h]] = h
AnnouncedStays(h) ==
  /\ mpc'[h] = mpc[h] /\ mq'[h] = mq[h]
  /\ epc'[h] \in Early => epc[h] \in Early
  /\ Released(h) => Released(h)'

\* What they leave alone holds as before.
LEMMA PartsStay ==
  ASSUME Calm, NEW h \in Gens
  PROVE  /\ Warned(h) /\ WarnedStays(h) => Warned(h)'
         /\ Left(h) /\ LeftStays(h) => Left(h)'
         /\ Announced(h) /\ AnnouncedStays(h) => Announced(h)'
<1>0. ConnOf[h] \in Conns
  BY ConnOfAssumption, Zenon
<1>1. Warned(h) /\ WarnedStays(h) => Warned(h)'
  BY <1>0, Zenon DEF Calm, Warned, WarnedStays, IsCurrent
<1>2. Left(h) /\ LeftStays(h) => Left(h)'
  BY <1>0, Zenon DEF Calm, Left, LeftStays, IsCurrent
<1>3. Announced(h) /\ AnnouncedStays(h) => Announced(h)'
  BY Zenon DEF Announced, AnnouncedStays
<1> QED BY <1>1, <1>2, <1>3, Zenon

\* The handler: disconnect_user takes a session away from a browser that will
\* not connect again.
LEMMA HandlerNoticed ==
  ASSUME TypeOK, Noticed, NEW c \in Conns, HandlerStep(c)
  PROVE  Noticed'
<1> USE DEF mainVars, connVars, genVars, sessVars, eventVars, voiceVars, mumbleVars
<1>0. Calm
  BY HandlerCalm, Zenon
<1>1. UNCHANGED <<stage, epc, terminal_error, mpc, mq>>
  BY ZenonT(30) DEF HandlerStep, Accept, SendTerminal, SendFail, Leave, Stop, BadConnect,
    Lookup, StartVoice, RefreshIce, OtherCall, CallReturns, CallTimeout, HandlerRemove,
    HandlerShutdown, HandlerSkipShutdown, HandlerShutdownEnd, HandlerRevoke
<1>2. \A h \in Gens : closed[h] = TRUE => closed'[h] = TRUE
  <2>1. CASE HandlerShutdown(c)
    BY <2>1, Shapes, Zenon DEF HandlerShutdown, ShutdownBegin
  <2>2. CASE ~HandlerShutdown(c)
    BY <2>2, ZenonT(30) DEF HandlerStep, Accept, SendTerminal, SendFail, Leave, Stop, BadConnect,
      Lookup, StartVoice, RefreshIce, OtherCall, CallReturns, CallTimeout, HandlerRemove,
      HandlerSkipShutdown, HandlerShutdownEnd, HandlerRevoke
  <2> QED BY <2>1, <2>2, Zenon
<1>3. ASSUME NEW h \in Gens
      PROVE  Warned(h)' /\ Left(h)' /\ Announced(h)'
  <2>0. Warned(h) /\ Left(h) /\ Announced(h)
    BY Zenon DEF Noticed
  <2>1. Announced(h)'
    <3>1. closed[h] \in BOOLEAN
      BY Zenon DEF TypeOK
    <3>2. AnnouncedStays(h)
      BY <1>1, <1>2, <3>1, Zenon DEF AnnouncedStays, Released
    <3> QED BY <1>0, <2>0, <3>2, PartsStay, Zenon
  <2>2. CASE HandlerRemove(c) /\ ConnOf[h] = c
    <3>1. sessions'[c] = NoGen /\ h # NoGen
      BY <2>2, Shapes, GensAssumption, Zenon DEF HandlerRemove
    <3>2. hpc'[c] \in Ending
      BY <2>2, Shapes, Zenon DEF HandlerRemove, Ending
    <3> QED BY <2>1, <2>2, <3>1, <3>2, Zenon DEF Warned, Left, IsCurrent
  <2>3. CASE ~(HandlerRemove(c) /\ ConnOf[h] = c)
    <3>0. ConnOf[h] \in Conns
      BY ConnOfAssumption, Zenon
    <3>1. HandlerRemove(c) => sessions'[ConnOf[h]] = sessions[ConnOf[h]]
      BY <2>3, <3>0, Shapes, Zenon DEF HandlerRemove
    <3>2. sessions'[ConnOf[h]] = sessions[ConnOf[h]]
      BY <2>3, <3>1, ZenonT(30) DEF HandlerStep, Accept, SendTerminal, SendFail, Leave, Stop,
        BadConnect, Lookup, StartVoice, RefreshIce, OtherCall, CallReturns, CallTimeout,
        HandlerShutdown, HandlerSkipShutdown, HandlerShutdownEnd, HandlerRevoke
    <3>3. WarnedStays(h) /\ LeftStays(h)
      BY <1>1, <3>2, Zenon DEF WarnedStays, LeftStays
    <3> QED BY <1>0, <2>0, <2>1, <3>3, PartsStay, Zenon
  <2> QED BY <2>2, <2>3, Zenon
<1> QED BY <1>3, Zenon DEF Noticed

\* connect_user: its session has neither an event task nor a place in the map
\* before Insert, which finds that place free.
LEMMA ConnectNoticed ==
  ASSUME TypeOK, IInv, Noticed, NEW g \in Gens, ConnectStep(g)
  PROVE  Noticed'
<1> USE DEF mainVars, connVars, genVars, sessVars, eventVars, voiceVars, mumbleVars
<1>0. Calm /\ ConnOf[g] \in Conns
  BY ConnectCalm, ConnOfAssumption, Zenon
<1>1. UNCHANGED <<terminal_error, mq>> /\ stage[g] \notin {"failed", "live"}
  <2>1. UNCHANGED <<terminal_error, mq>>
    BY ZenonT(30) DEF ConnectStep, Connect, ConnectStopping, DirectConnect, Reserve, Refuse,
      MumbleUp, ConnectFail, Cancel, Insert, Duplicate, DuplicateEnd
  <2>2. stage[g] \in {"unused", "checked", "connecting", "built", "dup"}
    BY ZenonT(30) DEF ConnectStep, Connect, ConnectStopping, DirectConnect, Reserve, Refuse,
      MumbleUp, ConnectFail, Cancel, Insert, Duplicate, DuplicateEnd, Connecting
  <2> QED BY <2>1, <2>2, Zenon
<1>2. \A h \in Gens : closed[h] = TRUE => closed'[h] = TRUE
  <2>1. CASE Duplicate(g)
    BY <2>1, Shapes, Zenon DEF Duplicate
  <2>2. CASE ~Duplicate(g)
    BY <2>2, ZenonT(30) DEF ConnectStep, Connect, ConnectStopping, DirectConnect, Reserve, Refuse,
      MumbleUp, ConnectFail, Cancel, Insert, DuplicateEnd
  <2> QED BY <2>1, <2>2, Zenon
<1>3. \A h \in Gens : h # g => stage'[h] = stage[h] /\ mpc'[h] = mpc[h] /\ epc'[h] = epc[h]
  <2>1. \A h \in Gens : h # g => stage'[h] = stage[h]
    BY Shapes, ZenonT(30) DEF ConnectStep, Connect, ConnectStopping, DirectConnect, Reserve,
      Refuse, MumbleUp, ConnectFail, Cancel, Insert, Duplicate, DuplicateEnd
  <2>2. \A h \in Gens : h # g => mpc'[h] = mpc[h]
    BY Shapes, ZenonT(30) DEF ConnectStep, Connect, ConnectStopping, DirectConnect, Reserve,
      Refuse, MumbleUp, ConnectFail, Cancel, Insert, Duplicate, DuplicateEnd
  <2>3. \A h \in Gens : h # g => epc'[h] = epc[h]
    BY Shapes, ZenonT(30) DEF ConnectStep, Connect, ConnectStopping, DirectConnect, Reserve,
      Refuse, MumbleUp, ConnectFail, Cancel, Insert, Duplicate, DuplicateEnd
  <2> QED BY <2>1, <2>2, <2>3, Zenon
<1>4. ASSUME NEW h \in Gens, h # g
      PROVE  Warned(h)' /\ Left(h)' /\ Announced(h)'
  <2>0. Warned(h) /\ Left(h) /\ Announced(h) /\ ConnOf[h] \in Conns
    BY ConnOfAssumption, Zenon DEF Noticed
  <2>1. AnnouncedStays(h)
    <3>1. closed[h] \in BOOLEAN
      BY Zenon DEF TypeOK
    <3> QED BY <1>1, <1>2, <1>3, <1>4, <3>1, Zenon DEF AnnouncedStays, Released
  <2>2. sessions'[ConnOf[h]] = h <=> sessions[ConnOf[h]] = h
    <3>1. CASE Insert(g)
      BY <1>0, <1>4, <2>0, <3>1, Shapes, GensAssumption, Zenon DEF Insert, Occupied
    <3>2. CASE ~Insert(g)
      BY <3>2, ZenonT(30) DEF ConnectStep, Connect, ConnectStopping, DirectConnect, Reserve,
        Refuse, MumbleUp, ConnectFail, Cancel, Duplicate, DuplicateEnd
    <3> QED BY <3>1, <3>2, Zenon
  <2>3. WarnedStays(h) /\ LeftStays(h)
    BY <1>1, <1>3, <1>4, <2>2, Zenon DEF WarnedStays, LeftStays
  <2> QED BY <1>0, <2>0, <2>1, <2>3, PartsStay, Zenon
<1>5. Warned(g)' /\ Left(g)'
  <2>1. CASE Insert(g)
    BY <1>0, <2>1, Shapes, Zenon DEF Insert, Warned, Left, IsCurrent
  <2>2. CASE ~Insert(g)
    <3>1. UNCHANGED <<epc, sessions>>
      BY <2>2, ZenonT(30) DEF ConnectStep, Connect, ConnectStopping, DirectConnect, Reserve,
        Refuse, MumbleUp, ConnectFail, Cancel, Duplicate, DuplicateEnd
    <3>2. stage'[g] \in {"failed", "checked", "connecting", "built", "dup"}
      BY <2>2, Shapes, Zenon DEF ConnectStep, Connect, ConnectStopping, DirectConnect, Reserve,
        Refuse, MumbleUp, ConnectFail, Cancel, Duplicate, DuplicateEnd
    <3>3. epc[g] = "none"
      BY <1>1, Zenon DEF IInv, Life
    <3>4. epc'[g] = "none" /\ stage'[g] # "live"
      BY <3>1, <3>2, <3>3, Zenon
    <3> QED BY <3>4, Zenon DEF Warned, Left
  <2> QED BY <2>1, <2>2, Zenon
<1>6. Announced(g)'
  <2>0. Announced(g)
    BY Zenon DEF Noticed
  <2>1. CASE MumbleUp(g)
    <3>1. mpc'[g] = "up"
      BY <2>1, Shapes, Zenon DEF MumbleUp
    <3> QED BY <3>1, Zenon DEF Announced
  <2>2. CASE ~MumbleUp(g)
    <3>1. mpc' = mpc
      BY <2>2, ZenonT(30) DEF ConnectStep, Connect, ConnectStopping, DirectConnect, Reserve,
        Refuse, ConnectFail, Cancel, Insert, Duplicate, DuplicateEnd
    <3>2. epc[g] = "none"
      BY <1>1, Zenon DEF IInv, Life
    <3>3. closed[g] \in BOOLEAN
      BY Zenon DEF TypeOK
    <3>4. Released(g) => Released(g)'
      BY <1>1, <1>2, <3>3, Zenon DEF Released
    <3>5. AnnouncedStays(g)
      BY <1>1, <3>1, <3>2, <3>4, Zenon DEF AnnouncedStays, Early
    <3> QED BY <1>0, <2>0, <3>5, PartsStay, Zenon
  <2> QED BY <2>1, <2>2, Zenon
<1> QED BY <1>4, <1>5, <1>6, Zenon DEF Noticed

\* The event task, seen from other sessions: they keep their place.
LEMMA EventOthers ==
  ASSUME TypeOK, Noticed, NEW g \in Gens, EventStep(g), NEW h \in Gens, h # g
  PROVE  Warned(h)' /\ Left(h)' /\ Announced(h)'
<1> USE DEF mainVars, connVars, genVars, sessVars, eventVars, voiceVars, mumbleVars
<1>0. Calm /\ ConnOf[g] \in Conns /\ ConnOf[h] \in Conns
  BY TaskCalm, ConnOfAssumption, Zenon
<1>1. UNCHANGED <<stage, mpc>>
  BY ZenonT(30) DEF EventStep, EventInit, EventBreak, EventConnected, EventConnectedLock,
    EventConnectedSend, EventDisconnected, FinishShutdown, FinishSkipShutdown,
    FinishShutdownEnd, FinishRemove, FinishReplaced, EventRevoke, EventOnly
<1>2. epc'[h] = epc[h]
  BY Shapes, ZenonT(30) DEF EventStep, EventInit, EventBreak, EventConnected,
    EventConnectedLock, EventConnectedSend, EventDisconnected, FinishShutdown,
    FinishSkipShutdown, FinishShutdownEnd, FinishRemove, FinishReplaced, EventRevoke
<1>3. terminal_error'[h] = terminal_error[h]
  BY Shapes, ZenonT(30) DEF EventStep, EventInit, EventBreak, EventConnected,
    EventConnectedLock, EventConnectedSend, EventDisconnected, FinishShutdown,
    FinishSkipShutdown, FinishShutdownEnd, FinishRemove, FinishReplaced, EventRevoke
<1>4. mq'[h] = mq[h]
  BY Shapes, ZenonT(30) DEF EventStep, EventInit, EventBreak, EventConnected,
    EventConnectedLock, EventConnectedSend, EventDisconnected, FinishShutdown, Receives,
    FinishSkipShutdown, FinishShutdownEnd, FinishRemove, FinishReplaced, EventRevoke
<1>5. closed'[h] = closed[h]
  BY Shapes, ZenonT(30) DEF EventStep, EventInit, EventBreak, EventConnected,
    EventConnectedLock, EventConnectedSend, EventDisconnected, FinishShutdown, ShutdownBegin,
    FinishSkipShutdown, FinishShutdownEnd, FinishRemove, FinishReplaced, EventRevoke
<1>6. sessions'[ConnOf[h]] = h <=> sessions[ConnOf[h]] = h
  <2>1. CASE FinishRemove(g)
    BY <1>0, <2>1, Shapes, GensAssumption, Zenon DEF FinishRemove, IsCurrent
  <2>2. CASE ~FinishRemove(g)
    BY <2>2, ZenonT(30) DEF EventStep, EventInit, EventBreak, EventConnected,
      EventConnectedLock, EventConnectedSend, EventDisconnected, FinishShutdown,
      FinishSkipShutdown, FinishShutdownEnd, FinishReplaced, EventRevoke
  <2> QED BY <2>1, <2>2, Zenon
<1>7. WarnedStays(h) /\ LeftStays(h) /\ AnnouncedStays(h)
  BY <1>1, <1>2, <1>3, <1>4, <1>5, <1>6, Zenon
  DEF WarnedStays, LeftStays, AnnouncedStays, Released
<1> QED BY <1>0, <1>7, PartsStay, Zenon DEF Noticed

\* The event task leaves its loop with a reason: the session is closed, which
\* one in the map is not, or the WebSocket is, or Mumble announced its end.
LEMMA EventWarned ==
  ASSUME TypeOK, IInv, Noticed, NEW g \in Gens, EventStep(g)
  PROVE  Warned(g)'
<1> USE DEF mainVars, connVars, genVars, sessVars, eventVars, voiceVars, mumbleVars
<1>0. Calm /\ ConnOf[g] \in Conns /\ Warned(g) /\ Announced(g)
  BY TaskCalm, ConnOfAssumption, Zenon DEF Noticed
<1>c. sessions[ConnOf[g]] = g /\ closed[g] => epc[g] \in {"finishing", "remove"}
  BY <1>0, Zenon DEF IInv, RegisteredIsServed
<1>1. CASE EventBreak(g)
  <2>1. UNCHANGED <<sessions, ws>> /\ epc[g] = "loop"
    BY <1>1, Zenon DEF EventBreak, EventOnly
  <2>2. sessions[ConnOf[g]] = g => ~closed[g]
    BY <1>c, <2>1, Zenon
  <2>3. stage[g] # "failed"
    BY <2>1, SMT DEF IInv, Life
  <2>4. mpc[g] = "down" /\ mq[g] = <<>> => closed[g]
    BY <1>0, <2>1, <2>3, Zenon DEF Announced, Early, Released
  <2>5. sessions[ConnOf[g]] = g => ws[ConnOf[g]] = "closed"
    BY <1>1, <2>2, <2>4, Zenon DEF EventBreak
  <2> QED BY <2>1, <2>5, Zenon DEF Warned, IsCurrent
<1>2. CASE EventConnectedLock(g)
  <2>1. sessions' = sessions /\ epc[g] = "connLock"
    BY <1>2, Zenon DEF EventConnectedLock
  <2>2. sessions[ConnOf[g]] = g => ~closed[g]
    BY <1>c, <2>1, Zenon
  <2>3. ~closed[g] => epc'[g] = "connSend"
    BY <1>2, Shapes, Zenon DEF EventConnectedLock
  <2>4. IsCurrent(g)' => epc'[g] = "connSend"
    BY <2>1, <2>2, <2>3, Zenon DEF IsCurrent
  <2> QED BY <2>4, Zenon DEF Warned
<1>3. CASE EventDisconnected(g)
  <2>1. terminal_error'[g] = TRUE
    BY <1>3, Shapes, Zenon DEF EventDisconnected
  <2> QED BY <2>1, Zenon DEF Warned
<1>4. CASE FinishShutdown(g) \/ FinishSkipShutdown(g) \/ FinishShutdownEnd(g)
  <2>1. UNCHANGED <<sessions, ws, shutdown, terminal_error>>
    BY <1>4, Zenon DEF FinishShutdown, FinishSkipShutdown, FinishShutdownEnd, EventOnly
  <2>2. epc[g] \in {"finish", "finishing", "remove"}
    BY <1>4, Zenon DEF FinishShutdown, FinishSkipShutdown, FinishShutdownEnd
  <2> QED BY <1>0, <2>1, <2>2, Zenon DEF Warned, IsCurrent
<1>5. CASE EventInit(g) \/ EventConnected(g) \/ EventConnectedSend(g) \/ FinishRemove(g)
        \/ FinishReplaced(g) \/ EventRevoke(g)
  <2>1. epc'[g] \in {"done", "loop", "connLock", "revoke"}
    BY <1>5, Shapes, ZenonT(30) DEF EventInit, EventConnected, EventConnectedSend, FinishRemove,
      FinishReplaced, EventRevoke
  <2>2. epc'[g] \notin {"finish", "finishing", "remove"}
    BY <2>1, Zenon
  <2> QED BY <2>2, Zenon DEF Warned
<1> QED BY <1>1, <1>2, <1>3, <1>4, <1>5, Zenon DEF EventStep

\* It takes its session out of the map with the report it owes, or a reason
\* that makes one unnecessary.
LEMMA EventLeft ==
  ASSUME TypeOK, Noticed, NEW g \in Gens, EventStep(g)
  PROVE  Left(g)'
<1> USE DEF mainVars, connVars, genVars, sessVars, eventVars, voiceVars, mumbleVars
<1>0. Calm /\ ConnOf[g] \in Conns /\ Warned(g) /\ Left(g)
  BY TaskCalm, ConnOfAssumption, Zenon DEF Noticed
<1>1. CASE FinishRemove(g)
  <2>1. terminal_error[g] \/ ws[ConnOf[g]] = "closed" \/ shutdown
    <3>1. epc[g] = "remove" /\ IsCurrent(g)
      BY <1>1, Zenon DEF FinishRemove
    <3> QED BY <1>0, <3>1, Zenon DEF Warned
  <2>2. UNCHANGED <<ws, shutdown>> /\ ws[ConnOf[g]] \in {"open", "closed"}
    BY <1>0, <1>1, Zenon DEF FinishRemove, TypeOK
  <2>3. CASE ws[ConnOf[g]] = "closed" \/ shutdown
    BY <2>2, <2>3, Zenon DEF Left, Told
  <2>4. CASE terminal_error[g] /\ ws[ConnOf[g]] = "open"
    <3>1. out'[ConnOf[g]] = out[ConnOf[g]] \cup {g}
      BY <1>0, <1>1, <2>4, Shapes, Zenon DEF FinishRemove, Report
    <3>2. out'[ConnOf[g]] # {}
      BY <3>1, Zenon
    <3> QED BY <3>2, Zenon DEF Left, Told
  <2> QED BY <2>1, <2>2, <2>3, <2>4, Zenon
<1>2. CASE ~FinishRemove(g)
  <2>1. UNCHANGED <<stage, sessions>>
    BY <1>2, ZenonT(30) DEF EventStep, EventInit, EventBreak, EventConnected,
      EventConnectedLock, EventConnectedSend, EventDisconnected, FinishShutdown, EventOnly,
      FinishSkipShutdown, FinishShutdownEnd, FinishReplaced, EventRevoke
  <2>2. LeftStays(g)
    BY <2>1, Zenon DEF LeftStays
  <2> QED BY <1>0, <2>2, PartsStay, Zenon
<1> QED BY <1>1, <1>2, Zenon

\* It takes one Connected from the queue, so a Disconnected stays its last.
LEMMA EventAnnounced ==
  ASSUME TypeOK, Noticed, NEW g \in Gens, EventStep(g)
  PROVE  Announced(g)'
<1> USE DEF mainVars, connVars, genVars, sessVars, eventVars, voiceVars, mumbleVars
<1>0. Calm /\ Announced(g)
  BY TaskCalm, Zenon DEF Noticed
<1>1. CASE EventConnected(g)
  <2>1. mpc' = mpc /\ stage' = stage /\ closed' = closed /\ epc[g] = "loop"
    BY <1>1, Zenon DEF EventConnected, EventOnly, Receives
  <2>2. mq[g] # <<>> /\ Head(mq[g]) = "Connected" /\ mq'[g] = Tail(mq[g])
    BY <1>1, Shapes, Zenon DEF EventConnected, Receives
  <2>3. mq[g] \in Seq({"Connected", "Disconnected"})
    BY Shapes, Zenon
  <2>4. epc[g] \in Early
    BY <2>1, Zenon DEF Early
  <2>5. mq[g][Len(mq[g])] = "Disconnected" =>
          mq'[g] # <<>> /\ mq'[g][Len(mq'[g])] = "Disconnected"
    BY <2>2, <2>3, LastOfQueue, Zenon
  <2> QED BY <1>0, <2>1, <2>4, <2>5, Zenon DEF Announced, Released
<1>2. CASE EventInit(g) \/ EventConnectedLock(g) \/ EventConnectedSend(g)
  <2>1. UNCHANGED <<mpc, mq, stage, closed>>
    BY <1>2, Zenon DEF EventInit, EventConnectedLock, EventConnectedSend, EventOnly
  <2>2. epc[g] \in {"init", "connLock", "connSend"}
    BY <1>2, Zenon DEF EventInit, EventConnectedLock, EventConnectedSend
  <2>3. AnnouncedStays(g)
    BY <2>1, <2>2, Zenon DEF AnnouncedStays, Early, Released
  <2> QED BY <1>0, <2>3, PartsStay, Zenon
<1>3. CASE EventBreak(g) \/ EventDisconnected(g) \/ FinishShutdown(g) \/ FinishSkipShutdown(g)
        \/ FinishShutdownEnd(g) \/ FinishRemove(g) \/ FinishReplaced(g) \/ EventRevoke(g)
  <2>1. epc'[g] \in {"finish", "finishing", "remove", "revoke", "done"}
    BY <1>3, Shapes, ZenonT(30) DEF EventBreak, EventDisconnected, FinishShutdown,
      FinishSkipShutdown, FinishShutdownEnd, FinishRemove, FinishReplaced, EventRevoke
  <2>2. epc'[g] \notin Early
    BY <2>1, Zenon DEF Early
  <2> QED BY <2>2, Zenon DEF Announced
<1> QED BY <1>1, <1>2, <1>3, Zenon DEF EventStep

\* The Mumble task ends after reporting it, or because its session was released.
LEMMA MumbleNoticed ==
  ASSUME TypeOK, Noticed, NEW g \in Gens, MumbleStep(g)
  PROVE  Noticed'
<1> USE DEF mainVars, connVars, genVars, sessVars, eventVars, voiceVars, mumbleVars
<1>0. Calm
  BY TaskCalm, Zenon
<1>1. UNCHANGED <<stage, closed, epc, terminal_error, sessions>>
  BY Zenon DEF MumbleStep, MumbleSync, MumbleReject, MumbleLost, MumbleQuit, MumbleOnly
<1>2. ASSUME NEW h \in Gens PROVE Warned(h)' /\ Left(h)'
  <2>1. WarnedStays(h) /\ LeftStays(h)
    BY <1>1, Zenon DEF WarnedStays, LeftStays
  <2> QED BY <1>0, <2>1, PartsStay, Zenon DEF Noticed
<1>3. ASSUME NEW h \in Gens, h # g PROVE Announced(h)'
  <2>1. mpc'[h] = mpc[h] /\ mq'[h] = mq[h]
    BY <1>3, Shapes, Zenon DEF MumbleStep, MumbleSync, MumbleReject, MumbleLost, MumbleQuit
  <2>2. AnnouncedStays(h)
    BY <1>1, <2>1, Zenon DEF AnnouncedStays, Released
  <2> QED BY <1>0, <2>2, PartsStay, Zenon DEF Noticed
<1>4. Announced(g)'
  <2>1. CASE MumbleSync(g) \/ MumbleReject(g)
    <3>1. mpc'[g] \in {"synced", "rejected"}
      BY <2>1, Shapes, Zenon DEF MumbleSync, MumbleReject
    <3> QED BY <3>1, Zenon DEF Announced
  <2>2. CASE MumbleLost(g)
    <3>1. mq'[g] = Append(mq[g], "Disconnected") /\ mq[g] \in Seq({"Connected", "Disconnected"})
      BY <2>2, Shapes, Zenon DEF MumbleLost
    <3>2. mq'[g] # <<>> /\ mq'[g][Len(mq'[g])] = "Disconnected"
      BY <3>1, LastOfQueue, Zenon
    <3> QED BY <3>2, Zenon DEF Announced
  <2>3. CASE MumbleQuit(g)
    BY <1>1, <2>3, Zenon DEF MumbleQuit, Announced, Released
  <2> QED BY <2>1, <2>2, <2>3, Zenon DEF MumbleStep
<1> QED BY <1>2, <1>3, <1>4, Zenon DEF Noticed

\* The voice-setup task has no part in it.
LEMMA VoiceNoticed ==
  ASSUME TypeOK, Noticed, NEW g \in Gens, VoiceStep(g)
  PROVE  Noticed'
<1> USE DEF mainVars, connVars, genVars, sessVars, eventVars, voiceVars, mumbleVars
<1>1. UNCHANGED <<stage, closed, epc, terminal_error, sessions, mpc, mq>>
  BY Zenon DEF VoiceStep, VoiceCrypt, VoiceFail, VoiceSuspend, VoiceInstall, VoiceOnly
<1>2. \A h \in Gens : WarnedStays(h) /\ LeftStays(h) /\ AnnouncedStays(h)
  BY <1>1, Zenon DEF WarnedStays, LeftStays, AnnouncedStays, Released
<1> QED BY <1>2, TaskCalm, PartsStay, Zenon DEF Noticed

\* The stopping server tells every browser.
LEMMA MainNoticed ==
  ASSUME TypeOK, Owned, Noticed, MainStep
  PROVE  Noticed'
<1> USE DEF mainVars, connVars, genVars, sessVars, eventVars, voiceVars, mumbleVars
<1>0. Calm
  BY MainCalm, Zenon
<1>1. UNCHANGED <<stage, epc, terminal_error, mpc, mq>>
  BY ZenonT(30) DEF MainStep, Signal, CloseScan, CloseShutdown, CloseSkipShutdown,
    CloseShutdownEnd, CloseDone, Exit, CloseRemove
<1>2. \A h \in Gens : closed[h] = TRUE => closed'[h] = TRUE
  <2>1. CASE CloseShutdown
    BY <2>1, Shapes, Zenon DEF CloseShutdown, ShutdownBegin
  <2>2. CASE ~CloseShutdown
    BY <2>2, ZenonT(30) DEF MainStep, Signal, CloseScan, CloseSkipShutdown,
      CloseShutdownEnd, CloseDone, Exit, CloseRemove
  <2> QED BY <2>1, <2>2, Zenon
<1>3. shutdown' \/ sessions' = sessions
  <2>1. ASSUME NEW c \in Conns, CloseRemove(c) PROVE shutdown'
    <3>1. main = "closing" /\ shutdown' = shutdown
      BY <2>1, Zenon DEF CloseRemove
    <3>2. main # "serving"
      BY <3>1, Zenon
    <3> QED BY <3>1, <3>2, Zenon DEF Owned
  <2> QED BY <2>1, ZenonT(30) DEF MainStep, Signal, CloseScan, CloseShutdown, CloseSkipShutdown,
    CloseShutdownEnd, CloseDone, Exit
<1>4. ASSUME NEW h \in Gens
      PROVE  Warned(h)' /\ Left(h)' /\ Announced(h)'
  <2>1. closed[h] \in BOOLEAN
    BY Zenon DEF TypeOK
  <2>2. AnnouncedStays(h)
    BY <1>1, <1>2, <2>1, Zenon DEF AnnouncedStays, Released
  <2>3. Announced(h)'
    BY <1>0, <2>2, PartsStay, Zenon DEF Noticed
  <2>4. CASE shutdown'
    BY <2>3, <2>4, Zenon DEF Warned, Left, Told
  <2>5. CASE sessions' = sessions
    <3>1. WarnedStays(h) /\ LeftStays(h)
      BY <1>1, <2>5, Zenon DEF WarnedStays, LeftStays
    <3> QED BY <1>0, <2>3, <3>1, PartsStay, Zenon DEF Noticed
  <2> QED BY <1>3, <2>4, <2>5, Zenon
<1> QED BY <1>4, Zenon DEF Noticed

\* Noticed is an invariant of a server whose sessions all come from handlers.
LEMMA Notice == ASSUME ~DirectCallers PROVE Spec => []Noticed
<1>1. Init => Noticed
  BY Zenon DEF Init, Noticed, Warned, Left, Announced
<1>2. TypeOK /\ IInv /\ Owned /\ Noticed /\ [Next]_vars => Noticed'
  <2> SUFFICES ASSUME TypeOK, IInv, Owned, Noticed, [Next]_vars PROVE Noticed'
    BY Zenon
  <2>1. ASSUME NEW g \in Gens, EventStep(g) PROVE Noticed'
    BY <2>1, EventOthers, EventWarned, EventLeft, EventAnnounced, Zenon DEF Noticed
  <2>2. CASE Running
    BY <2>1, <2>2, HandlerNoticed, ConnectNoticed, VoiceNoticed, MumbleNoticed, MainNoticed,
       Zenon DEF Running
  <2>3. CASE UNCHANGED vars
    BY ZenonT(30), <2>3 DEF Noticed, Warned, Left, Announced, IsCurrent, Released, Told, vars,
      mainVars, connVars, genVars, sessVars, eventVars, mumbleVars
  <2> QED BY <2>2, <2>3, Zenon DEF Next, Done
<1> QED BY <1>1, <1>2, Typing, Invariance, Ownership, PTL DEF Spec

\* A connection's credentials were issued for its own sessions: process_events
\* and refresh_ice name the conn_id of the session they serve.
Credited ==
  \A c \in Conns :
    /\ hpc[c] = "call" => ConnOf[cur[c]] = c
    /\ \A g \in creds[c] : ConnOf[g] = c

\* What changes neither the request being served nor the credentials, or only
\* ends a request, keeps it.
LEMMA CreditedStays ==
  ASSUME Credited,
         \A d \in Conns : /\ creds'[d] \subseteq creds[d]
                          /\ \/ hpc'[d] # "call"
                             \/ hpc'[d] = hpc[d] /\ cur'[d] = cur[d]
  PROVE  Credited'
BY Zenon DEF Credited

\* The handler serves the session it finds under its own conn_id.
LEMMA HandlerCredited ==
  ASSUME TypeOK, IInv, Credited, NEW c \in Conns, HandlerStep(c)
  PROVE  Credited'
<1> USE DEF mainVars, connVars, genVars, sessVars, eventVars, voiceVars, mumbleVars
<1>0. DOMAIN cur = Conns
  BY Zenon DEF TypeOK
<1>1. CASE Lookup(c)
  <2>1. \A d \in Conns : creds'[d] = creds[d]
    BY <1>1, Zenon DEF Lookup
  <2>2. cur'[c] = sessions[c] /\ ConnOf[sessions[c]] = c
    BY <1>0, <1>1, Zenon DEF Lookup, IInv, Placed
  <2>3. \A d \in Conns : d # c => hpc'[d] = hpc[d] /\ cur'[d] = cur[d]
    BY <1>0, <1>1, Shapes, Zenon DEF Lookup
  <2> QED BY <2>1, <2>2, <2>3, Zenon DEF Credited
<1>2. CASE RefreshIce(c)
  <2>1. hpc'[c] = "loop" /\ creds'[c] = creds[c] \cup {cur[c]} /\ ConnOf[cur[c]] = c
    BY <1>2, Shapes, Zenon DEF RefreshIce, CallReturns, Credited
  <2>2. \A d \in Conns : d # c =>
          hpc'[d] = hpc[d] /\ cur'[d] = cur[d] /\ creds'[d] = creds[d]
    BY <1>0, <1>2, Shapes, Zenon DEF RefreshIce, CallReturns
  <2> QED BY <2>1, <2>2, Zenon DEF Credited
<1>3. CASE ~Lookup(c) /\ ~RefreshIce(c)
  <2>1. \A d \in Conns : d # c => hpc'[d] = hpc[d] /\ cur'[d] = cur[d] /\ creds'[d] = creds[d]
    BY <1>0, <1>3, Shapes, ZenonT(30) DEF HandlerStep, Accept, SendTerminal, SendFail, Leave,
      Stop, BadConnect, StartVoice, OtherCall, CallReturns, CallTimeout, HandlerRemove,
      HandlerShutdown, HandlerSkipShutdown, HandlerShutdownEnd, HandlerRevoke
  <2>2. creds'[c] = creds[c] \/ creds'[c] = {}
    BY <1>3, Shapes, ZenonT(30) DEF HandlerStep, Accept, SendTerminal, SendFail, Leave,
      Stop, BadConnect, StartVoice, OtherCall, CallReturns, CallTimeout, HandlerRemove,
      HandlerShutdown, HandlerSkipShutdown, HandlerShutdownEnd, HandlerRevoke
  <2>3. hpc'[c] # "call" \/ (hpc' = hpc /\ cur' = cur)
    BY <1>3, Shapes, Zenon DEF HandlerStep, Accept, SendTerminal, SendFail, Leave,
      Stop, BadConnect, StartVoice, OtherCall, CallReturns, CallTimeout, HandlerRemove,
      HandlerShutdown, HandlerSkipShutdown, HandlerShutdownEnd, HandlerRevoke
  <2>4. \A d \in Conns : creds'[d] \subseteq creds[d]
    BY <2>1, <2>2, Zenon
  <2> QED BY <2>1, <2>3, <2>4, CreditedStays, Zenon
<1> QED BY <1>1, <1>2, <1>3, Zenon

\* The other tasks call no session for a handler, and issue credentials only to
\* the connection of their own.
LEMMA OthersCredited ==
  ASSUME TypeOK, Credited, NEW g \in Gens,
         ConnectStep(g) \/ EventStep(g) \/ VoiceStep(g) \/ MumbleStep(g)
  PROVE  Credited'
<1> USE DEF mainVars, connVars, genVars, sessVars, eventVars, voiceVars, mumbleVars
<1>0. DOMAIN cur = Conns /\ ConnOf[g] \in Conns
  BY ConnOfAssumption, Zenon DEF TypeOK
<1>1. CASE ConnectStep(g)
  <2>1. creds' = creds
    BY <1>1, ZenonT(30) DEF ConnectStep, Connect, ConnectStopping, DirectConnect, Reserve, Refuse,
      MumbleUp, ConnectFail, Cancel, Insert, Duplicate, DuplicateEnd
  <2>2. \A d \in Conns : d # ConnOf[g] => hpc'[d] = hpc[d] /\ cur'[d] = cur[d]
    BY <1>0, <1>1, Shapes, ZenonT(30) DEF ConnectStep, Connect, ConnectStopping, DirectConnect,
      Reserve, Refuse, MumbleUp, ConnectFail, Cancel, Insert, Duplicate, DuplicateEnd,
      ReturnConnect
  <2>3. \/ hpc'[ConnOf[g]] # "call"
        \/ hpc'[ConnOf[g]] = hpc[ConnOf[g]] /\ cur'[ConnOf[g]] = cur[ConnOf[g]]
    <3>1. CASE ReturnConnect(g, TRUE) \/ ReturnConnect(g, FALSE)
      BY <1>0, <3>1, Shapes, Zenon DEF ReturnConnect
    <3>2. CASE ~(ReturnConnect(g, TRUE) \/ ReturnConnect(g, FALSE))
      BY <1>0, <1>1, <3>2, Shapes, Zenon DEF ConnectStep, Connect, ConnectStopping, DirectConnect,
        Reserve, Refuse, MumbleUp, ConnectFail, Cancel, Insert, Duplicate, DuplicateEnd
    <3> QED BY <3>1, <3>2, Zenon
  <2> QED BY <2>1, <2>2, <2>3, CreditedStays, Zenon
<1>2. CASE EventStep(g)
  <2>1. UNCHANGED <<hpc, cur>>
    BY <1>2, ZenonT(30) DEF EventStep, EventInit, EventBreak, EventConnected,
      EventConnectedLock, EventConnectedSend, EventDisconnected, FinishShutdown, EventOnly,
      FinishSkipShutdown, FinishShutdownEnd, FinishRemove, FinishReplaced, EventRevoke
  <2>2. CASE EventConnectedSend(g)
    <3>1. \A d \in Conns : d # ConnOf[g] => creds'[d] = creds[d]
      BY <2>2, Shapes, Zenon DEF EventConnectedSend
    <3>2. creds'[ConnOf[g]] = creds[ConnOf[g]] \cup {g}
      BY <1>0, <2>2, Shapes, Zenon DEF EventConnectedSend
    <3> QED BY <2>1, <3>1, <3>2 DEF Credited
  <2>3. CASE EventRevoke(g)
    <3>1. \A d \in Conns : creds'[d] = creds[d] \/ creds'[d] = {}
      BY <2>3, Shapes, Zenon DEF EventRevoke
    <3>2. \A d \in Conns : creds'[d] \subseteq creds[d]
      BY <3>1, Zenon
    <3> QED BY <2>1, <3>2, CreditedStays, Zenon
  <2>4. CASE ~EventConnectedSend(g) /\ ~EventRevoke(g)
    <3>1. creds' = creds
      BY <1>2, <2>4, ZenonT(30) DEF EventStep, EventInit, EventBreak, EventConnected,
        EventConnectedLock, EventDisconnected, FinishShutdown,
        FinishSkipShutdown, FinishShutdownEnd, FinishRemove, FinishReplaced
    <3> QED BY <2>1, <3>1, Zenon DEF Credited
  <2> QED BY <2>2, <2>3, <2>4, Zenon
<1>3. CASE VoiceStep(g) \/ MumbleStep(g)
  <2>1. UNCHANGED <<hpc, cur, creds>>
    BY <1>3, ZenonT(30) DEF VoiceStep, VoiceCrypt, VoiceFail, VoiceSuspend, VoiceInstall, VoiceOnly,
      MumbleStep, MumbleSync, MumbleReject, MumbleLost, MumbleQuit, MumbleOnly
  <2> QED BY <2>1, Zenon DEF Credited
<1> QED BY <1>1, <1>2, <1>3, Zenon

\* Credited is an invariant.
LEMMA Crediting == Spec => []Credited
<1>1. Init => Credited
  BY DEF Init, Credited
<1>2. TypeOK /\ IInv /\ Credited /\ [Next]_vars => Credited'
  <2> SUFFICES ASSUME TypeOK, IInv, Credited, [Next]_vars PROVE Credited'
    BY Zenon
  <2>1. CASE UNCHANGED vars
    BY <2>1, Zenon DEF Credited, vars, connVars
  <2>2. CASE MainStep
    <3>1. UNCHANGED <<hpc, cur, creds>>
      BY <2>2, ZenonT(30) DEF MainStep, Signal, CloseScan, CloseShutdown, CloseSkipShutdown,
        CloseShutdownEnd, CloseDone, Exit, CloseRemove, connVars
    <3> QED BY <3>1, Zenon DEF Credited
  <2> QED BY <2>1, <2>2, HandlerCredited, OthersCredited, Zenon DEF Next, Running, Done
<1> QED BY <1>1, <1>2, Typing, Invariance, PTL DEF Spec

\* What LiveCredentialKept says of one step.
KeepsCredentials ==
  \A c \in Conns : \A g \in creds[c] \ creds'[c] :
    IsCurrent(g) /\ ~closed[g] => ws[c] = "closed" \/ out[c] # {} \/ shutdown

\* The two revocations: the handler's, after it emptied its place in the map,
\* and an event task's, whose session is not the one in the map.
LEMMA RevocationsKeep ==
  ASSUME TypeOK, IInv, Owned, Noticed, Credited, Running
  PROVE  KeepsCredentials
<1> USE DEF mainVars, connVars, genVars, sessVars, eventVars, voiceVars, mumbleVars
<1> SUFFICES ASSUME NEW c \in Conns, NEW g \in creds[c], g \notin creds'[c], IsCurrent(g),
                    ~Told(c)
             PROVE  FALSE
  BY Zenon DEF KeepsCredentials, Told
<1>1. ConnOf[g] = c /\ g \in Gens /\ sessions[c] = g
  BY Zenon DEF Credited, TypeOK, IsCurrent
<1>2. hpc[c] \in {"loop", "call", "connecting", "leave"}
  BY <1>1, GensAssumption, Zenon DEF Owned, Occupied
<1>3. hpc[c] \notin Ending
  BY <1>2, Zenon DEF Ending
<1>4. ASSUME NEW d \in Conns, HandlerStep(d) PROVE FALSE
  <2>1. CASE HandlerRevoke(d)
    <3>1. hpc[d] = "revoke" /\ (d # c => creds'[c] = creds[c])
      BY <2>1, Shapes, Zenon DEF HandlerRevoke
    <3> QED BY <1>2, <3>1, Zenon
  <2>2. CASE RefreshIce(d)
    <3>1. creds'[c] = creds[c] \/ creds'[c] = creds[c] \cup {cur[d]}
      BY <2>2, Shapes, Zenon DEF RefreshIce
    <3> QED BY <3>1, Zenon
  <2>3. CASE ~HandlerRevoke(d) /\ ~RefreshIce(d)
    BY <1>4, <2>3, ZenonT(30) DEF HandlerStep, Accept, SendTerminal, SendFail, Leave,
      Stop, BadConnect, Lookup, StartVoice, OtherCall, CallTimeout, HandlerRemove,
      HandlerShutdown, HandlerSkipShutdown, HandlerShutdownEnd
  <2> QED BY <2>1, <2>2, <2>3, Zenon
<1>5. ASSUME NEW h \in Gens, EventStep(h) PROVE FALSE
  <2>1. CASE EventRevoke(h)
    <3>1. epc[h] = "revoke" /\ ConnOf[h] = c
      BY <2>1, Shapes, Zenon DEF EventRevoke
    <3>2. stage[h] = "live"
      BY <3>1, SMT DEF IInv, Life
    <3>3. sessions[c] # h
      BY <3>1, Zenon DEF IInv, RegisteredIsServed
    <3> QED BY <1>3, <3>1, <3>2, <3>3, Zenon DEF Noticed, Left, IsCurrent
  <2>2. CASE EventConnectedSend(h)
    <3>1. creds'[c] = creds[c] \/ creds'[c] = creds[c] \cup {h}
      BY <2>2, Shapes, Zenon DEF EventConnectedSend
    <3> QED BY <3>1, Zenon
  <2>3. CASE ~EventRevoke(h) /\ ~EventConnectedSend(h)
    BY <1>5, <2>3, ZenonT(30) DEF EventStep, EventInit, EventBreak, EventConnected,
      EventConnectedLock, EventDisconnected, FinishShutdown,
      FinishSkipShutdown, FinishShutdownEnd, FinishRemove, FinishReplaced
  <2> QED BY <2>1, <2>2, <2>3, Zenon
<1>6. ASSUME NEW h \in Gens, ConnectStep(h) PROVE FALSE
  BY <1>6, ZenonT(30) DEF ConnectStep, Connect, ConnectStopping, DirectConnect, Reserve, Refuse,
    MumbleUp, ConnectFail, Cancel, Insert, Duplicate, DuplicateEnd
<1>7. ASSUME NEW h \in Gens, VoiceStep(h) \/ MumbleStep(h) PROVE FALSE
  BY <1>7, ZenonT(30) DEF VoiceStep, VoiceCrypt, VoiceFail, VoiceSuspend, VoiceInstall, VoiceOnly,
    MumbleStep, MumbleSync, MumbleReject, MumbleLost, MumbleQuit, MumbleOnly
<1>8. ASSUME MainStep PROVE FALSE
  BY <1>8, ZenonT(30) DEF MainStep, Signal, CloseScan, CloseShutdown, CloseSkipShutdown,
    CloseShutdownEnd, CloseDone, Exit, CloseRemove
<1> QED BY <1>4, <1>5, <1>6, <1>7, <1>8, Zenon DEF Running

\* turn.revoke(conn_id) of an old session's event task takes the credentials of
\* the session that replaced it in the map only when the browser is told anyway:
\* its WebSocket is closed, or a terminal error is queued for it, or the server
\* stops.  For any number of connections, sessions and permits, when all calls
\* of connect_user come from WebSocket handlers.
THEOREM ReconnectKeepsCredentials ==
  ASSUME ~DirectCallers PROVE Spec => LiveCredentialKept
<1>1. TypeOK /\ IInv /\ Owned /\ Noticed /\ Credited /\ [Next]_vars =>
        [\A c \in Conns : \A g \in creds[c] \ creds'[c] :
           IsCurrent(g) /\ ~closed[g] => ws[c] = "closed" \/ out[c] # {} \/ shutdown]_vars
  BY RevocationsKeep, Zenon DEF Next, Done, KeepsCredentials
<1> QED BY <1>1, Typing, Invariance, Ownership, Notice, Crediting, PTL DEF Spec, LiveCredentialKept
=============================================================================
