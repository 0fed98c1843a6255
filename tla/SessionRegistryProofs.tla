----------------------- MODULE SessionRegistryProofs ------------------------
(***************************************************************************)
(* The capacity of SessionManager: the two semaphores account for every    *)
(* permit, and with the WebSocket handlers as the only callers an admitted *)
(* browser is never refused for want of capacity.  And SessionLifecycle    *)
(* implements SessionRegistry: every step of the tasks and handlers is a   *)
(* step of the registry, or leaves it alone.                               *)
(***************************************************************************)
EXTENDS SessionLifecycleProofs, FiniteSetTheorems

-----------------------------------------------------------------------------
(* Accounting.                                                             *)

\* The free permits and the holders add up, for both semaphores.
Accounted ==
  /\ slots + Cardinality(Holding) = MaxConnections
  /\ websocket_slots + Cardinality(Active) = MaxConnections

\* What a step does to the session permits ...
SlotStep ==
  \/ UNCHANGED <<slot, slots>>
  \/ \E g \in Gens : DropPermit(g)
  \/ \E g \in Gens : /\ ~slot[g] /\ slots > 0
                     /\ slot' = [slot EXCEPT ![g] = TRUE]
                     /\ slots' = slots - 1

\* ... and to the WebSocket permits.
GateStep ==
  \/ /\ UNCHANGED websocket_slots
     /\ \A c \in Conns : hpc'[c] \in {"new", "gone"} <=> hpc[c] \in {"new", "gone"}
  \/ \E c \in Conns : /\ hpc[c] = "new" /\ websocket_slots > 0
                      /\ hpc' = [hpc EXCEPT ![c] = "fresh"]
                      /\ websocket_slots' = websocket_slots - 1
  \/ \E c \in Conns : /\ hpc[c] = "revoke"
                      /\ hpc' = [hpc EXCEPT ![c] = "gone"]
                      /\ websocket_slots' = websocket_slots + 1

\* The counters, and the parts of IInv that are used here.
LEMMA Counters == ASSUME TypeOK PROVE slots \in Nat /\ websocket_slots \in Nat
BY Zenon DEF TypeOK

LEMMA Parts == ASSUME IInv PROVE Life /\ Removers
BY Zenon DEF IInv

\* Every step takes or gives back at most one permit of slots, and
\* counts it.
LEMMA SlotEffect == ASSUME TypeOK, IInv, Running PROVE SlotStep
<1> USE DEF mainVars, connVars, genVars, sessVars, eventVars, voiceVars,
            mumbleVars
<1>1. ASSUME NEW c \in Conns, HandlerStep(c) PROVE SlotStep
  <2>1. CASE HandlerShutdownEnd(c)
    <3>1. cur[c] \in Gens
      BY <2>1, Parts, Zenon DEF HandlerShutdownEnd, Removers
    <3> QED BY <2>1, <3>1, Zenon DEF HandlerShutdownEnd, ShutdownEnd, SlotStep
  <2>2. CASE ~HandlerShutdownEnd(c)
    BY ZenonT(30), <1>1, <2>2 DEF HandlerStep, Accept, SendTerminal, SendFail,
      Leave, Stop,
      BadConnect, Lookup, StartVoice, RefreshIce, OtherCall, CallReturns,
      CallTimeout, HandlerRemove, HandlerShutdown, HandlerSkipShutdown,
      HandlerRevoke, SlotStep
  <2> QED BY <2>1, <2>2, Zenon
<1>2. ASSUME NEW g \in Gens, ConnectStep(g) PROVE SlotStep
  <2>1. CASE Reserve(g)
    <3>1. ~slot[g]
      BY <2>1, Parts, Zenon DEF Reserve, Life
    <3> QED BY <2>1, <3>1, Zenon DEF Reserve, SlotStep
  <2>2. CASE ConnectFail(g) \/ Cancel(g) \/ DuplicateEnd(g)
    BY ZenonT(30), <2>2 DEF ConnectFail, Cancel, DuplicateEnd, SlotStep
  <2>3. CASE \/ Connect(g) \/ ConnectStopping(g) \/ DirectConnect(g)
             \/ Refuse(g) \/ MumbleUp(g) \/ Insert(g) \/ Duplicate(g)
    BY ZenonT(30), <2>3 DEF Connect, ConnectStopping, DirectConnect, Refuse,
      MumbleUp,
      Insert, Duplicate, SlotStep
  <2> QED BY <1>2, <2>1, <2>2, <2>3, Zenon DEF ConnectStep
<1>3. ASSUME NEW g \in Gens, EventStep(g) PROVE SlotStep
  <2>1. CASE FinishShutdownEnd(g)
    BY <2>1, Zenon DEF FinishShutdownEnd, ShutdownEnd, SlotStep
  <2>2. CASE ~FinishShutdownEnd(g)
    BY ZenonT(30), <1>3, <2>2 DEF EventStep, EventInit, EventBreak,
      EventConnected,
      EventConnectedLock, EventConnectedSend, EventDisconnected,
      FinishShutdown, FinishSkipShutdown, FinishRemove, FinishReplaced,
      EventRevoke, EventOnly, SlotStep
  <2> QED BY <2>1, <2>2, Zenon
<1>4. ASSUME NEW g \in Gens, VoiceStep(g) \/ MumbleStep(g) PROVE SlotStep
  BY <1>4, Zenon DEF VoiceStep, VoiceCrypt, VoiceFail, VoiceSuspend, VoiceInstall,
    VoiceOnly, MumbleStep, MumbleSync, MumbleReject, MumbleLost, MumbleQuit,
    MumbleOnly, SlotStep
<1>5. CASE MainStep
  <2>1. CASE CloseShutdownEnd
    <3>1. mcur \in Gens
      BY <2>1, Parts, Zenon DEF CloseShutdownEnd, Removers
    <3> QED BY <2>1, <3>1, Zenon DEF CloseShutdownEnd, ShutdownEnd, SlotStep
  <2>2. CASE ~CloseShutdownEnd
    BY <1>5, <2>2, Zenon DEF MainStep, Signal, CloseScan, CloseRemove, CloseShutdown,
      CloseSkipShutdown, CloseDone, Exit, SlotStep
  <2> QED BY <2>1, <2>2, Zenon
<1> QED BY <1>1, <1>2, <1>3, <1>4, <1>5, Zenon DEF Running

\* Between the upgrade and the end of the handler nothing happens to its
\* permit of websocket_slots.
Serving == {"fresh", "loop", "call", "connecting", "leave", "discWait", "discShut",
            "revoke"}

LEMMA GateQuiet ==
  ASSUME NEW c \in Conns, UNCHANGED websocket_slots,
         hpc[c] \in Serving, hpc'[c] \in Serving,
         \A d \in Conns : d # c => hpc'[d] = hpc[d]
  PROVE  GateStep
<1>1. hpc[c] \notin {"new", "gone"} /\ hpc'[c] \notin {"new", "gone"}
  BY Zenon DEF Serving
<1>2. \A d \in Conns : hpc'[d] \in {"new", "gone"} <=> hpc[d] \in {"new", "gone"}
  BY <1>1, Zenon
<1> QED BY <1>2, Zenon DEF GateStep

\* Every step takes or gives back at most one permit of websocket_slots:
\* the upgrade takes it, the end of the handler gives it back.
LEMMA GateEffect == ASSUME TypeOK, Running PROVE GateStep
<1> USE DEF mainVars, connVars, genVars, sessVars, eventVars, voiceVars,
            mumbleVars
<1>1. ASSUME NEW c \in Conns, HandlerStep(c) PROVE GateStep
  <2>1. CASE Accept(c) \/ HandlerRevoke(c)
    BY <2>1, Zenon DEF Accept, HandlerRevoke, GateStep
  <2>2. CASE SendTerminal(c) \/ SendFail(c)
    BY <2>2, Zenon DEF SendTerminal, SendFail, GateStep
  <2>3. CASE \/ Leave(c) \/ Stop(c) \/ BadConnect(c) \/ Lookup(c) \/ CallTimeout(c)
             \/ StartVoice(c) \/ RefreshIce(c) \/ OtherCall(c)
    <3>1. UNCHANGED websocket_slots /\ \A d \in Conns : d # c => hpc'[d] = hpc[d]
      BY <2>3, Domains, ZenonT(30) DEF Leave, Stop, BadConnect, Lookup, CallTimeout,
        StartVoice, RefreshIce, OtherCall, CallReturns
    <3>2. hpc[c] \in {"fresh", "loop", "call"} /\ hpc'[c] \in {"leave", "loop", "call"}
      BY <2>3, Domains, ZenonT(30) DEF Leave, Stop, BadConnect, Lookup, CallTimeout,
        StartVoice, RefreshIce, OtherCall, CallReturns
    <3>3. hpc[c] \in Serving /\ hpc'[c] \in Serving
      BY <3>2, Zenon DEF Serving
    <3> QED BY <3>1, <3>3, GateQuiet, Zenon
  <2>4. CASE \/ HandlerRemove(c) \/ HandlerShutdown(c)
             \/ HandlerSkipShutdown(c) \/ HandlerShutdownEnd(c)
    <3>1. UNCHANGED websocket_slots /\ \A d \in Conns : d # c => hpc'[d] = hpc[d]
      BY <2>4, Domains, ZenonT(30) DEF HandlerRemove, HandlerShutdown,
        HandlerSkipShutdown, HandlerShutdownEnd
    <3>2. /\ hpc[c] \in {"leave", "discWait", "discShut"}
          /\ hpc'[c] \in {"discWait", "discShut", "revoke"}
      BY <2>4, Domains, ZenonT(30) DEF HandlerRemove, HandlerShutdown,
        HandlerSkipShutdown, HandlerShutdownEnd
    <3>3. hpc[c] \in Serving /\ hpc'[c] \in Serving
      BY <3>2, Zenon DEF Serving
    <3> QED BY <3>1, <3>3, GateQuiet, Zenon
  <2> QED BY <1>1, <2>1, <2>2, <2>3, <2>4, Zenon DEF HandlerStep
<1>2. ASSUME NEW g \in Gens, ConnectStep(g) PROVE GateStep
  <2>0. ConnOf[g] \in Conns
    BY ConnOfAssumption, Zenon
  <2>1. CASE Connect(g) \/ ConnectStopping(g) \/ Cancel(g)
    <3>1. /\ UNCHANGED websocket_slots
          /\ \A d \in Conns : d # ConnOf[g] => hpc'[d] = hpc[d]
      BY <2>1, Domains, ZenonT(30) DEF Connect, ConnectStopping, Cancel
    <3>2. /\ hpc[ConnOf[g]] \in {"fresh", "loop", "connecting"}
          /\ hpc'[ConnOf[g]] \in {"connecting", "loop", "leave"}
      BY <2>0, <2>1, Domains, ZenonT(30) DEF Connect, ConnectStopping, Cancel
    <3>3. hpc[ConnOf[g]] \in Serving /\ hpc'[ConnOf[g]] \in Serving
      BY <3>2, Zenon DEF Serving
    <3> QED BY <2>0, <3>1, <3>3, GateQuiet, Zenon
  <2>2. CASE Refuse(g) \/ ConnectFail(g) \/ Insert(g) \/ DuplicateEnd(g)
    <3>1. /\ UNCHANGED websocket_slots
          /\ hpc' = [hpc EXCEPT ![ConnOf[g]] = IF Awaited(g) THEN "loop" ELSE @]
      BY <2>2, Zenon DEF Refuse, ConnectFail, Insert, DuplicateEnd, ReturnConnect
    <3>2. CASE Awaited(g)
      <4>1. /\ hpc[ConnOf[g]] = "connecting" /\ hpc'[ConnOf[g]] = "loop"
            /\ \A d \in Conns : d # ConnOf[g] => hpc'[d] = hpc[d]
        BY <2>0, <3>1, <3>2, Domains, Zenon DEF Awaited
      <4>2. hpc[ConnOf[g]] \in Serving /\ hpc'[ConnOf[g]] \in Serving
        BY <4>1, Zenon DEF Serving
      <4> QED BY <2>0, <3>1, <4>1, <4>2, GateQuiet, Zenon
    <3>3. CASE ~Awaited(g)
      <4>1. \A d \in Conns : hpc'[d] = hpc[d]
        BY <3>1, <3>3, Domains, Zenon
      <4> QED BY <3>1, <4>1, Zenon DEF GateStep
    <3> QED BY <3>2, <3>3, Zenon
  <2>3. CASE DirectConnect(g) \/ Reserve(g) \/ MumbleUp(g) \/ Duplicate(g)
    BY <2>3, Zenon DEF DirectConnect, Reserve, MumbleUp, Duplicate, GateStep
  <2> QED BY <1>2, <2>1, <2>2, <2>3, Zenon DEF ConnectStep
<1>3. ASSUME NEW g \in Gens, EventStep(g) PROVE GateStep
  BY ZenonT(30), <1>3 DEF EventStep, EventInit, EventBreak, EventConnected,
    EventConnectedLock, EventConnectedSend, EventDisconnected, FinishShutdown,
    FinishSkipShutdown, FinishShutdownEnd, FinishRemove, FinishReplaced,
    EventRevoke, EventOnly, GateStep
<1>4. ASSUME NEW g \in Gens, VoiceStep(g) \/ MumbleStep(g) PROVE GateStep
  BY ZenonT(30), <1>4 DEF VoiceStep, VoiceCrypt, VoiceFail, VoiceSuspend,
    VoiceInstall,
    VoiceOnly, MumbleStep, MumbleSync, MumbleReject, MumbleLost, MumbleQuit,
    MumbleOnly, GateStep
<1>5. CASE MainStep
  BY <1>5, Zenon DEF MainStep, Signal, CloseScan, CloseRemove, CloseShutdown,
    CloseSkipShutdown, CloseShutdownEnd, CloseDone, Exit, GateStep
<1> QED BY <1>1, <1>2, <1>3, <1>4, <1>5, Zenon DEF Running

\* Which sessions hold a permit, and which connections are served, after a step
\* that takes or gives back a permit.
LEMMA HoldingEffect ==
  ASSUME NEW g \in Gens, slot \in [Gens -> BOOLEAN]
  PROVE  /\ slot' = slot => Holding' = Holding
         /\ slot' = [slot EXCEPT ![g] = FALSE] => Holding' = Holding \ {g}
         /\ slot' = [slot EXCEPT ![g] = TRUE] => Holding' = Holding \cup {g}
         /\ g \in Holding <=> slot[g]
BY Zenon DEF Holding

LEMMA ActiveEffect ==
  ASSUME NEW c \in Conns, DOMAIN hpc = Conns
  PROVE  /\ (\A d \in Conns : hpc'[d] \in {"new", "gone"} <=> hpc[d] \in {"new", "gone"})
              => Active' = Active
         /\ hpc[c] = "new" /\ hpc' = [hpc EXCEPT ![c] = "fresh"]
              => Active' = Active \cup {c} /\ c \notin Active
         /\ hpc[c] = "revoke" /\ hpc' = [hpc EXCEPT ![c] = "gone"]
              => Active' = Active \ {c} /\ c \in Active
<1>1. (\A d \in Conns : hpc'[d] \in {"new", "gone"} <=> hpc[d] \in {"new", "gone"})
        => Active' = Active
  BY Zenon DEF Active
<1>2. ASSUME hpc[c] = "new", hpc' = [hpc EXCEPT ![c] = "fresh"]
      PROVE  Active' = Active \cup {c} /\ c \notin Active
  <2>1. hpc[c] \in {"new", "gone"} /\ hpc'[c] \notin {"new", "gone"}
        /\ \A d \in Conns : d # c => hpc'[d] = hpc[d]
    BY <1>2, Zenon
  <2> QED BY <2>1, Zenon DEF Active
<1>3. ASSUME hpc[c] = "revoke", hpc' = [hpc EXCEPT ![c] = "gone"]
      PROVE  Active' = Active \ {c} /\ c \in Active
  <2>1. hpc[c] \notin {"new", "gone"} /\ hpc'[c] \in {"new", "gone"}
        /\ \A d \in Conns : d # c => hpc'[d] = hpc[d]
    BY <1>3, Zenon
  <2> QED BY <2>1, Zenon DEF Active
<1> QED BY <1>1, <1>2, <1>3, Zenon

\* Holders are counted by natural numbers.
LEMMA FiniteHolders ==
  /\ IsFiniteSet(Holding) /\ Cardinality(Holding) \in Nat
  /\ IsFiniteSet(Active) /\ Cardinality(Active) \in Nat
BY FS_Subset, FS_CardinalityType, GensAssumption, ConnsAssumption, Zenon
DEF Holding, Active

\* A permit taken or given back leaves its sum with the holders as it is.
LEMMA SumsKept ==
  ASSUME TypeOK, Accounted
  PROVE  /\ (slots - 1) + (Cardinality(Holding) + 1) = MaxConnections
         /\ (slots + 1) + (Cardinality(Holding) - 1) = MaxConnections
         /\ slots > 0 => Cardinality(Holding) < MaxConnections
         /\ Cardinality(Holding) <= Cardinality(Active) - 1 => slots > 0
         /\ (websocket_slots - 1) + (Cardinality(Active) + 1) = MaxConnections
         /\ (websocket_slots + 1) + (Cardinality(Active) - 1) = MaxConnections
<1>1. /\ slots \in Nat /\ websocket_slots \in Nat /\ MaxConnections \in Nat
      /\ Cardinality(Holding) \in Nat /\ Cardinality(Active) \in Nat
  BY Counters, FiniteHolders, MaxConnectionsAssumption, Zenon
<1>2. /\ slots + Cardinality(Holding) = MaxConnections
      /\ websocket_slots + Cardinality(Active) = MaxConnections
  BY Zenon DEF Accounted
<1> QED BY <1>1, <1>2

\* Every permit of both semaphores is either free or held.
THEOREM Accounting == Spec => []Accounted
<1>1. Init => Accounted
  <2> SUFFICES ASSUME Init PROVE Accounted
    BY Zenon
  <2>1. Holding = {} /\ Active = {} /\ slots = MaxConnections
        /\ websocket_slots = MaxConnections
    BY Zenon DEF Init, Holding, Active
  <2>2. Cardinality({}) = 0 /\ MaxConnections + 0 = MaxConnections
    BY FS_EmptySet, MaxConnectionsAssumption
  <2> QED BY <2>1, <2>2, Zenon DEF Accounted
<1>2. TypeOK /\ IInv /\ Accounted /\ [Next]_vars => Accounted'
  <2> SUFFICES ASSUME TypeOK, IInv, Accounted, [Next]_vars PROVE Accounted'
    BY Zenon
  <2>1. slot \in [Gens -> BOOLEAN] /\ DOMAIN hpc = Conns
    BY Domains, Zenon
  <2>2. CASE Running
    <3>1. slots' + Cardinality(Holding') = MaxConnections
      <4>1. CASE UNCHANGED <<slot, slots>>
        BY <4>1, Zenon DEF Accounted, Holding
      <4>2. ASSUME NEW g \in Gens, DropPermit(g)
            PROVE  slots' + Cardinality(Holding') = MaxConnections
        <5>1. Holding' = Holding \ {g}
          BY <2>1, <4>2, HoldingEffect, Zenon DEF DropPermit
        <5>2. CASE slot[g]
          <6>1. Cardinality(Holding') = Cardinality(Holding) - 1
            BY <2>1, <5>1, <5>2, HoldingEffect, FiniteHolders, FS_RemoveElement, Zenon
          <6>2. slots' = slots + 1
            BY <4>2, <5>2, Zenon DEF DropPermit
          <6> QED BY <6>1, <6>2, SumsKept, Zenon
        <5>3. CASE ~slot[g]
          <6>1. Holding' = Holding /\ slots' = slots
            BY <2>1, <4>2, <5>1, <5>3, HoldingEffect, Zenon DEF DropPermit
          <6> QED BY <6>1, Zenon DEF Accounted
        <5> QED BY <5>2, <5>3, Zenon
      <4>3. ASSUME NEW g \in Gens, ~slot[g], slots' = slots - 1,
                   slot' = [slot EXCEPT ![g] = TRUE]
            PROVE  slots' + Cardinality(Holding') = MaxConnections
        <5>1. Holding' = Holding \cup {g} /\ g \notin Holding
          BY <2>1, <4>3, HoldingEffect, Zenon
        <5>2. Cardinality(Holding') = Cardinality(Holding) + 1
          BY <5>1, FiniteHolders, FS_AddElement, Zenon
        <5> QED BY <4>3, <5>2, SumsKept, Zenon
      <4> QED BY <2>2, <4>1, <4>2, <4>3, SlotEffect, Zenon DEF SlotStep
    <3>2. websocket_slots' + Cardinality(Active') = MaxConnections
      <4>1. CASE /\ UNCHANGED websocket_slots
                 /\ \A c \in Conns : hpc'[c] \in {"new", "gone"} <=>
                                     hpc[c] \in {"new", "gone"}
        <5>1. Active' = Active
          BY <4>1, Zenon DEF Active
        <5> QED BY <4>1, <5>1, Zenon DEF Accounted
      <4>2. ASSUME NEW c \in Conns, hpc[c] = "new",
                   hpc' = [hpc EXCEPT ![c] = "fresh"],
                   websocket_slots' = websocket_slots - 1
            PROVE  websocket_slots' + Cardinality(Active') = MaxConnections
        <5>1. Active' = Active \cup {c} /\ c \notin Active
          BY <2>1, <4>2, ActiveEffect, Zenon
        <5>2. Cardinality(Active') = Cardinality(Active) + 1
          BY <5>1, FiniteHolders, FS_AddElement, Zenon
        <5> QED BY <4>2, <5>2, SumsKept, Zenon
      <4>3. ASSUME NEW c \in Conns, hpc[c] = "revoke",
                   hpc' = [hpc EXCEPT ![c] = "gone"],
                   websocket_slots' = websocket_slots + 1
            PROVE  websocket_slots' + Cardinality(Active') = MaxConnections
        <5>1. Active' = Active \ {c} /\ c \in Active
          BY <2>1, <4>3, ActiveEffect, Zenon
        <5>2. Cardinality(Active') = Cardinality(Active) - 1
          BY <5>1, FiniteHolders, FS_RemoveElement, Zenon
        <5> QED BY <4>3, <5>2, SumsKept, Zenon
      <4> QED BY <2>2, <4>1, <4>2, <4>3, GateEffect, Zenon DEF GateStep
    <3> QED BY <3>1, <3>2, Zenon DEF Accounted
  <2>3. CASE UNCHANGED vars
    BY <2>3, Zenon DEF Accounted, Holding, Active, vars, connVars, genVars
  <2> QED BY <2>2, <2>3, Zenon DEF Next, Done
<1> QED BY <1>1, <1>2, Typing, Invariance, PTL DEF Spec

-----------------------------------------------------------------------------
(* Capacity.                                                               *)

\* A session that holds a permit while the server runs belongs to a connection
\* with a handler, and it is the only one of that connection.
LEMMA HolderServed ==
  ASSUME Owned, ~shutdown, NEW h \in Gens, slot[h]
  PROVE  ConnOf[h] \in Active
<1>1. HeldBy(h) /\ ConnOf[h] \in Conns
  BY ConnOfAssumption, Zenon DEF Owned
<1>2. CASE stage[h] \in Connecting
  BY <1>1, <1>2, Zenon DEF Owned, Awaited, Active
<1>3. CASE IsCurrent(h)
  <2>1. Occupied(ConnOf[h])
    BY <1>3, GensAssumption, Zenon DEF IsCurrent, Occupied
  <2>2. hpc[ConnOf[h]] \in {"loop", "call", "connecting", "leave"}
    BY <1>1, <2>1, Zenon DEF Owned
  <2> QED BY <1>1, <2>2, Zenon DEF Active
<1>4. CASE hpc[ConnOf[h]] \in {"discWait", "discShut"}
  BY <1>1, <1>4, Zenon DEF Active
<1> QED BY <1>1, <1>2, <1>3, <1>4, Zenon DEF HeldBy

\* Among the sessions of a connection the handler's cur and the map name at
\* most one that holds a permit.
LEMMA HolderAlone ==
  ASSUME Owned, ~shutdown, NEW h \in Gens, slot[h], NEW k \in Gens,
         slot[k] \/ (stage[k] \in Connecting /\ ~Occupied(ConnOf[k])),
         ConnOf[h] = ConnOf[k]
  PROVE  h = k
<1>1. HeldBy(h) /\ HeldBy(k) /\ ConnOf[h] \in Conns
  BY ConnOfAssumption, Zenon DEF Owned, HeldBy
<1>2. ASSUME NEW x \in Gens, IsCurrent(x)
      PROVE  /\ Occupied(ConnOf[x])
             /\ hpc[ConnOf[x]] \notin {"discWait", "discShut"}
  <2>1. Occupied(ConnOf[x]) /\ ConnOf[x] \in Conns
    BY <1>2, GensAssumption, ConnOfAssumption, Zenon DEF IsCurrent, Occupied
  <2>2. hpc[ConnOf[x]] \in {"loop", "call", "connecting", "leave"}
    BY <2>1, Zenon DEF Owned
  <2> QED BY <2>1, <2>2, Zenon
<1>3. \A x \in Gens : stage[x] \in Connecting => cur[ConnOf[x]] = x
  BY Zenon DEF Owned, Awaited
<1>4. CASE IsCurrent(h)
  <2>1. IsCurrent(k)
    BY <1>1, <1>2, <1>4, Zenon DEF HeldBy
  <2> QED BY <1>4, <2>1, Zenon DEF IsCurrent
<1>5. CASE ~IsCurrent(h)
  <2>1. cur[ConnOf[h]] = h
    BY <1>1, <1>3, <1>5, Zenon DEF HeldBy
  <2>2. ~Occupied(ConnOf[h]) \/ hpc[ConnOf[h]] \in {"discWait", "discShut"}
    BY <1>1, <1>5, Zenon DEF HeldBy
  <2>3. ~IsCurrent(k)
    BY <1>2, <2>2, Zenon
  <2>4. cur[ConnOf[k]] = k
    BY <1>1, <1>3, <2>3, Zenon DEF HeldBy
  <2> QED BY <2>1, <2>4, Zenon
<1> QED BY <1>4, <1>5, Zenon

\* ConnOf is an injection from the sessions that hold a permit into the other
\* active connections, so that connection g still finds a free permit.
LEMMA RoomForAdmitted ==
  ASSUME TypeOK, IInv, Owned, Accounted
  PROVE  AdmittedNeverFull
<1> SUFFICES ASSUME NEW g \in Gens, stage[g] = "checked",
                    ~Occupied(ConnOf[g]), ~shutdown
             PROVE  slots > 0
  BY Zenon DEF AdmittedNeverFull, Occupied
<1> DEFINE c == ConnOf[g]
           f == [h \in Holding |-> ConnOf[h]]
<1>1. c \in Conns /\ stage[g] \in Connecting /\ ~slot[g]
  BY Parts, ConnOfAssumption, Zenon DEF Connecting, Life
<1>2. c \in Active
  BY <1>1, Zenon DEF Owned, Awaited, Active
<1>3. \A h \in Holding : h \in Gens /\ slot[h]
  BY Zenon DEF Holding
<1>4. ASSUME NEW h \in Holding
      PROVE  ConnOf[h] \in Active \ {c}
  <2>1. ConnOf[h] \in Active
    BY <1>3, HolderServed, Zenon
  <2>2. ConnOf[h] # c
    BY <1>1, <1>3, HolderAlone, Zenon
  <2> QED BY <2>1, <2>2, Zenon
<1>5. ASSUME NEW h \in Holding, NEW k \in Holding, ConnOf[h] = ConnOf[k]
      PROVE  h = k
  BY <1>3, <1>5, HolderAlone, Zenon
<1>6. f \in Injection(Holding, Active \ {c})
  BY <1>4, <1>5, Zenon DEF Injection, IsInjective
<1>7. /\ IsFiniteSet(Active \ {c})
      /\ Cardinality(Active \ {c}) = Cardinality(Active) - 1
  BY <1>2, FiniteHolders, FS_RemoveElement, Zenon
<1>8. Cardinality(Holding) <= Cardinality(Active \ {c})
  BY <1>6, <1>7, FS_Injection, Zenon
<1>9. Cardinality(Holding) <= Cardinality(Active) - 1
  BY <1>7, <1>8, Zenon
<1> QED BY <1>9, SumsKept, Zenon

\* With the WebSocket handlers as the only callers of connect_user, a browser
\* whose WebSocket was admitted is never answered "Server full".
THEOREM AdmittedIsServed == ASSUME ~DirectCallers PROVE Spec => []AdmittedNeverFull
BY Typing, Invariance, Accounting, Ownership, RoomForAdmitted, PTL

-----------------------------------------------------------------------------
(* Refinement.                                                             *)

\* A step of the registry, or a stutter.
RegistryStep == Registry!Next \/ UNCHANGED Registry!vars

\* How a step changes the set of sessions that will never hold a permit again.
LEMMA SpentEffect ==
  ASSUME NEW g \in Gens,
         \A h \in Gens : h # g => stage'[h] = stage[h] /\ slot'[h] = slot[h]
  PROVE  /\ stage'[g] \notin {"unused", "checked"} /\ ~slot'[g] =>
              Spent' = Spent \cup {g}
         /\ (stage'[g] \notin {"unused", "checked"} /\ ~slot'[g] <=>
             stage[g] \notin {"unused", "checked"} /\ ~slot[g]) =>
              Spent' = Spent
BY Zenon DEF Spent

\* Steps that change neither the map nor the holders, nor end a session.
LEMMA QuietStep ==
  ASSUME UNCHANGED sessions, Holding' = Holding, Spent' = Spent
  PROVE  RegistryStep
BY Zenon DEF RegistryStep, Registry!vars

\* Steps that do not touch the map, the permits or connect_user's progress.
LEMMA StutterStep ==
  ASSUME UNCHANGED <<sessions, stage, slot>>
  PROVE  RegistryStep
<1>1. Holding' = Holding /\ Spent' = Spent
  BY Zenon DEF Holding, Spent
<1> QED BY <1>1, QuietStep, Zenon

\* disconnect_user, close() and finish_session take an entry out of the map.
LEMMA UnregisterStep ==
  ASSUME NEW c \in Conns, TypeOK, UNCHANGED <<stage, slot>>,
         sessions' = [sessions EXCEPT ![c] = NoGen]
  PROVE  RegistryStep
<1>1. Holding' = Holding /\ Spent' = Spent
  BY Zenon DEF Holding, Spent
<1>2. CASE sessions[c] = NoGen
  <2>1. sessions \in [Conns -> Gens \cup {NoGen}]
    BY Zenon DEF TypeOK
  <2>2. sessions' = sessions
    BY <1>2, <2>1, Zenon
  <2> QED BY <1>1, <2>2, QuietStep, Zenon
<1>3. CASE sessions[c] # NoGen
  <2>1. Registry!Unregister(c)
    BY <1>1, <1>3, Zenon DEF Registry!Unregister
  <2> QED BY <2>1, Zenon DEF RegistryStep, Registry!Next
<1> QED BY <1>2, <1>3, Zenon

\* shutdown_user_session ends by dropping the permit of a live session.
LEMMA ReleaseStep ==
  ASSUME NEW g \in Gens, TypeOK, IInv, DropPermit(g), UNCHANGED sessions,
         \/ stage' = stage
         \/ stage' = [stage EXCEPT ![g] = "failed"]
  PROVE  RegistryStep
<1>1. slot' = [slot EXCEPT ![g] = FALSE] /\ slot \in [Gens -> BOOLEAN]
      /\ DOMAIN stage = Gens
  BY Domains, Zenon DEF DropPermit
<1>2. /\ Holding' = Holding \ {g} /\ ~slot'[g] /\ (g \in Holding <=> slot[g])
      /\ \A h \in Gens : h # g => stage'[h] = stage[h] /\ slot'[h] = slot[h]
  BY <1>1, HoldingEffect, Zenon
<1>3. CASE slot[g]
  <2>1. stage[g] \notin {"unused", "checked"}
    BY <1>3, Parts, Zenon DEF Life
  <2>2. stage'[g] \notin {"unused", "checked"}
    BY <1>1, <2>1, Zenon
  <2>3. Registry!Release(g)
    BY <1>2, <1>3, <2>2, SpentEffect, Zenon DEF Registry!Release
  <2> QED BY <2>3, Zenon DEF RegistryStep, Registry!Next
<1>4. CASE ~slot[g]
  <2>1. Holding' = Holding /\ g \notin Holding
    BY <1>2, <1>4, Zenon
  <2>2. CASE stage' = stage
    <3>1. Spent' = Spent
      BY <1>2, <1>4, <2>2, SpentEffect, Zenon
    <3> QED BY <2>1, <3>1, QuietStep, Zenon
  <2>3. CASE stage' = [stage EXCEPT ![g] = "failed"]
    <3>1. stage'[g] \notin {"unused", "checked"}
      BY <1>1, <2>3, Zenon
    <3>2. Registry!Refuse(g)
      BY <1>2, <2>1, <3>1, SpentEffect, Zenon DEF Registry!Refuse
    <3> QED BY <3>2, Zenon DEF RegistryStep, Registry!Next
  <2> QED BY <2>2, <2>3, Zenon
<1> QED BY <1>3, <1>4, Zenon

\* connect_user gives up without having taken a permit.
LEMMA RefuseStep ==
  ASSUME NEW g \in Gens, TypeOK, IInv, stage[g] \in {"unused", "checked"},
         stage' = [stage EXCEPT ![g] = "failed"], UNCHANGED <<sessions, slot>>
  PROVE  RegistryStep
<1>1. ~slot[g]
  BY Parts, Zenon DEF Life
<1>2. Holding' = Holding /\ g \notin Holding
  BY <1>1, Zenon DEF Holding
<1>3. /\ stage'[g] \notin {"unused", "checked"} /\ ~slot'[g]
      /\ \A h \in Gens : h # g => stage'[h] = stage[h] /\ slot'[h] = slot[h]
  BY <1>1, Domains, Zenon
<1>4. Spent' = Spent \cup {g}
  BY <1>3, SpentEffect, Zenon
<1>5. Registry!Refuse(g)
  BY <1>2, <1>4, Zenon DEF Registry!Refuse
<1> QED BY <1>5, Zenon DEF RegistryStep, Registry!Next

\* connect_user goes on with or without its permit, and is not over.
LEMMA ProgressStep ==
  ASSUME NEW g \in Gens, TypeOK, UNCHANGED <<sessions, slot>>, NEW p,
         stage' = [stage EXCEPT ![g] = p],
         stage[g] \in {"unused", "checked"} <=> p \in {"unused", "checked"}
  PROVE  RegistryStep
<1>1. /\ stage'[g] = p
      /\ \A h \in Gens : h # g => stage'[h] = stage[h] /\ slot'[h] = slot[h]
  BY Domains, Zenon
<1>2. Holding' = Holding /\ Spent' = Spent
  BY <1>1, SpentEffect, Zenon DEF Holding
<1> QED BY <1>2, QuietStep, Zenon

\* The handler unregisters and releases a session, and nothing else.
LEMMA HandlerRegistry ==
  ASSUME TypeOK, IInv, NEW c \in Conns, HandlerStep(c)
  PROVE  RegistryStep
<1> USE DEF mainVars, connVars, genVars, sessVars, eventVars, voiceVars,
            mumbleVars
<1>1. CASE HandlerRemove(c)
  BY ZenonT(30), <1>1, UnregisterStep DEF HandlerRemove
<1>2. CASE HandlerShutdownEnd(c)
  <2>1. cur[c] \in Gens
    BY <1>2, Parts, Zenon DEF HandlerShutdownEnd, Removers
  <2> QED BY <1>2, <2>1, ReleaseStep, Zenon DEF HandlerShutdownEnd, ShutdownEnd
<1>3. CASE ~(HandlerRemove(c) \/ HandlerShutdownEnd(c))
  BY ZenonT(30), <1>3, StutterStep DEF HandlerStep, Accept, SendTerminal,
    SendFail, Leave,
    Stop, BadConnect, Lookup, StartVoice, RefreshIce, OtherCall, CallReturns,
    CallTimeout, HandlerShutdown, HandlerSkipShutdown, HandlerRevoke
<1> QED BY <1>1, <1>2, <1>3, Zenon

\* connect_user reserves, refuses, registers or releases.
LEMMA ConnectRegistry ==
  ASSUME TypeOK, IInv, Accounted, NEW g \in Gens, ConnectStep(g)
  PROVE  RegistryStep
<1> USE DEF mainVars, connVars, genVars, sessVars, eventVars, voiceVars,
            mumbleVars
<1>1. CASE Reserve(g)
  <2>1. /\ stage[g] = "checked" /\ slots > 0 /\ UNCHANGED sessions
        /\ stage' = [stage EXCEPT ![g] = "connecting"]
        /\ slot' = [slot EXCEPT ![g] = TRUE]
    BY <1>1, Zenon DEF Reserve
  <2>2. ~slot[g]
    BY <2>1, Parts, Zenon DEF Life
  <2>3. g \notin Holding \cup Spent
    BY <2>1, <2>2, Zenon DEF Holding, Spent
  <2>4. Holding' = Holding \cup {g}
    BY <2>1, Domains, HoldingEffect, Zenon
  <2>5. /\ stage[g] \in {"unused", "checked"} /\ slot'[g]
        /\ \A h \in Gens : h # g => stage'[h] = stage[h] /\ slot'[h] = slot[h]
    BY <2>1, Domains, Zenon
  <2>6. Spent' = Spent
    BY <2>5, SpentEffect, Zenon
  <2>7. Cardinality(Holding) < MaxConnections
    BY <2>1, SumsKept, Zenon
  <2>8. Registry!Cardinality(Holding) = Cardinality(Holding)
    BY Zenon DEF Cardinality, Registry!Cardinality
  <2>9. Registry!Reserve(g)
    BY <2>1, <2>3, <2>4, <2>6, <2>7, <2>8, Zenon DEF Registry!Reserve
  <2> QED BY <2>9, Zenon DEF RegistryStep, Registry!Next
<1>2. CASE Insert(g)
  <2>1. /\ stage[g] = "built" /\ ~Occupied(ConnOf[g]) /\ UNCHANGED slot
        /\ stage' = [stage EXCEPT ![g] = "live"]
        /\ sessions' = [sessions EXCEPT ![ConnOf[g]] = g]
    BY <1>2, Zenon DEF Insert
  <2>2. slot[g]
    BY <2>1, Parts, Zenon DEF Life
  <2>3. g \in Holding /\ Holding' = Holding
    BY <2>1, <2>2, Zenon DEF Holding
  <2>4. \A h \in Gens : h # g => stage'[h] = stage[h] /\ slot'[h] = slot[h]
    BY <2>1, Domains, Zenon
  <2>5. Spent' = Spent
    BY <2>1, <2>2, <2>4, SpentEffect, Zenon
  <2>6. Registry!Register(ConnOf[g], g)
    BY <2>1, <2>3, <2>5, Zenon DEF Occupied, Registry!Register
  <2> QED BY <2>6, ConnOfAssumption, Zenon DEF RegistryStep, Registry!Next
<1>3. CASE ConnectFail(g) \/ Cancel(g) \/ DuplicateEnd(g)
  BY ZenonT(30), <1>3, ReleaseStep DEF ConnectFail, Cancel, DuplicateEnd
<1>4. CASE ConnectStopping(g) \/ Refuse(g)
  BY ZenonT(30), <1>4, RefuseStep DEF ConnectStopping, Refuse
<1>5. CASE Connect(g) \/ DirectConnect(g)
  <2>1. CASE stage' = [stage EXCEPT ![g] = "failed"]
    BY ZenonT(30), <1>5, <2>1, RefuseStep DEF Connect, DirectConnect
  <2>2. CASE stage' = [stage EXCEPT ![g] = "checked"]
    <3>1. UNCHANGED <<sessions, slot>> /\ stage[g] = "unused"
      BY <1>5, Zenon DEF Connect, DirectConnect
    <3> QED BY <2>2, <3>1, ProgressStep, Zenon
  <2> QED BY <1>5, <2>1, <2>2, Zenon DEF Connect, DirectConnect
<1>6. CASE MumbleUp(g)
  <2>1. /\ UNCHANGED <<sessions, slot>> /\ stage[g] = "connecting"
        /\ stage' = [stage EXCEPT ![g] = "built"]
    BY <1>6, Zenon DEF MumbleUp
  <2> QED BY <2>1, ProgressStep, Zenon
<1>7. CASE Duplicate(g)
  <2>1. /\ UNCHANGED <<sessions, slot>> /\ stage[g] = "built"
        /\ stage' = [stage EXCEPT ![g] = "dup"]
    BY <1>7, Zenon DEF Duplicate
  <2> QED BY <2>1, ProgressStep, Zenon
<1> QED BY <1>1, <1>2, <1>3, <1>4, <1>5, <1>6, <1>7, Zenon DEF ConnectStep

\* finish_session releases and unregisters.
LEMMA EventRegistry ==
  ASSUME TypeOK, IInv, NEW g \in Gens, EventStep(g)
  PROVE  RegistryStep
<1> USE DEF mainVars, connVars, genVars, sessVars, eventVars, voiceVars,
            mumbleVars
<1>1. CASE FinishRemove(g)
  BY ZenonT(30), <1>1, UnregisterStep, ConnOfAssumption DEF FinishRemove
<1>2. CASE FinishShutdownEnd(g)
  BY <1>2, ReleaseStep, Zenon DEF FinishShutdownEnd, ShutdownEnd
<1>3. CASE ~(FinishRemove(g) \/ FinishShutdownEnd(g))
  BY ZenonT(30), <1>3, StutterStep DEF EventStep, EventInit, EventBreak,
    EventConnected,
    EventConnectedLock, EventConnectedSend, EventDisconnected, FinishShutdown,
    FinishSkipShutdown, FinishReplaced, EventRevoke, EventOnly
<1> QED BY <1>1, <1>2, <1>3, Zenon

\* close() unregisters and releases.
LEMMA MainRegistry ==
  ASSUME TypeOK, IInv, MainStep
  PROVE  RegistryStep
<1> USE DEF mainVars, connVars, genVars, sessVars, eventVars, voiceVars,
            mumbleVars
<1>1. ASSUME NEW c \in Conns, CloseRemove(c) PROVE RegistryStep
  BY ZenonT(30), <1>1, UnregisterStep DEF CloseRemove
<1>2. CASE CloseShutdownEnd
  <2>1. mcur \in Gens
    BY <1>2, Parts, Zenon DEF CloseShutdownEnd, Removers
  <2> QED BY <1>2, <2>1, ReleaseStep, Zenon DEF CloseShutdownEnd, ShutdownEnd
<1>3. CASE \/ Signal \/ CloseScan \/ CloseShutdown \/ CloseSkipShutdown
           \/ CloseDone \/ Exit
  BY <1>3, StutterStep, Zenon DEF Signal, CloseScan, CloseShutdown,
    CloseSkipShutdown, CloseDone, Exit
<1> QED BY <1>1, <1>2, <1>3, Zenon DEF MainStep

\* The tasks, locks and awaits of SessionManager together behave as the
\* registry: bounded capacity, one session per connection, no permit reused.
THEOREM Refinement == Spec => ImplementsRegistry
<1>1. Init => Registry!Init
  <2> SUFFICES ASSUME Init PROVE Registry!Init
    BY Zenon
  <2>1. Holding = {} /\ Spent = {}
    BY Zenon DEF Init, Holding, Spent
  <2>2. sessions = [c \in Conns |-> NoGen]
    BY Zenon DEF Init
  <2> QED BY <2>1, <2>2, Zenon DEF Registry!Init
<1>2. TypeOK /\ IInv /\ Accounted /\ [Next]_vars => [Registry!Next]_(Registry!vars)
  <2> SUFFICES ASSUME TypeOK, IInv, Accounted, [Next]_vars PROVE RegistryStep
    BY Zenon DEF RegistryStep
  <2>1. ASSUME NEW g \in Gens, VoiceStep(g) \/ MumbleStep(g) PROVE RegistryStep
    BY <2>1, StutterStep, Zenon DEF VoiceStep, VoiceCrypt, VoiceFail, VoiceSuspend,
      VoiceInstall, VoiceOnly, MumbleStep, MumbleSync, MumbleReject,
      MumbleLost, MumbleQuit, MumbleOnly, genVars
  <2>2. CASE Running
    BY <2>1, <2>2, HandlerRegistry, ConnectRegistry, EventRegistry,
       MainRegistry, Zenon DEF Running
  <2>3. CASE UNCHANGED vars
    BY <2>3, StutterStep, Zenon DEF vars, genVars
  <2> QED BY <2>2, <2>3, Zenon DEF Next, Done
<1> QED
  BY <1>1, <1>2, Typing, Invariance, Accounting, PTL
  DEF Spec, ImplementsRegistry, Registry!Spec

\* The map changes only in Insert, which finds the place free, and in the three
\* removals: finish_session of an old generation leaves a reconnect alone.
THEOREM EntryOwned == Spec => EntryRemovedByOwner
<1>1. TypeOK /\ IInv /\ [Next]_vars => [OwnerRemoves]_vars
  <2> SUFFICES ASSUME TypeOK, IInv, [Next]_vars,
                      NEW c \in Conns, NEW g \in Gens,
                      sessions[c] = g, sessions'[c] # g
               PROVE  /\ sessions'[c] = NoGen
                      /\ \/ hpc[c] = "leave" /\ hpc'[c] # "leave"
                         \/ c \in todo /\ c \notin todo'
                         \/ epc[g] = "remove" /\ epc'[g] = "revoke"
    BY Zenon DEF OwnerRemoves
  <2> USE GensAssumption, ConnOfAssumption
      DEF mainVars, connVars, genVars, sessVars, eventVars, voiceVars,
          mumbleVars
  <2>1. ASSUME NEW d \in Conns, HandlerRemove(d)
        PROVE  sessions'[c] = NoGen /\ hpc[c] = "leave" /\ hpc'[c] # "leave"
    <3>1. sessions'[c] # sessions[c]
      BY Zenon
    <3>2. d = c
      BY <2>1, <3>1, Domains, Zenon DEF HandlerRemove
    <3>3. /\ sessions' = [sessions EXCEPT ![c] = NoGen] /\ hpc[c] = "leave"
          /\ hpc' = [hpc EXCEPT ![c] = IF Occupied(c) THEN "discWait" ELSE "revoke"]
      BY <2>1, <3>2, Zenon DEF HandlerRemove
    <3>4. sessions'[c] = NoGen /\ hpc'[c] \in {"discWait", "revoke"}
      BY <3>3, Domains, Zenon
    <3> QED BY <3>3, <3>4, Zenon
  <2>2. ASSUME NEW h \in Gens, FinishRemove(h)
        PROVE  sessions'[c] = NoGen /\ epc[g] = "remove" /\ epc'[g] = "revoke"
    <3>1. sessions'[c] # sessions[c]
      BY Zenon
    <3>2. ConnOf[h] = c
      BY <2>2, <3>1, Domains, Zenon DEF FinishRemove
    <3>3. h = g
      BY <2>2, <3>2, Zenon DEF FinishRemove, IsCurrent
    <3> QED BY <2>2, <3>2, <3>3, Domains, Zenon DEF FinishRemove
  <2>3. ASSUME NEW d \in Conns, CloseRemove(d)
        PROVE  sessions'[c] = NoGen /\ c \in todo /\ c \notin todo'
    <3>1. sessions'[c] # sessions[c]
      BY Zenon
    <3>2. d = c
      BY <2>3, <3>1, Domains, Zenon DEF CloseRemove
    <3> QED BY <2>3, <3>2, Domains, Zenon DEF CloseRemove
  <2>4. ASSUME NEW h \in Gens, Insert(h)
        PROVE  FALSE
    <3>1. sessions'[c] # sessions[c] /\ sessions[c] # NoGen
      BY Zenon
    <3>2. ConnOf[h] = c
      BY <2>4, <3>1, Domains, Zenon DEF Insert
    <3> QED BY <2>4, <3>1, <3>2, Zenon DEF Insert, Occupied
  <2>5. ASSUME NEW d \in Conns, HandlerStep(d), ~HandlerRemove(d)
        PROVE  FALSE
    BY ZenonT(30), <2>5 DEF HandlerStep, Accept, SendTerminal, SendFail,
      Leave, Stop,
      BadConnect, Lookup, StartVoice, RefreshIce, OtherCall, CallReturns,
      CallTimeout, HandlerShutdown, HandlerSkipShutdown, HandlerShutdownEnd,
      HandlerRevoke
  <2>6. ASSUME NEW h \in Gens, ConnectStep(h), ~Insert(h)
        PROVE  FALSE
    BY ZenonT(30), <2>6 DEF ConnectStep, Connect, ConnectStopping,
      DirectConnect, Reserve,
      Refuse, MumbleUp, ConnectFail, Cancel, Duplicate, DuplicateEnd
  <2>7. ASSUME NEW h \in Gens, EventStep(h), ~FinishRemove(h)
        PROVE  FALSE
    BY <2>7, Zenon DEF EventStep, EventInit, EventBreak, EventConnected,
      EventConnectedLock, EventConnectedSend, EventDisconnected,
      FinishShutdown, FinishSkipShutdown, FinishShutdownEnd, FinishReplaced,
      EventRevoke
  <2>8. ASSUME NEW h \in Gens, VoiceStep(h) \/ MumbleStep(h)
        PROVE  FALSE
    BY ZenonT(30), <2>8 DEF VoiceStep, VoiceCrypt, VoiceFail, VoiceSuspend,
      VoiceInstall,
      VoiceOnly, MumbleStep, MumbleSync, MumbleReject, MumbleLost, MumbleQuit,
      MumbleOnly
  <2>9. CASE \/ Signal \/ CloseScan \/ CloseShutdown \/ CloseSkipShutdown
             \/ CloseShutdownEnd \/ CloseDone \/ Exit \/ UNCHANGED vars
    BY ZenonT(30), <2>9 DEF Signal, CloseScan, CloseShutdown,
      CloseSkipShutdown,
      CloseShutdownEnd, CloseDone, Exit, vars
  <2> QED
    BY ZenonT(30), <2>1, <2>2, <2>3, <2>4, <2>5, <2>6, <2>7, <2>8, <2>9
    DEF Next, Running, MainStep, Done
<1> QED
  BY <1>1, Typing, Invariance, PTL DEF Spec, EntryRemovedByOwner
=============================================================================
