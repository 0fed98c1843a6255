------------------------- MODULE MumbleRosterProofs -------------------------
(***************************************************************************)
(* The roster reaches the browser, for every number of users, fields and   *)
(* packets.  The properties of MumbleRoster speak of moments at which      *)
(* nothing is under way; the invariant speaks of all others.  A queue of   *)
(* events or messages leads from one roster to another when each of its    *)
(* entries, applied to the roster before it, gives the one after it.  Then *)
(* the WebSocket queue leads from what the browser shows to what the event *)
(* task knows, and the event channel from there to the Mumble server's     *)
(* users.                                                                  *)
(***************************************************************************)
EXTENDS MumbleRoster, SequenceTheorems, TLAPS

Rosters == Maps(Records)

\* The roster after an event of the control task or a message to the browser.
After(m, r) ==
  CASE m.type \in {"Connected", "connected"} -> m.users
    [] m.type \in {"UserJoined", "user_joined"} -> With(r, m.id, m.info)
    [] m.type \in {"UserLeft", "user_left"} -> Without(r, m.id)
    [] m.type \in {"UserStateChanged", "user_state"} ->
         [r EXCEPT ![m.id] = Merge(@, m.delta)]
    [] OTHER -> r

\* An entry agrees with the roster it meets: a change is of a user who is
\* there, and a chat message is from the name it was sent under.
Fits(m, r) ==
  /\ m.type \in {"UserStateChanged", "user_state"} => m.id \in DOMAIN r
  /\ m.type = "ChatMessage" =>
       m.said = IF m.id \in DOMAIN r THEN {r[m.id]["name"]} ELSE {}
  /\ m.type = "chat_received" => m.sender_name = m.said

\* The queue leads from one roster to the other.
Leads(queue, from, to) ==
  \E v \in [0 .. Len(queue) -> Rosters] :
    /\ v[0] = from /\ v[Len(queue)] = to
    /\ \A k \in 1 .. Len(queue) :
         Fits(queue[k], v[k - 1]) /\ v[k] = After(queue[k], v[k - 1])

\* The event task knows the names and the speakers of the roster.
Known(r) ==
  /\ DOMAIN user_map = DOMAIN r
  /\ \A i \in DOMAIN r : user_map[i] = r[i]["name"]
  /\ known_speakers = DOMAIN r \ {Me}

Linked ==
  \E from, known \in Rosters :
    /\ Leads(ws, from, known) /\ Leads(events, known, world)
    /\ session_id # {} => Known(known)
    /\ logged_in => from = shown

\* The login: the Connected event is the first, and there is one.
Login ==
  /\ users = world
  /\ ~connected => events = <<>> /\ session_id = {}
  /\ session_id = {} => user_map = NoUsers /\ ws = <<>> /\ ~logged_in
  /\ connected /\ session_id = {} => events # <<>> /\ events[1].type = "Connected"
  /\ \A k \in 1 .. Len(events) :
       events[k].type = "Connected" => session_id = {} /\ k = 1

IInv == TypeOK /\ Login /\ Linked

-----------------------------------------------------------------------------
(* Maps and records.                                                       *)

\* What a member of Maps is.
LEMMA MapFacts ==
  ASSUME NEW S, NEW r \in Maps(S)
  PROVE  DOMAIN r \subseteq Ids /\ \A i \in DOMAIN r : r[i] \in S
BY DEF Maps

\* A function on some of the ids with values in S is one.
LEMMA IsMap ==
  ASSUME NEW S, NEW D \in SUBSET Ids, NEW r \in [D -> S]
  PROVE  r \in Maps(S)
BY DEF Maps

\* HashMap::insert.
LEMMA WithMap ==
  ASSUME NEW S, NEW r \in Maps(S), NEW i \in Ids, NEW x \in S
  PROVE  With(r, i, x) \in Maps(S)
<1>1. DOMAIN r \cup {i} \in SUBSET Ids
  BY MapFacts
<1>2. With(r, i, x) \in [DOMAIN r \cup {i} -> S]
  BY MapFacts DEF With
<1> QED
  BY <1>1, <1>2, IsMap

\* HashMap::remove.
LEMMA WithoutMap ==
  ASSUME NEW S, NEW r \in Maps(S), NEW i
  PROVE  /\ Without(r, i) \in Maps(S)
         /\ DOMAIN Without(r, i) = DOMAIN r \ {i}
         /\ \A j \in DOMAIN r \ {i} : Without(r, i)[j] = r[j]
<1>1. DOMAIN r \ {i} \in SUBSET Ids
  BY MapFacts
<1>2. Without(r, i) \in [DOMAIN r \ {i} -> S]
  BY MapFacts DEF Without, Restrict
<1>3. Without(r, i) \in Maps(S)
  BY <1>1, <1>2, IsMap
<1> QED
  BY <1>3 DEF Without, Restrict

\* Writing the record of a user who is there.
LEMMA ExceptMap ==
  ASSUME NEW S, NEW r \in Maps(S), NEW i \in DOMAIN r, NEW x \in S
  PROVE  /\ [r EXCEPT ![i] = x] \in Maps(S)
         /\ [r EXCEPT ![i] = x] = With(r, i, x)
<1>1. [r EXCEPT ![i] = x] = With(r, i, x)
  <2>1. r \in [DOMAIN r -> S]
    BY DEF Maps
  <2>2. DOMAIN r \cup {i} = DOMAIN r
    OBVIOUS
  <2> QED
    BY <2>1, <2>2 DEF With
<1>2. i \in Ids
  BY MapFacts
<1>3. With(r, i, x) \in Maps(S)
  BY <1>2, WithMap
<1> QED
  BY <1>1, <1>3, Zenon

\* The fields of a delta.
LEMMA DeltaFacts ==
  ASSUME NEW delta \in Deltas
  PROVE  DOMAIN delta \subseteq Fields /\ \A f \in DOMAIN delta : delta[f] \in Values
BY DEF Deltas

\* Reading a packet gives a record, and so does merging one into a record.
LEMMA RecordTypes ==
  ASSUME NEW delta \in Deltas, NEW info \in Records
  PROVE  /\ Decoded(delta) \in Records
         /\ Merge(info, delta) \in Records
         /\ Merge(info, delta)["name"] =
              IF "name" \in DOMAIN delta THEN delta["name"] ELSE info["name"]
         /\ DOMAIN delta = Fields => Decoded(delta) = Merge(info, delta)
BY DeltaFacts, FieldsAssumption DEF Decoded, Merge, Records

\* The empty map.
LEMMA NoUsersMap ==
  ASSUME NEW S
  PROVE  NoUsers \in Maps(S) /\ DOMAIN NoUsers = {}
<1>1. NoUsers \in [{} -> S]
  BY DEF NoUsers
<1> QED
  BY <1>1, IsMap, Zenon DEF NoUsers

-----------------------------------------------------------------------------
(* Queues that lead from a roster to another.                              *)

\* What an entry makes of a roster is a roster.
LEMMA AfterRoster ==
  ASSUME NEW m \in Events \cup Messages, NEW r \in Rosters, Fits(m, r)
  PROVE  After(m, r) \in Rosters
<1>1. CASE m.type \in {"Connected", "connected"}
  BY <1>1 DEF After, Events, Messages, Rosters
<1>2. CASE m.type \in {"UserJoined", "user_joined"}
  <2>1. m.id \in Ids /\ m.info \in Records
    BY <1>2 DEF Events, Messages
  <2>2. With(r, m.id, m.info) \in Rosters
    BY <2>1, WithMap DEF Rosters
  <2> QED
    BY <1>2, <2>2 DEF After
<1>3. CASE m.type \in {"UserLeft", "user_left"}
  <2>1. Without(r, m.id) \in Rosters
    BY WithoutMap, Zenon DEF Rosters
  <2> QED
    BY <1>3, <2>1 DEF After
<1>4. CASE m.type \in {"UserStateChanged", "user_state"}
  <2>1. m.id \in DOMAIN r /\ m.delta \in Deltas
    BY <1>4 DEF Events, Messages, Fits
  <2>2. Merge(r[m.id], m.delta) \in Records
    BY <2>1, MapFacts, RecordTypes DEF Rosters
  <2>3. [r EXCEPT ![m.id] = Merge(r[m.id], m.delta)] \in Rosters
    BY <2>1, <2>2, ExceptMap DEF Rosters
  <2> QED
    BY <1>4, <2>3 DEF After
<1>5. CASE m.type \in {"ChatMessage", "ChannelUpdated", "ChannelRemoved",
                       "chat_received", "channel_updated"}
  BY <1>5 DEF After
<1> QED
  BY <1>1, <1>2, <1>3, <1>4, <1>5 DEF Events, Messages

\* The empty queue leads from a roster to itself.
LEMMA LeadsNowhere ==
  ASSUME NEW r \in Rosters
  PROVE  Leads(<<>>, r, r) /\ \A to : Leads(<<>>, r, to) => to = r
<1>1. Len(<<>>) = 0
  BY EmptySeq
<1>2. Leads(<<>>, r, r)
  <2> DEFINE v == [k \in 0 .. Len(<<>>) |-> r]
  <2>1. v \in [0 .. Len(<<>>) -> Rosters] /\ v[0] = r /\ v[Len(<<>>)] = r
    BY <1>1
  <2>2. \A k \in 1 .. Len(<<>>) : FALSE
    BY <1>1
  <2> QED
    BY <2>1, <2>2, Zenon DEF Leads
<1>3. ASSUME NEW to, Leads(<<>>, r, to)
      PROVE  to = r
  BY <1>1, <1>3 DEF Leads
<1> QED
  BY <1>2, <1>3

\* An entry at the end takes the roster one step further.
LEMMA LeadsFurther ==
  ASSUME NEW S, NEW q \in Seq(S), NEW m \in S, NEW from, NEW to,
         Leads(q, from, to), Fits(m, to), After(m, to) \in Rosters
  PROVE  Leads(Append(q, m), from, After(m, to))
<1>1. PICK v \in [0 .. Len(q) -> Rosters] :
        /\ v[0] = from /\ v[Len(q)] = to
        /\ \A k \in 1 .. Len(q) :
             Fits(q[k], v[k - 1]) /\ v[k] = After(q[k], v[k - 1])
  BY DEF Leads
<1>2. /\ Len(q) \in Nat /\ Len(Append(q, m)) = Len(q) + 1
      /\ \A k \in 1 .. Len(q) : Append(q, m)[k] = q[k]
      /\ Append(q, m)[Len(q) + 1] = m
  BY LenProperties, AppendProperties
<1> DEFINE u == [k \in 0 .. Len(q) + 1 |-> IF k <= Len(q) THEN v[k] ELSE After(m, to)]
<1>3. u \in [0 .. Len(q) + 1 -> Rosters]
  BY <1>2
<1>4. u[0] = from /\ u[Len(q) + 1] = After(m, to)
  BY <1>1, <1>2
<1>5. ASSUME NEW k \in 1 .. Len(q) + 1
      PROVE  Fits(Append(q, m)[k], u[k - 1]) /\ u[k] = After(Append(q, m)[k], u[k - 1])
  <2>1. CASE k \in 1 .. Len(q)
    <3>1. u[k] = v[k] /\ u[k - 1] = v[k - 1] /\ Append(q, m)[k] = q[k]
      BY <1>2, <2>1
    <3> QED
      BY <1>1, <2>1, <3>1
  <2>2. CASE k = Len(q) + 1
    <3>1. u[k] = After(m, to) /\ u[k - 1] = to /\ Append(q, m)[k] = m
      BY <1>1, <1>2, <2>2
    <3> QED
      BY <3>1
  <2> QED
    BY <1>2, <2>1, <2>2
<1> HIDE DEF u
<1> QED
  BY <1>2, <1>3, <1>4, <1>5, Zenon DEF Leads

\* The first entry fits the roster the queue starts from, and the others lead
\* on from the one after it.
LEMMA LeadsOn ==
  ASSUME NEW S, NEW q \in Seq(S), q # <<>>, NEW from, NEW to, Leads(q, from, to)
  PROVE  /\ Fits(Head(q), from) /\ After(Head(q), from) \in Rosters
         /\ Leads(Tail(q), After(Head(q), from), to)
<1>1. PICK v \in [0 .. Len(q) -> Rosters] :
        /\ v[0] = from /\ v[Len(q)] = to
        /\ \A k \in 1 .. Len(q) :
             Fits(q[k], v[k - 1]) /\ v[k] = After(q[k], v[k - 1])
  BY Zenon DEF Leads
<1>2. Len(q) \in Nat /\ Len(q) # 0
  BY LenProperties, EmptySeq
<1>3. /\ Head(q) = q[1] /\ Len(Tail(q)) = Len(q) - 1
      /\ \A k \in 1 .. Len(q) - 1 : Tail(q)[k] = q[k + 1]
  BY <1>2, HeadTailProperties
<1>4. Fits(Head(q), from) /\ v[1] = After(Head(q), from) /\ v[1] \in Rosters
  <2>1. 1 \in 1 .. Len(q) /\ 1 - 1 = 0 /\ 1 \in 0 .. Len(q)
    BY <1>2
  <2> QED
    BY <1>1, <1>3, <2>1
<1> DEFINE u == [k \in 0 .. Len(q) - 1 |-> v[k + 1]]
<1>5. /\ u \in [0 .. Len(q) - 1 -> Rosters]
      /\ u[0] = After(Head(q), from) /\ u[Len(q) - 1] = to
  <2>1. \A k \in 0 .. Len(q) - 1 : k + 1 \in 0 .. Len(q)
    BY <1>2
  <2>2. 0 \in 0 .. Len(q) - 1 /\ Len(q) - 1 \in 0 .. Len(q) - 1 /\ Len(q) - 1 + 1 = Len(q)
    BY <1>2
  <2> QED
    BY <1>1, <1>4, <2>1, <2>2
<1>6. ASSUME NEW k \in 1 .. Len(q) - 1
      PROVE  Fits(Tail(q)[k], u[k - 1]) /\ u[k] = After(Tail(q)[k], u[k - 1])
  <2>1. /\ k + 1 \in 1 .. Len(q) /\ k + 1 - 1 = k
        /\ u[k] = v[k + 1] /\ u[k - 1] = v[k] /\ Tail(q)[k] = q[k + 1]
    BY <1>2, <1>3
  <2> QED
    BY <1>1, <2>1
<1> HIDE DEF u
<1>7. Leads(Tail(q), After(Head(q), from), to)
  BY <1>3, <1>5, <1>6, Zenon DEF Leads
<1> QED
  BY <1>4, <1>7

\* Every entry fits some roster.
LEMMA LeadsFit ==
  ASSUME NEW q, NEW from, NEW to, Leads(q, from, to)
  PROVE  \A k \in 1 .. Len(q) : \E r : Fits(q[k], r)
BY DEF Leads

-----------------------------------------------------------------------------
(* Steps of the control task.                                              *)

\* An event that says how the Mumble server's roster changed.
LEMMA EmitKeeps ==
  ASSUME IInv, connected, NEW m \in Events, m.type # "Connected",
         events' = Append(events, m), Fits(m, world), world' = After(m, world),
         users' = world', connected' = connected, ControlOnly
  PROVE  Login' /\ Linked' /\ events' \in Seq(Events) /\ world' \in Rosters
<1> USE DEF IInv
<1>1. events \in Seq(Events) /\ world \in Rosters
  BY DEF TypeOK, Rosters
<1>2. world' \in Rosters
  BY <1>1, AfterRoster
<1>3. /\ Len(events) \in Nat /\ events' \in Seq(Events) /\ Len(events') = Len(events) + 1
      /\ \A k \in 1 .. Len(events) : events'[k] = events[k]
      /\ events'[Len(events) + 1] = m
  BY <1>1, LenProperties, AppendProperties
<1>4. Login'
  <2>1. session_id' = {} => events' # <<>> /\ events'[1].type = "Connected"
    <3>1. ASSUME session_id = {}
          PROVE  1 \in 1 .. Len(events) /\ events[1].type = "Connected"
      BY <1>1, <1>3, <3>1, EmptySeq DEF Login
    <3>2. events' # <<>>
      BY <1>3, EmptySeq
    <3> QED
      BY <1>3, <3>1, <3>2 DEF ControlOnly, eventVars
  <2>2. ASSUME NEW k \in 1 .. Len(events'), events'[k].type = "Connected"
        PROVE  session_id = {} /\ k = 1
    <3>1. k \in 1 .. Len(events) /\ events[k].type = "Connected"
      BY <1>3, <2>2
    <3> QED
      BY <3>1 DEF Login
  <2> QED
    BY <2>1, <2>2 DEF Login, ControlOnly, eventVars, browserVars
<1>5. PICK from \in Rosters, known \in Rosters :
        /\ Leads(ws, from, known) /\ Leads(events, known, world)
        /\ session_id # {} => Known(known)
        /\ logged_in => from = shown
  BY DEF Linked
<1>6. Leads(events', known, world')
  BY <1>1, <1>2, <1>5, LeadsFurther
<1>7. Known(known) => Known(known)'
  BY DEF Known, ControlOnly, eventVars
<1>8. Linked'
  BY <1>5, <1>6, <1>7 DEF Linked, ControlOnly, eventVars, browserVars
<1> QED
  BY <1>2, <1>3, <1>4, <1>8

\* During the login nothing but the control task's own roster changes.
LEMMA SilentKeeps ==
  ASSUME IInv, ~connected, events' = events, world' \in Rosters,
         users' = world', connected' = connected, ControlOnly
  PROVE  Login' /\ Linked'
<1>1. events = <<>> /\ session_id = {} /\ ws = <<>> /\ ~logged_in
  BY DEF IInv, Login
<1>2. Login'
  BY <1>1 DEF IInv, Login, ControlOnly, eventVars, browserVars
<1>3. /\ Leads(ws', world', world') /\ Leads(events', world', world')
      /\ session_id' = {} /\ ~logged_in'
  BY <1>1, LeadsNowhere DEF ControlOnly, eventVars, browserVars
<1>4. Linked'
  BY <1>3 DEF Linked
<1> QED
  BY <1>2, <1>4

\* Types that a control step leaves alone.
LEMMA ControlTypes ==
  ASSUME TypeOK, ControlOnly
  PROVE  /\ shown' \in Maps(Records) /\ shownChannels' \subseteq Channels
         /\ logged_in' \in BOOLEAN /\ session_id' \subseteq {Me}
         /\ known_speakers' \subseteq Ids /\ user_map' \in Maps(Values)
         /\ ws' \in Seq(Messages)
BY DEF TypeOK, ControlOnly, eventVars, browserVars

\* The packet counter.
LEMMA PacketTypes ==
  ASSUME TypeOK, Packet
  PROVE  packets' \in Nat
BY DEF TypeOK, Packet

\* handle_control_packet on UserState of a new user.
LEMMA NewUserKeeps ==
  ASSUME IInv, NEW i \in Ids, NEW delta \in Deltas, NewUser(i, delta)
  PROVE  IInv'
<1> USE DEF IInv, Rosters
<1> DEFINE info == Decoded(delta)
<1>1. info \in Records
  BY FieldsAssumption, DeltaFacts DEF Decoded, Records
<1>2. /\ world' = With(world, i, info) /\ users' = world' /\ connected' = connected
      /\ ControlOnly /\ Packet /\ UNCHANGED <<rooms, channels>>
      /\ IF connected
         THEN events' = Append(events, [type |-> "UserJoined", id |-> i, info |-> info])
         ELSE events' = events
  BY DEF NewUser, Login, Emit
<1> HIDE DEF info
<1>3. world' \in Rosters
  BY <1>1, <1>2, WithMap DEF TypeOK
<1>4. Login' /\ Linked' /\ events' \in Seq(Events)
  <2>1. CASE connected
    <3> DEFINE m == [type |-> "UserJoined", id |-> i, info |-> info]
    <3>1. m \in Events /\ m.type = "UserJoined" /\ m.id = i /\ m.info = info
      BY <1>1 DEF Events
    <3>2. events' = Append(events, m)
      BY <1>2, <2>1
    <3> HIDE DEF m
    <3>3. Fits(m, world) /\ world' = After(m, world)
      BY <1>2, <3>1 DEF Fits, After
    <3> QED
      BY <1>2, <2>1, <3>1, <3>2, <3>3, EmitKeeps
  <2>2. CASE ~connected
    <3>1. events' \in Seq(Events)
      BY <1>2, <2>2 DEF TypeOK
    <3> QED
      BY <1>2, <1>3, <2>2, <3>1, SilentKeeps
  <2> QED
    BY <2>1, <2>2
<1>5. TypeOK'
  BY <1>2, <1>3, <1>4, ControlTypes, PacketTypes DEF TypeOK
<1> QED
  BY <1>4, <1>5

\* handle_control_packet on UserState of a user who is there.
LEMMA UserStateKeeps ==
  ASSUME IInv, NEW i \in Ids, NEW delta \in Deltas, UserState(i, delta)
  PROVE  IInv'
<1> USE DEF IInv, Rosters
<1> DEFINE info == Merge(world[i], delta)
<1>1. world \in Rosters /\ i \in DOMAIN world /\ world[i] \in Records
  BY MapFacts DEF UserState, TypeOK
<1>2. info \in Records /\ (DOMAIN delta = Fields => Decoded(delta) = info)
  BY <1>1, RecordTypes
<1>3. /\ world' = [world EXCEPT ![i] = info]
      /\ ControlOnly /\ Packet /\ UNCHANGED <<rooms, channels, connected>>
      /\ \/ /\ connected /\ users' = With(users, i, Merge(users[i], delta))
            /\ events' = Append(events, [type |-> "UserStateChanged", id |-> i, delta |-> delta])
         \/ ~connected /\ users' = With(users, i, Decoded(delta)) /\ events' = events
      /\ connected \/ DOMAIN delta = Fields
  BY DEF UserState, Emit, Merge
<1>4. users = world
  BY DEF Login
<1>5. users' = With(world, i, info)
  BY <1>2, <1>3, <1>4
<1> HIDE DEF info
<1>6. world' = With(world, i, info) /\ world' \in Rosters
  <2>1. /\ [world EXCEPT ![i] = info] \in Maps(Records)
        /\ [world EXCEPT ![i] = info] = With(world, i, info)
    BY <1>1, <1>2, ExceptMap
  <2> QED
    BY <1>3, <2>1
<1>7. Login' /\ Linked' /\ events' \in Seq(Events)
  <2>1. CASE connected
    <3> DEFINE m == [type |-> "UserStateChanged", id |-> i, delta |-> delta]
    <3>1. m \in Events /\ m.type = "UserStateChanged" /\ m.id = i /\ m.delta = delta
      BY DEF Events
    <3>2. events' = Append(events, m)
      BY <1>3, <2>1
    <3> HIDE DEF m
    <3>3. Fits(m, world)
      BY <1>1, <3>1 DEF Fits
    <3>4. After(m, world) = [world EXCEPT ![i] = Merge(world[i], delta)]
      BY <3>1 DEF After
    <3>5. world' = After(m, world)
      BY <1>3, <3>4 DEF info
    <3> QED
      BY <1>3, <1>5, <1>6, <2>1, <3>1, <3>2, <3>3, <3>5, EmitKeeps
  <2>2. CASE ~connected
    <3>1. events' \in Seq(Events)
      BY <1>3, <2>2 DEF TypeOK
    <3> QED
      BY <1>3, <1>5, <1>6, <2>2, <3>1, SilentKeeps
  <2> QED
    BY <2>1, <2>2
<1>8. TypeOK'
  BY <1>3, <1>5, <1>6, <1>7, ControlTypes, PacketTypes, Zenon DEF TypeOK
<1> QED
  BY <1>7, <1>8

\* handle_control_packet on UserRemove.
LEMMA UserRemoveKeeps ==
  ASSUME IInv, NEW i \in Ids, UserRemove(i)
  PROVE  IInv'
<1> USE DEF IInv, Rosters
<1>1. /\ world' = Without(world, i) /\ users' = world' /\ connected' = connected
      /\ ControlOnly /\ Packet /\ UNCHANGED <<rooms, channels>>
      /\ IF connected THEN events' = Append(events, [type |-> "UserLeft", id |-> i])
         ELSE events' = events
  BY Zenon DEF UserRemove, Login, Emit
<1>2. world' \in Rosters
  BY <1>1, WithoutMap, Zenon DEF TypeOK
<1>3. Login' /\ Linked' /\ events' \in Seq(Events)
  <2>1. CASE connected
    <3> DEFINE m == [type |-> "UserLeft", id |-> i]
    <3>1. m \in Events /\ m.type = "UserLeft" /\ m.id = i
      BY DEF Events
    <3>2. events' = Append(events, m)
      BY <1>1, <2>1
    <3> HIDE DEF m
    <3>3. Fits(m, world) /\ world' = After(m, world)
      BY <1>1, <3>1 DEF Fits, After
    <3> QED
      BY <1>1, <2>1, <3>1, <3>2, <3>3, EmitKeeps
  <2>2. CASE ~connected
    <3>1. events' \in Seq(Events)
      BY <1>1, <2>2 DEF TypeOK
    <3> QED
      BY <1>1, <1>2, <2>2, <3>1, SilentKeeps
  <2> QED
    BY <2>1, <2>2
<1>4. TypeOK'
  BY <1>1, <1>2, <1>3, ControlTypes, PacketTypes, Zenon DEF TypeOK
<1> QED
  BY <1>3, <1>4

\* An event that is not about the roster: a chat message, said under the name
\* its sender has, or a channel.
LEMMA AsideKeeps ==
  ASSUME IInv, NEW m \in Events, Fits(m, world),
         m.type \in {"ChatMessage", "ChannelUpdated", "ChannelRemoved"},
         IF connected THEN events' = Append(events, m) ELSE events' = events,
         UNCHANGED <<world, users, connected>>, ControlOnly
  PROVE  Login' /\ Linked' /\ events' \in Seq(Events) /\ world' \in Rosters
<1> USE DEF IInv, Rosters
<1>1. users' = world' /\ world' \in Rosters
  BY DEF Login, TypeOK
<1>2. CASE connected
  <2>1. world' = After(m, world)
    BY DEF After
  <2> QED
    BY <1>1, <1>2, <2>1, EmitKeeps, Zenon
<1>3. CASE ~connected
  <2>1. events' \in Seq(Events)
    BY <1>3 DEF TypeOK
  <2> QED
    BY <1>1, <1>3, <2>1, SilentKeeps
<1> QED
  BY <1>2, <1>3

\* handle_control_packet on TextMessage.
LEMMA TextMessageKeeps ==
  ASSUME IInv, NEW i \in Ids, TextMessage(i)
  PROVE  IInv'
<1> USE DEF IInv, Rosters
<1> DEFINE said == IF i \in DOMAIN world THEN {world[i]["name"]} ELSE {}
           m == [type |-> "ChatMessage", id |-> i, said |-> said]
<1>1. said \subseteq Values
  BY MapFacts, FieldsAssumption DEF TypeOK, Records
<1>2. m \in Events /\ m.type = "ChatMessage" /\ m.id = i /\ m.said = said
  BY <1>1, Zenon DEF Events
<1>3. connected /\ events' = Append(events, m)
  BY DEF TextMessage, Emit
<1>4. /\ UNCHANGED <<world, rooms, users, channels, connected>> /\ ControlOnly /\ Packet
  BY DEF TextMessage
<1>5. Fits(m, world)
  BY <1>2 DEF Fits
<1> HIDE DEF m, said
<1>6. Login' /\ Linked' /\ events' \in Seq(Events) /\ world' \in Rosters
  BY <1>2, <1>3, <1>4, <1>5, AsideKeeps
<1>7. TypeOK'
  BY <1>4, <1>6, ControlTypes, PacketTypes DEF TypeOK
<1> QED
  BY <1>6, <1>7

\* handle_control_packet on ChannelState and ChannelRemove.
LEMMA ChannelKeeps ==
  ASSUME IInv, NEW c \in Channels, ChannelState(c) \/ ChannelRemove(c)
  PROVE  IInv'
<1> USE DEF IInv, Rosters
<1>1. \E m \in Events :
        /\ m.type \in {"ChannelUpdated", "ChannelRemoved"}
        /\ IF connected THEN events' = Append(events, m) ELSE events' = events
  <2>1. /\ [type |-> "ChannelUpdated", id |-> c] \in Events
        /\ [type |-> "ChannelRemoved", id |-> c] \in Events
    BY DEF Events
  <2> QED
    BY <2>1 DEF ChannelState, ChannelRemove, Emit
<1>2. PICK m \in Events :
        /\ m.type \in {"ChannelUpdated", "ChannelRemoved"}
        /\ IF connected THEN events' = Append(events, m) ELSE events' = events
  BY <1>1
<1>3. /\ UNCHANGED <<world, users, connected>> /\ ControlOnly /\ Packet
  BY DEF ChannelState, ChannelRemove
<1>4. rooms' \subseteq Channels /\ channels' \subseteq Channels
  BY DEF ChannelState, ChannelRemove, TypeOK
<1>5. Fits(m, world)
  BY <1>2 DEF Fits
<1>6. Login' /\ Linked' /\ events' \in Seq(Events) /\ world' \in Rosters
  BY <1>2, <1>3, <1>5, AsideKeeps
<1>7. TypeOK'
  BY <1>3, <1>4, <1>6, ControlTypes, PacketTypes DEF TypeOK
<1> QED
  BY <1>6, <1>7

\* handle_control_packet on ServerSync: the Connected event starts the chain.
LEMMA ServerSyncKeeps ==
  ASSUME IInv, ServerSync
  PROVE  IInv'
<1> USE DEF IInv, Rosters
<1> DEFINE m == [type |-> "Connected", users |-> users, channels |-> channels]
<1>1. world \in Rosters /\ m \in Events /\ m.type = "Connected" /\ m.users = world
  BY Zenon DEF Events, TypeOK, Login
<1>2. /\ ~connected /\ connected' = TRUE /\ events' = Append(events, m)
      /\ UNCHANGED <<world, rooms, users, channels>> /\ ControlOnly /\ Packet
  BY DEF ServerSync, Emit
<1> HIDE DEF m
<1>3. events = <<>> /\ session_id = {} /\ ws = <<>> /\ ~logged_in
  BY <1>2, Zenon DEF Login
<1>4. /\ events' \in Seq(Events) /\ Len(events') = 1 /\ events'[1] = m
  <2>1. <<>> \in Seq(Events) /\ Len(<<>>) = 0
    BY EmptySeq
  <2> QED
    BY <1>1, <1>2, <1>3, <2>1, AppendProperties
<1>5. events' # <<>>
  BY <1>4, EmptySeq
<1>6. Login'
  <2>1. \A k \in 1 .. Len(events') : k = 1
    BY <1>4
  <2> QED
    BY <1>1, <1>2, <1>3, <1>4, <1>5, <2>1
       DEF Login, ControlOnly, eventVars, browserVars
<1>7. Leads(events', world', world')
  <2>1. Fits(m, world) /\ After(m, world) = world
    BY <1>1 DEF Fits, After
  <2>2. <<>> \in Seq(Events) /\ Leads(<<>>, world, world)
    BY <1>1, LeadsNowhere, EmptySeq
  <2>3. Leads(Append(<<>>, m), world, After(m, world))
    BY <1>1, <2>1, <2>2, LeadsFurther, Zenon
  <2> QED
    BY <1>2, <1>3, <2>1, <2>3
<1>8. Leads(ws', world', world')
  BY <1>1, <1>2, <1>3, LeadsNowhere DEF ControlOnly
<1>9. Linked'
  BY <1>1, <1>2, <1>3, <1>7, <1>8 DEF Linked, ControlOnly, eventVars, browserVars
<1>10. TypeOK'
  BY <1>2, <1>4, ControlTypes, PacketTypes DEF TypeOK
<1> QED
  BY <1>6, <1>9, <1>10

-----------------------------------------------------------------------------
(* Steps of the event task.                                                *)

\* The first event: Connected comes when the session is not authenticated yet,
\* the others after it.
LEMMA EventHead ==
  ASSUME IInv, NEW type, Event(type)
  PROVE  /\ Head(events) \in Events /\ Head(events).type = type
         /\ type # "Connected" => session_id = {Me}
         /\ type = "Connected" => user_map = NoUsers
<1> USE DEF IInv
<1>1. events \in Seq(Events) /\ events # <<>> /\ Head(events).type = type
  BY DEF TypeOK, Event
<1>2. Len(events) \in Nat /\ Len(events) # 0
  BY <1>1, LenProperties, EmptySeq
<1>3. Head(events) = events[1] /\ Head(events) \in Events
  BY <1>1, <1>2, HeadTailProperties
<1>4. connected /\ 1 \in 1 .. Len(events)
  BY <1>1, <1>2 DEF Login
<1>5. type # "Connected" => session_id = {Me}
  BY <1>1, <1>3, <1>4 DEF Login, TypeOK
<1>6. type = "Connected" => user_map = NoUsers
  BY <1>1, <1>3, <1>4 DEF Login
<1> QED
  BY <1>1, <1>3, <1>5, <1>6

\* An event is taken from the channel: no other entry is Connected.
LEMMA EventTaken ==
  ASSUME IInv, NEW type, Event(type), session_id' = {Me}
  PROVE  Login' /\ events' \in Seq(Events)
<1> USE DEF IInv
<1>1. /\ events \in Seq(Events) /\ events # <<>> /\ events' = Tail(events)
      /\ UNCHANGED <<controlVars, browserVars>>
  BY DEF TypeOK, Event
<1>2. Len(events) \in Nat /\ Len(events) # 0
  BY <1>1, LenProperties, EmptySeq
<1>3. /\ events' \in Seq(Events) /\ Len(events') = Len(events) - 1
      /\ \A k \in 1 .. Len(events) - 1 : events'[k] = events[k + 1]
  BY <1>1, <1>2, HeadTailProperties
<1>4. connected
  BY <1>1 DEF Login
<1>5. ASSUME NEW k \in 1 .. Len(events'), events'[k].type = "Connected"
      PROVE  FALSE
  <2>1. k + 1 \in 1 .. Len(events) /\ k + 1 # 1 /\ events[k + 1].type = "Connected"
    BY <1>2, <1>3, <1>5
  <2> QED
    BY <2>1 DEF Login
<1>6. Login'
  BY <1>1, <1>4, <1>5 DEF Login, controlVars, browserVars
<1> QED
  BY <1>3, <1>6

\* The event is passed on: what the event task knows and the message move
\* along together.
LEMMA TellKeeps ==
  ASSUME IInv, NEW type, Event(type), session_id' = {Me},
         NEW m \in Messages, ws' = Append(ws, m),
         \A r, s \in Rosters :
           /\ s = After(Head(events), r) /\ Fits(Head(events), r)
           /\ session_id # {} => Known(r)
           => Fits(m, r) /\ s = After(m, r) /\ Known(s)'
  PROVE  Login' /\ Linked' /\ events' \in Seq(Events) /\ ws' \in Seq(Messages)
<1> USE DEF IInv
<1>1. /\ events \in Seq(Events) /\ events # <<>> /\ events' = Tail(events)
      /\ ws \in Seq(Messages) /\ UNCHANGED <<controlVars, browserVars>>
  BY DEF TypeOK, Event
<1>2. Login' /\ events' \in Seq(Events)
  BY EventTaken
<1>3. PICK from \in Rosters, known \in Rosters :
        /\ Leads(ws, from, known) /\ Leads(events, known, world)
        /\ session_id # {} => Known(known)
        /\ logged_in => from = shown
  BY DEF Linked
<1>4. PICK next : next = After(Head(events), known)
  OBVIOUS
<1>5. Fits(Head(events), known) /\ next \in Rosters /\ Leads(events', next, world)
  BY <1>1, <1>3, <1>4, LeadsOn
<1>6. Fits(m, known) /\ next = After(m, known) /\ Known(next)'
  BY <1>3, <1>4, <1>5
<1>7. Leads(ws', from, next)
  BY <1>1, <1>3, <1>5, <1>6, LeadsFurther
<1>8. Linked'
  BY <1>1, <1>3, <1>5, <1>6, <1>7 DEF Linked, controlVars, browserVars
<1>9. ws' \in Seq(Messages)
  BY <1>1, AppendProperties
<1> QED
  BY <1>2, <1>8, <1>9

\* Types that a step of the event task leaves alone.
LEMMA EventTypes ==
  ASSUME TypeOK, NEW type, Event(type)
  PROVE  /\ world' \in Maps(Records) /\ users' \in Maps(Records) /\ shown' \in Maps(Records)
         /\ rooms' \subseteq Channels /\ channels' \subseteq Channels
         /\ shownChannels' \subseteq Channels
         /\ connected' \in BOOLEAN /\ logged_in' \in BOOLEAN /\ packets' \in Nat
BY DEF TypeOK, Event, controlVars, browserVars

\* Connected: the whole roster.
LEMMA ConnectedKeeps ==
  ASSUME IInv, Connected
  PROVE  IInv'
<1> USE DEF IInv, Rosters
<1> DEFINE all == Head(events).users
           m == [type |-> "connected", users |-> all, channels |-> Head(events).channels]
<1>1. /\ Event("Connected") /\ session_id' = {Me} /\ ws' = Append(ws, m)
      /\ user_map' = [i \in DOMAIN all \cup DOMAIN user_map |->
                        IF i \in DOMAIN all THEN all[i]["name"] ELSE user_map[i]]
      /\ known_speakers' = DOMAIN all \ {Me}
  BY DEF Connected, Tell, Others
<1>2. Head(events) \in Events /\ Head(events).type = "Connected" /\ user_map = NoUsers
  BY <1>1, EventHead
<1>3. all \in Rosters /\ Head(events).channels \subseteq Channels
  BY <1>2 DEF Events
<1>4. m \in Messages /\ m.type = "connected" /\ m.users = all
  BY <1>3 DEF Messages
<1> HIDE DEF m, all
<1>5. DOMAIN user_map' = DOMAIN all /\ \A i \in DOMAIN all : user_map'[i] = all[i]["name"]
  BY <1>1, <1>2 DEF NoUsers
<1>6. ASSUME NEW r \in Rosters, NEW s \in Rosters, s = After(Head(events), r)
      PROVE  Fits(m, r) /\ s = After(m, r) /\ Known(s)'
  <2>1. s = all
    BY <1>2, <1>6 DEF After, all
  <2>2. Fits(m, r) /\ After(m, r) = all
    BY <1>4 DEF After, Fits
  <2>3. Known(s)'
    BY <1>1, <1>5, <2>1 DEF Known
  <2> QED
    BY <2>1, <2>2, <2>3
<1>7. Login' /\ Linked' /\ events' \in Seq(Events) /\ ws' \in Seq(Messages)
  BY <1>1, <1>4, <1>6, TellKeeps, Zenon
<1>8. DOMAIN all \subseteq Ids /\ \A i \in DOMAIN all : all[i]["name"] \in Values
  BY <1>3, MapFacts, FieldsAssumption DEF Records
<1>9. user_map' \in Maps(Values)
  <2>1. user_map' \in [DOMAIN all -> Values]
    BY <1>1, <1>2, <1>8 DEF NoUsers
  <2> QED
    BY <1>8, <2>1, IsMap, Zenon
<1>10. TypeOK'
  BY <1>1, <1>7, <1>8, <1>9, EventTypes, Zenon DEF TypeOK
<1> QED
  BY <1>7, <1>10

\* UserJoined.
LEMMA UserJoinedKeeps ==
  ASSUME IInv, UserJoined
  PROVE  IInv'
<1> USE DEF IInv, Rosters
<1> DEFINE i == Head(events).id
           info == Head(events).info
           m == [type |-> "user_joined", id |-> i, info |-> info]
<1>1. /\ Event("UserJoined") /\ session_id' = session_id /\ ws' = Append(ws, m)
      /\ user_map' = With(user_map, i, info["name"])
      /\ known_speakers' = known_speakers \cup ({i} \ session_id)
  BY Zenon DEF UserJoined, Tell
<1>2. session_id = {Me} /\ session_id' = {Me}
  BY SMTT(30), <1>1, EventHead
<1>3. Head(events) \in Events /\ Head(events).type = "UserJoined"
  BY <1>1, EventHead
<1>4. i \in Ids /\ info \in Records /\ info["name"] \in Values
  BY <1>3, FieldsAssumption DEF Events, Records
<1>5. m \in Messages /\ m.type = "user_joined" /\ m.id = i /\ m.info = info
  BY <1>4, Zenon DEF Messages
<1> HIDE DEF m, i, info
<1>6. /\ user_map' \in Maps(Values) /\ DOMAIN user_map' = DOMAIN user_map \cup {i}
      /\ user_map'[i] = info["name"]
      /\ \A j \in DOMAIN user_map \ {i} : user_map'[j] = user_map[j]
  <2> DEFINE x == info["name"]
  <2>1. user_map \in Maps(Values) /\ x \in Values
    BY <1>4 DEF TypeOK
  <2> HIDE DEF x
  <2>2. With(user_map, i, x) \in Maps(Values)
    BY <1>4, <2>1, WithMap
  <2>3. /\ DOMAIN With(user_map, i, x) = DOMAIN user_map \cup {i}
        /\ With(user_map, i, x)[i] = x
        /\ \A j \in DOMAIN user_map \ {i} : With(user_map, i, x)[j] = user_map[j]
    BY DEF With
  <2> QED
    BY <1>1, <2>2, <2>3 DEF x
<1>7. ASSUME NEW r \in Rosters, NEW s \in Rosters, s = After(Head(events), r), Known(r)
      PROVE  Fits(m, r) /\ s = After(m, r) /\ Known(s)'
  <2>1. s = With(r, i, info)
    BY <1>3, <1>7 DEF After, i, info
  <2>2. Fits(m, r) /\ After(m, r) = With(r, i, info)
    BY <1>5 DEF After, Fits
  <2>3. /\ DOMAIN s = DOMAIN r \cup {i} /\ s[i] = info
        /\ \A j \in DOMAIN r \ {i} : s[j] = r[j]
    <3>1. /\ DOMAIN With(r, i, info) = DOMAIN r \cup {i} /\ With(r, i, info)[i] = info
          /\ \A j \in DOMAIN r \ {i} : With(r, i, info)[j] = r[j]
      BY DEF With
    <3> QED
      BY <2>1, <3>1
  <2>4. \A j \in DOMAIN s : user_map'[j] = s[j]["name"]
    BY <1>6, <1>7, <2>3 DEF Known
  <2>5. known_speakers' = DOMAIN s \ {Me} /\ DOMAIN user_map' = DOMAIN s
    BY <1>1, <1>2, <1>6, <1>7, <2>3 DEF Known
  <2>6. Known(s)'
    BY <2>4, <2>5 DEF Known
  <2> QED
    BY <2>1, <2>2, <2>6
<1>8. Login' /\ Linked' /\ events' \in Seq(Events) /\ ws' \in Seq(Messages)
  BY <1>1, <1>2, <1>5, <1>7, TellKeeps, Zenon
<1>9. TypeOK'
  BY <1>1, <1>2, <1>4, <1>6, <1>8, EventTypes DEF TypeOK
<1> QED
  BY <1>8, <1>9

\* UserLeft.
LEMMA UserLeftKeeps ==
  ASSUME IInv, UserLeft
  PROVE  IInv'
<1> USE DEF IInv, Rosters
<1> DEFINE i == Head(events).id
           m == [type |-> "user_left", id |-> i]
<1>1. /\ Event("UserLeft") /\ session_id' = session_id /\ ws' = Append(ws, m)
      /\ user_map' = Without(user_map, i)
      /\ known_speakers' = known_speakers \ {i}
  BY Zenon DEF UserLeft, Tell
<1>2. /\ Head(events) \in Events /\ Head(events).type = "UserLeft"
      /\ session_id = {Me} /\ session_id' = {Me}
  BY <1>1, EventHead
<1>3. i \in Ids
  BY <1>2 DEF Events
<1>4. m \in Messages /\ m.type = "user_left" /\ m.id = i
  BY <1>3 DEF Messages
<1> HIDE DEF m, i
<1>5. /\ user_map' \in Maps(Values) /\ DOMAIN user_map' = DOMAIN user_map \ {i}
      /\ \A j \in DOMAIN user_map \ {i} : user_map'[j] = user_map[j]
  <2>1. user_map \in Maps(Values)
    BY DEF TypeOK
  <2>2. /\ Without(user_map, i) \in Maps(Values)
        /\ DOMAIN Without(user_map, i) = DOMAIN user_map \ {i}
        /\ \A j \in DOMAIN user_map \ {i} : Without(user_map, i)[j] = user_map[j]
    BY <2>1, WithoutMap
  <2> QED
    BY <1>1, <2>2
<1>6. ASSUME NEW r \in Rosters, NEW s \in Rosters, s = After(Head(events), r), Known(r)
      PROVE  Fits(m, r) /\ s = After(m, r) /\ Known(s)'
  <2>1. s = Without(r, i)
    BY <1>2, <1>6 DEF After, i
  <2>2. Fits(m, r) /\ After(m, r) = Without(r, i)
    BY <1>4 DEF After, Fits
  <2>3. DOMAIN s = DOMAIN r \ {i} /\ \A j \in DOMAIN r \ {i} : s[j] = r[j]
    <3>1. /\ DOMAIN Without(r, i) = DOMAIN r \ {i}
          /\ \A j \in DOMAIN r \ {i} : Without(r, i)[j] = r[j]
      BY WithoutMap, Zenon
    <3> QED
      BY <2>1, <3>1
  <2>4. \A j \in DOMAIN s : user_map'[j] = s[j]["name"]
    BY <1>5, <1>6, <2>3 DEF Known
  <2>5. known_speakers' = DOMAIN s \ {Me} /\ DOMAIN user_map' = DOMAIN s
    BY <1>1, <1>5, <1>6, <2>3 DEF Known
  <2>6. Known(s)'
    BY <2>4, <2>5 DEF Known
  <2> QED
    BY <2>1, <2>2, <2>6
<1>7. Login' /\ Linked' /\ events' \in Seq(Events) /\ ws' \in Seq(Messages)
  BY <1>1, <1>2, <1>4, <1>6, TellKeeps
<1>8. TypeOK'
  <2>1. known_speakers' \subseteq Ids
    BY <1>1 DEF TypeOK
  <2> QED
    BY <1>1, <1>2, <1>5, <1>7, <2>1, EventTypes, Zenon DEF TypeOK
<1> QED
  BY <1>7, <1>8

\* UserStateChanged: a new name is noted, the rest is passed on.
LEMMA UserStateChangedKeeps ==
  ASSUME IInv, UserStateChanged
  PROVE  IInv'
<1> USE DEF IInv, Rosters
<1> DEFINE i == Head(events).id
           delta == Head(events).delta
           m == [type |-> "user_state", id |-> i, delta |-> delta]
<1>1. /\ Event("UserStateChanged") /\ session_id' = session_id /\ ws' = Append(ws, m)
      /\ user_map' = IF "name" \in DOMAIN delta
                     THEN With(user_map, i, delta["name"]) ELSE user_map
      /\ known_speakers' = known_speakers
  BY DEF UserStateChanged, Tell
<1>2. /\ Head(events) \in Events /\ Head(events).type = "UserStateChanged"
      /\ session_id = {Me} /\ session_id' = {Me}
  BY <1>1, EventHead
<1>3. i \in Ids /\ delta \in Deltas
  BY <1>2 DEF Events
<1>4. m \in Messages /\ m.type = "user_state" /\ m.id = i /\ m.delta = delta
  BY <1>3, Zenon DEF Messages
<1> HIDE DEF m, i, delta
<1> DEFINE name == delta["name"]
<1>5. "name" \in DOMAIN delta =>
        /\ user_map' \in Maps(Values) /\ DOMAIN user_map' = DOMAIN user_map \cup {i}
        /\ user_map'[i] = name
        /\ \A j \in DOMAIN user_map \ {i} : user_map'[j] = user_map[j]
  <2>1. SUFFICES ASSUME "name" \in DOMAIN delta
                 PROVE  /\ user_map' \in Maps(Values)
                        /\ DOMAIN user_map' = DOMAIN user_map \cup {i}
                        /\ user_map'[i] = name
                        /\ \A j \in DOMAIN user_map \ {i} : user_map'[j] = user_map[j]
    OBVIOUS
  <2>2. user_map \in Maps(Values) /\ name \in Values
    BY <1>3, <2>1, DeltaFacts DEF TypeOK
  <2>3. user_map' = With(user_map, i, name)
    BY <1>1, <2>1
  <2> HIDE DEF name
  <2>4. With(user_map, i, name) \in Maps(Values)
    BY <1>3, <2>2, WithMap
  <2>5. /\ DOMAIN With(user_map, i, name) = DOMAIN user_map \cup {i}
        /\ With(user_map, i, name)[i] = name
        /\ \A j \in DOMAIN user_map \ {i} : With(user_map, i, name)[j] = user_map[j]
    BY DEF With
  <2> QED
    BY <2>3, <2>4, <2>5
<1>6. ASSUME NEW r \in Rosters, NEW s \in Rosters, s = After(Head(events), r),
             Fits(Head(events), r), Known(r)
      PROVE  Fits(m, r) /\ s = After(m, r) /\ Known(s)'
  <2>1. s = [r EXCEPT ![i] = Merge(r[i], delta)]
    BY <1>2, <1>6 DEF After, i, delta
  <2>2. i \in DOMAIN r /\ r[i] \in Records
    BY <1>2, <1>6, MapFacts DEF Fits, i
  <2>3. Fits(m, r) /\ After(m, r) = [r EXCEPT ![i] = Merge(r[i], delta)]
    BY <1>4, <2>2 DEF After, Fits
  <2> DEFINE info == Merge(r[i], delta)
  <2>4. info["name"] = IF "name" \in DOMAIN delta THEN name ELSE r[i]["name"]
    BY <1>3, <2>2, RecordTypes
  <2> HIDE DEF info, name
  <2>5. DOMAIN s = DOMAIN r /\ s[i] = info /\ \A j \in DOMAIN r \ {i} : s[j] = r[j]
    BY <2>1, <2>2 DEF info
  <2>6. \A j \in DOMAIN s : user_map'[j] = s[j]["name"]
    <3>1. CASE "name" \in DOMAIN delta
      BY <1>5, <1>6, <2>2, <2>4, <2>5, <3>1, Zenon DEF Known
    <3>2. CASE "name" \notin DOMAIN delta
      <4>1. user_map' = user_map
        BY <1>1, <3>2
      <4> QED
        BY <1>6, <2>2, <2>4, <2>5, <3>2, <4>1, Zenon DEF Known
    <3> QED
      BY <3>1, <3>2
  <2>7. DOMAIN user_map' = DOMAIN s
    BY <1>1, <1>5, <1>6, <2>2, <2>5, Zenon DEF Known
  <2>8. known_speakers' = DOMAIN s \ {Me}
    BY <1>1, <1>6, <2>5, Zenon DEF Known
  <2>9. Known(s)'
    BY <2>6, <2>7, <2>8 DEF Known
  <2> QED
    BY <2>1, <2>3, <2>9
<1>7. Login' /\ Linked' /\ events' \in Seq(Events) /\ ws' \in Seq(Messages)
  BY <1>1, <1>2, <1>4, <1>6, TellKeeps, Zenon
<1>8. TypeOK'
  <2>1. user_map' \in Maps(Values)
    BY <1>1, <1>5, Zenon DEF TypeOK
  <2>2. known_speakers' \subseteq Ids
    BY <1>1 DEF TypeOK
  <2> QED
    BY <1>1, <1>2, <1>7, <2>1, <2>2, EventTypes, Zenon DEF TypeOK
<1> QED
  BY <1>7, <1>8

\* An event that leaves the event task's own state alone is passed on.
LEMMA PassedOn ==
  ASSUME IInv, NEW type, Event(type), type \in {"ChannelUpdated", "ChatMessage"},
         UNCHANGED eventVars, NEW m \in Messages, ws' = Append(ws, m),
         m.type \in {"channel_updated", "chat_received"},
         \A r \in Rosters : Fits(Head(events), r) /\ Known(r) => Fits(m, r)
  PROVE  IInv'
<1>1. /\ Head(events).type = type /\ session_id = {Me} /\ session_id' = {Me}
  BY EventHead DEF eventVars
<1>2. ASSUME NEW r \in Rosters, NEW s \in Rosters, s = After(Head(events), r),
             Fits(Head(events), r), Known(r)
      PROVE  Fits(m, r) /\ s = After(m, r) /\ Known(s)'
  <2>1. s = r /\ After(m, r) = r
    BY <1>1, <1>2 DEF After
  <2>2. Known(s)'
    BY <1>2, <2>1, Zenon DEF Known, eventVars
  <2> QED
    BY <1>2, <2>1, <2>2
<1>3. Login' /\ Linked' /\ events' \in Seq(Events) /\ ws' \in Seq(Messages)
  BY <1>1, <1>2, TellKeeps
<1>4. TypeOK'
  BY <1>3, EventTypes, Zenon DEF IInv, TypeOK, eventVars
<1> QED
  BY <1>3, <1>4 DEF IInv

\* ChannelUpdated.
LEMMA ChannelUpdatedKeeps ==
  ASSUME IInv, ChannelUpdated
  PROVE  IInv'
<1> DEFINE m == [type |-> "channel_updated", channels |-> {Head(events).id}]
<1>1. Event("ChannelUpdated") /\ UNCHANGED eventVars /\ ws' = Append(ws, m)
  BY DEF ChannelUpdated, Tell
<1>2. Head(events) \in Events /\ Head(events).type = "ChannelUpdated"
  BY <1>1, EventHead
<1>3. m \in Messages /\ m.type = "channel_updated"
  BY <1>2, Zenon DEF Events, Messages
<1> HIDE DEF m
<1>4. \A r \in Rosters : Fits(m, r)
  BY <1>3 DEF Fits
<1> QED
  BY <1>1, <1>3, <1>4, PassedOn

\* ChatMessage: the sender's name is looked up.
LEMMA ChatMessageKeeps ==
  ASSUME IInv, ChatMessage
  PROVE  IInv'
<1> DEFINE i == Head(events).id
           said == Head(events).said
           sender_name == IF i \in DOMAIN user_map THEN {user_map[i]} ELSE {}
           m == [type |-> "chat_received", said |-> said, sender_name |-> sender_name]
<1>1. Event("ChatMessage") /\ UNCHANGED eventVars /\ ws' = Append(ws, m)
  BY DEF ChatMessage, Tell
<1>2. Head(events) \in Events /\ Head(events).type = "ChatMessage"
  BY <1>1, EventHead
<1>3. said \subseteq Values
  BY <1>2 DEF Events
<1>4. sender_name \subseteq Values
  BY MapFacts DEF IInv, TypeOK
<1>5. m \in Messages /\ m.type = "chat_received" /\ m.said = said
      /\ m.sender_name = sender_name
  BY <1>3, <1>4, Zenon DEF Messages
<1> HIDE DEF m
<1>6. ASSUME NEW r \in Rosters, Fits(Head(events), r), Known(r)
      PROVE  Fits(m, r)
  <2>1. said = IF i \in DOMAIN r THEN {r[i]["name"]} ELSE {}
    BY <1>2, <1>6 DEF Fits
  <2>2. said = sender_name
    BY <1>6, <2>1, Zenon DEF Known
  <2> QED
    BY <1>5, <2>2, Zenon DEF Fits
<1> HIDE DEF i, said, sender_name
<1> QED
  BY <1>1, <1>5, <1>6, PassedOn

\* ChannelRemoved is not passed on.
LEMMA ChannelRemovedKeeps ==
  ASSUME IInv, ChannelRemoved
  PROVE  IInv'
<1> USE DEF IInv
<1>1. Event("ChannelRemoved") /\ UNCHANGED <<eventVars, ws>>
  BY DEF ChannelRemoved
<1>2. /\ Head(events).type = "ChannelRemoved" /\ session_id = {Me} /\ session_id' = {Me}
  BY <1>1, EventHead DEF eventVars
<1>3. Login' /\ events' \in Seq(Events)
  BY <1>1, <1>2, EventTaken
<1>4. PICK from \in Rosters, known \in Rosters :
        /\ Leads(ws, from, known) /\ Leads(events, known, world)
        /\ session_id # {} => Known(known)
        /\ logged_in => from = shown
  BY DEF Linked
<1>5. /\ events \in Seq(Events) /\ events # <<>> /\ events' = Tail(events)
      /\ UNCHANGED <<controlVars, browserVars>>
  BY <1>1 DEF TypeOK, Event
<1>6. After(Head(events), known) = known
  BY <1>2 DEF After
<1>7. Leads(events', known, world)
  BY <1>4, <1>5, <1>6, LeadsOn
<1>8. Known(known)'
  BY <1>1, <1>2, <1>4, Zenon DEF Known, eventVars
<1>9. Linked'
  BY <1>1, <1>4, <1>5, <1>7, <1>8 DEF Linked, controlVars, browserVars
<1>10. TypeOK'
  BY <1>1, <1>3, EventTypes, Zenon DEF TypeOK, eventVars
<1> QED
  BY <1>3, <1>9, <1>10

-----------------------------------------------------------------------------
(* Steps of the browser.                                                   *)

\* The browser takes a message: what it shows moves along with the queue.
LEMMA MessageKeeps ==
  ASSUME IInv, NEW type, Message(type),
         shown' \in Rosters, shownChannels' \subseteq Channels, logged_in' \in BOOLEAN,
         \A from \in Rosters :
           /\ Fits(Head(ws), from)
           /\ logged_in => from = shown
           => (logged_in' => shown' = After(Head(ws), from))
  PROVE  IInv'
<1> USE DEF IInv
<1>1. /\ ws \in Seq(Messages) /\ ws # <<>> /\ ws' = Tail(ws)
      /\ UNCHANGED <<controlVars, events, eventVars>>
  BY DEF TypeOK, Message
<1>2. ws' \in Seq(Messages)
  BY <1>1, HeadTailProperties
<1>3. session_id # {}
  BY <1>1, Zenon DEF Login
<1>4. Login'
  BY <1>1, <1>3, Zenon DEF Login, controlVars, eventVars
<1>5. PICK from \in Rosters, known \in Rosters :
        /\ Leads(ws, from, known) /\ Leads(events, known, world)
        /\ session_id # {} => Known(known)
        /\ logged_in => from = shown
  BY DEF Linked
<1>6. PICK next : next = After(Head(ws), from)
  OBVIOUS
<1>7. Fits(Head(ws), from) /\ next \in Rosters /\ Leads(ws', next, known)
  BY <1>1, <1>5, <1>6, LeadsOn
<1>8. logged_in' => shown' = next
  BY <1>5, <1>6, <1>7
<1>9. Known(known)'
  BY <1>1, <1>3, <1>5, Zenon DEF Known, eventVars
<1>10. Linked'
  BY <1>1, <1>5, <1>7, <1>8, <1>9, Zenon DEF Linked, controlVars
<1>11. TypeOK'
  BY <1>1, <1>2, Zenon DEF TypeOK, Rosters, controlVars, eventVars
<1> QED
  BY <1>4, <1>10, <1>11

\* client.html, message by message.
LEMMA BrowserKeeps ==
  ASSUME IInv, BrowserStep
  PROVE  IInv'
<1> USE DEF Rosters
<1>1. shown \in Rosters /\ shownChannels \subseteq Channels /\ logged_in \in BOOLEAN
  BY DEF IInv, TypeOK
<1>2. ASSUME NEW type, Message(type)
      PROVE  Head(ws) \in Messages /\ Head(ws).type = type
  <2>1. ws \in Seq(Messages) /\ ws # <<>> /\ Head(ws).type = type
    BY <1>2, Zenon DEF IInv, TypeOK, Message
  <2> QED
    BY <2>1, HeadTailProperties
<1>3. CASE OnConnected
  <2>1. /\ Message("connected") /\ shown' = Head(ws).users
        /\ shownChannels' = Head(ws).channels /\ logged_in' = TRUE
    BY <1>3 DEF OnConnected
  <2>2. Head(ws) \in Messages /\ Head(ws).type = "connected"
    BY <1>2, <2>1
  <2>3. shown' \in Rosters /\ shownChannels' \subseteq Channels
    BY <2>1, <2>2 DEF Messages
  <2>4. \A from \in Rosters : shown' = After(Head(ws), from)
    BY <2>1, <2>2 DEF After
  <2> QED
    BY <2>1, <2>3, <2>4, MessageKeeps, Zenon
<1>4. CASE OnUserJoined
  <2>1. /\ Message("user_joined") /\ shown' = With(shown, Head(ws).id, Head(ws).info)
        /\ UNCHANGED <<shownChannels, logged_in>>
    BY <1>4, Zenon DEF OnUserJoined
  <2>2. Head(ws) \in Messages /\ Head(ws).type = "user_joined"
    BY <1>2, <2>1
  <2>3. Head(ws).id \in Ids /\ Head(ws).info \in Records
    BY <2>2 DEF Messages
  <2>4. shown' \in Rosters
    BY <1>1, <2>1, <2>3, WithMap, Zenon
  <2>5. shown' = After(Head(ws), shown)
    BY <2>1, <2>2 DEF After
  <2> QED
    BY <1>1, <2>1, <2>4, <2>5, MessageKeeps
<1>5. CASE OnUserLeft
  <2>1. /\ Message("user_left") /\ shown' = Without(shown, Head(ws).id)
        /\ UNCHANGED <<shownChannels, logged_in>>
    BY <1>5, Zenon DEF OnUserLeft
  <2>2. Head(ws).type = "user_left"
    BY <1>2, <2>1
  <2>3. shown' \in Rosters
    BY <1>1, <2>1, WithoutMap, Zenon
  <2>4. shown' = After(Head(ws), shown)
    BY <2>1, <2>2 DEF After
  <2> QED
    BY <1>1, <2>1, <2>3, <2>4, MessageKeeps
<1>6. CASE OnUserState
  <2> DEFINE i == Head(ws).id
             delta == Head(ws).delta
  <2>1. /\ Message("user_state") /\ UNCHANGED <<shownChannels, logged_in>>
        /\ shown' = IF i \in DOMAIN shown
                    THEN [shown EXCEPT ![i] = Merge(shown[i], delta)] ELSE shown
    BY <1>6 DEF OnUserState
  <2>2. Head(ws) \in Messages /\ Head(ws).type = "user_state"
    BY <1>2, <2>1
  <2>3. delta \in Deltas
    BY <2>2 DEF Messages
  <2>4. ASSUME i \in DOMAIN shown
        PROVE  shown' \in Rosters /\ shown' = After(Head(ws), shown)
    <3>1. After(Head(ws), shown) = [shown EXCEPT ![i] = Merge(shown[i], delta)]
      BY <2>2 DEF After
    <3>2. Fits(Head(ws), shown)
      BY <2>2, <2>4, Zenon DEF Fits
    <3>3. After(Head(ws), shown) \in Rosters
      BY <1>1, <2>2, <3>2, AfterRoster
    <3> QED
      BY <2>1, <2>4, <3>1, <3>3, Zenon
  <2>5. shown' \in Rosters
    BY <1>1, <2>1, <2>4, Zenon
  <2>6. ASSUME NEW from \in Rosters, Fits(Head(ws), from), from = shown
        PROVE  shown' = After(Head(ws), from)
    <3>1. i \in DOMAIN shown
      BY <2>2, <2>6 DEF Fits
    <3> QED
      BY <2>4, <2>6, <3>1
  <2> QED
    BY <1>1, <2>1, <2>5, <2>6, MessageKeeps, Zenon
<1>7. CASE OnChannelUpdated
  <2>1. /\ Message("channel_updated") /\ shownChannels' = Head(ws).channels
        /\ UNCHANGED <<shown, logged_in>>
    BY <1>7 DEF OnChannelUpdated
  <2>2. Head(ws) \in Messages /\ Head(ws).type = "channel_updated"
    BY <1>2, <2>1
  <2>3. shownChannels' \subseteq Channels
    BY <2>1, <2>2, Zenon DEF Messages
  <2>4. shown' = After(Head(ws), shown)
    BY <2>1, <2>2 DEF After
  <2> QED
    BY <1>1, <2>1, <2>3, <2>4, MessageKeeps, Zenon
<1>8. CASE OnChat
  <2>1. Message("chat_received") /\ UNCHANGED browserVars
    BY <1>8 DEF OnChat
  <2>2. Head(ws).type = "chat_received"
    BY <1>2, <2>1
  <2>3. shown' = After(Head(ws), shown)
    BY <2>1, <2>2 DEF After, browserVars
  <2> QED
    BY <1>1, <2>1, <2>3, MessageKeeps DEF browserVars
<1> QED
  BY <1>3, <1>4, <1>5, <1>6, <1>7, <1>8 DEF BrowserStep

-----------------------------------------------------------------------------
(* The theorems.                                                           *)

\* The login starts with no users and nothing under way.
LEMMA InitKeeps ==
  ASSUME Init
  PROVE  IInv
<1>1. /\ <<>> \in Seq(Events) /\ <<>> \in Seq(Messages) /\ Len(<<>>) = 0
  BY EmptySeq
<1>2. NoUsers \in Maps(Records) /\ NoUsers \in Maps(Values)
  BY NoUsersMap
<1>3. TypeOK
  BY <1>1, <1>2, Zenon DEF Init, TypeOK
<1>4. Login
  BY <1>1 DEF Init, Login
<1>5. Leads(<<>>, NoUsers, NoUsers)
  BY <1>2, LeadsNowhere DEF Rosters
<1>6. Linked
  BY <1>2, <1>5 DEF Init, Linked, Rosters
<1> QED
  BY <1>3, <1>4, <1>6 DEF IInv

\* The types, the order of the login and the chain from the browser over the
\* event task to the Mumble server hold in every state.
THEOREM Invariance == Spec => []IInv
<1>1. Init => IInv
  BY InitKeeps
<1>2. IInv /\ [Next]_vars => IInv'
  <2> SUFFICES ASSUME IInv, [Next]_vars PROVE IInv'
    OBVIOUS
  <2>1. CASE ControlStep
    BY <2>1, NewUserKeeps, UserStateKeeps, UserRemoveKeeps, TextMessageKeeps,
       ChannelKeeps, ServerSyncKeeps DEF ControlStep
  <2>2. CASE EventStep
    BY <2>2, ConnectedKeeps, UserJoinedKeeps, UserLeftKeeps, UserStateChangedKeeps,
       ChannelUpdatedKeeps, ChannelRemovedKeeps, ChatMessageKeeps DEF EventStep
  <2>3. CASE BrowserStep
    BY <2>3, BrowserKeeps
  <2>4. CASE UNCHANGED vars
    BY <2>4, Zenon DEF IInv, TypeOK, Login, Linked, Known,
                vars, controlVars, eventVars, browserVars
  <2> QED
    BY <2>1, <2>2, <2>3, <2>4 DEF Next
<1> QED
  BY <1>1, <1>2, PTL DEF Spec

\* Every queue holds the events and messages its reader knows, and every map
\* the records of Mumble sessions.
THEOREM Typing == Spec => []TypeOK
<1>1. IInv => TypeOK
  BY DEF IInv
<1> QED
  BY <1>1, Invariance, PTL

\* handle_control_packet, process_events and client.html together lose, double
\* and misread no join, leave or partial change of a user.
THEOREM RosterDelivered == Spec => []UsersDelivered
<1>1. IInv => UsersDelivered
  <2> SUFFICES ASSUME IInv, logged_in, events = <<>>, ws = <<>>
               PROVE  shown = world
    BY DEF UsersDelivered
  <2> QED
    BY LeadsNowhere DEF IInv, Linked
<1> QED
  BY <1>1, Invariance, PTL

\* known_speakers follows the Mumble server's users and leaves this login out.
THEOREM SpeakersFollow == Spec => []SpeakersAreOthers
<1>1. IInv => SpeakersAreOthers
  <2> SUFFICES ASSUME IInv, session_id # {}, events = <<>>
               PROVE  known_speakers = DOMAIN world \ {Me}
    BY DEF SpeakersAreOthers
  <2> QED
    BY LeadsNowhere DEF IInv, Linked, Known
<1> QED
  BY <1>1, Invariance, PTL

\* user_map has the name under which each chat message was sent.
THEOREM ChatKeepsName == Spec => []ChatNamed
<1>1. IInv => ChatNamed
  <2> SUFFICES ASSUME IInv, NEW k \in 1 .. Len(ws), ws[k].type = "chat_received"
               PROVE  ws[k].sender_name = ws[k].said
    BY DEF ChatNamed
  <2>1. \E r : Fits(ws[k], r)
    BY LeadsFit, Zenon DEF IInv, Linked
  <2> QED
    BY <2>1 DEF Fits
<1> QED
  BY <1>1, Invariance, PTL
=============================================================================
