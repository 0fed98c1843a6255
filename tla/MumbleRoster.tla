---------------------------- MODULE MumbleRoster ----------------------------
(***************************************************************************)
(* The roster of the Mumble server on its way to the browser: the control  *)
(* task's users and channels (handle_control_packet), the session's event  *)
(* task (known_speakers, user_map), the WebSocket queue and client.html.   *)
(*                                                                         *)
(* A user's record has a value for each field (the name stands for itself, *)
(* another field for channel, mute, deaf, self_mute and self_deaf).  A     *)
(* packet carries values for some of them, as protobuf does; a field that  *)
(* is read without being there has the value Default.  The Mumble server   *)
(* is external: packets arrive in the order in which its own roster,       *)
(* world, changes, so a change and handling its packet are one step.       *)
(***************************************************************************)
EXTENDS Naturals, Sequences, Functions

CONSTANTS Ids,         \* Mumble session ids
          Me,          \* that of this login
          Fields, Values, Default,
          Channels,    \* channel ids
          MaxPackets   \* bound on the instance

ASSUME IdsAssumption == Me \in Ids
ASSUME FieldsAssumption == "name" \in Fields /\ Default \in Values
ASSUME BoundAssumption == MaxPackets \in Nat

VARIABLES world, rooms,              \* the Mumble server's users and channels
          users, channels, connected,  \* locals of the control task
          events,                    \* its event channel
          session_id, known_speakers,  \* UserSession, id once authenticated
          user_map,                  \* names known to the event task
          ws,                        \* ServerMessages for the browser
          shown, shownChannels, logged_in,  \* client.html's users, channels
          packets

controlVars == <<world, rooms, users, channels, connected, packets>>
eventVars == <<session_id, known_speakers, user_map>>
browserVars == <<shown, shownChannels, logged_in>>
vars == <<controlVars, events, eventVars, ws, browserVars>>

NoUsers == [i \in {} |-> Default]

Init ==
  /\ world = NoUsers /\ rooms = {} /\ users = NoUsers /\ channels = {}
  /\ connected = FALSE /\ events = <<>>
  /\ session_id = {} /\ known_speakers = {} /\ user_map = NoUsers
  /\ ws = <<>>
  /\ shown = NoUsers /\ shownChannels = {} /\ logged_in = FALSE
  /\ packets = 0

-----------------------------------------------------------------------------
\* What a packet may carry, and reading all of it.
Deltas == UNION {[F -> Values] : F \in SUBSET Fields}
Decoded(delta) ==
  [f \in Fields |-> IF f \in DOMAIN delta THEN delta[f] ELSE Default]

\* Mutant: a field that is not in the packet is read all the same.
MergeDecoded(info, delta) == Decoded(delta)

\* merge_user_state, and client.html on user_state: only what is there.
Merge(info, delta) ==
  [f \in Fields |-> IF f \in DOMAIN delta THEN delta[f] ELSE info[f]]

With(map, i, value) ==
  [j \in DOMAIN map \cup {i} |-> IF j = i THEN value ELSE map[j]]
Without(map, i) == Restrict(map, DOMAIN map \ {i})

-----------------------------------------------------------------------------
(* handle_control_packet.                                                  *)

Packet == packets < MaxPackets /\ packets' = packets + 1
Emit(event) == events' = Append(events, event)
ControlOnly == UNCHANGED <<eventVars, ws, browserVars>>

\* UserState of a user who is new to the Mumble server's clients.  It has all
\* fields that differ from the default.
NewUser(i, delta) ==
  /\ Packet /\ i \notin DOMAIN world
  /\ world' = With(world, i, Decoded(delta))
  /\ users' = With(users, i, Decoded(delta))
  /\ IF connected THEN Emit([type |-> "UserJoined", id |-> i, info |-> Decoded(delta)])
     ELSE UNCHANGED events
  /\ ControlOnly /\ UNCHANGED <<rooms, channels, connected>>

\* UserState of a user who is there, with what changed.  During the login the
\* record is replaced; the Mumble server sends complete ones then.
UserState(i, delta) ==
  /\ Packet /\ i \in DOMAIN world /\ (connected \/ DOMAIN delta = Fields)
  /\ world' = [world EXCEPT ![i] = [f \in Fields |->
                 IF f \in DOMAIN delta THEN delta[f] ELSE world[i][f]]]
  /\ \/ /\ connected /\ users' = With(users, i, Merge(users[i], delta))
        /\ Emit([type |-> "UserStateChanged", id |-> i, delta |-> delta])
     \/ ~connected /\ users' = With(users, i, Decoded(delta)) /\ UNCHANGED events
  /\ ControlOnly /\ UNCHANGED <<rooms, channels, connected>>

\* UserRemove of someone else (that of this login ends the connection).
UserRemove(i) ==
  /\ Packet /\ i \in DOMAIN world \ {Me}
  /\ world' = Without(world, i) /\ users' = Without(users, i)
  /\ IF connected THEN Emit([type |-> "UserLeft", id |-> i]) ELSE UNCHANGED events
  /\ ControlOnly /\ UNCHANGED <<rooms, channels, connected>>

\* ServerSync ends the login.
ServerSync ==
  /\ Packet /\ ~connected /\ Me \in DOMAIN world
  /\ connected' = TRUE
  /\ Emit([type |-> "Connected", users |-> users, channels |-> channels])
  /\ ControlOnly /\ UNCHANGED <<world, rooms, users, channels>>

\* TextMessage, which the Mumble server sends to clients that have logged in;
\* said is the name its actor has there, {} for one that is no user.
TextMessage(i) ==
  /\ Packet /\ connected
  /\ Emit([type |-> "ChatMessage", id |-> i, said |->
            IF i \in DOMAIN world THEN {world[i]["name"]} ELSE {}])
  /\ ControlOnly /\ UNCHANGED <<world, rooms, users, channels, connected>>

\* ChannelState and ChannelRemove.
ChannelState(c) ==
  /\ Packet /\ rooms' = rooms \cup {c} /\ channels' = channels \cup {c}
  /\ IF connected THEN Emit([type |-> "ChannelUpdated", id |-> c])
     ELSE UNCHANGED events
  /\ ControlOnly /\ UNCHANGED <<world, users, connected>>

ChannelRemove(c) ==
  /\ Packet /\ c \in rooms
  /\ rooms' = rooms \ {c} /\ channels' = channels \ {c}
  /\ IF connected THEN Emit([type |-> "ChannelRemoved", id |-> c])
     ELSE UNCHANGED events
  /\ ControlOnly /\ UNCHANGED <<world, users, connected>>

-----------------------------------------------------------------------------
(* process_events: each event updates the session and is passed on.        *)

Event(type) ==
  /\ events # <<>> /\ Head(events).type = type
  /\ events' = Tail(events)
  /\ UNCHANGED <<controlVars, browserVars>>
Tell(message) == ws' = Append(ws, message)

\* Mutant: the speakers include this login.
Everyone(all) == DOMAIN all

\* users.iter().map(|u| u.session_id).filter(|id| *id != session_id)
Others(all) == DOMAIN all \ {Me}

Connected ==
  /\ Event("Connected")
  /\ LET all == Head(events).users IN
       /\ user_map' = [i \in DOMAIN all \cup DOMAIN user_map |->
                         IF i \in DOMAIN all THEN all[i]["name"] ELSE user_map[i]]
       /\ session_id' = {Me} /\ known_speakers' = Others(all)
       /\ Tell([type |-> "connected", users |-> all,
                channels |-> Head(events).channels])

UserJoined ==
  /\ Event("UserJoined")
  /\ LET m == Head(events) IN
       /\ known_speakers' = known_speakers \cup ({m.id} \ session_id)
       /\ user_map' = With(user_map, m.id, m.info["name"])
       /\ Tell([type |-> "user_joined", id |-> m.id, info |-> m.info])
  /\ UNCHANGED session_id

UserLeft ==
  /\ Event("UserLeft")
  /\ known_speakers' = known_speakers \ {Head(events).id}
  /\ user_map' = Without(user_map, Head(events).id)
  /\ Tell([type |-> "user_left", id |-> Head(events).id])
  /\ UNCHANGED session_id

\* Mutant: a new name is not noted.
RenameForgotten ==
  /\ Event("UserStateChanged")
  /\ Tell([type |-> "user_state", id |-> Head(events).id, delta |-> Head(events).delta])
  /\ UNCHANGED eventVars

UserStateChanged ==
  /\ Event("UserStateChanged")
  /\ LET m == Head(events) IN
       /\ user_map' = IF "name" \in DOMAIN m.delta
                      THEN With(user_map, m.id, m.delta["name"]) ELSE user_map
       /\ Tell([type |-> "user_state", id |-> m.id, delta |-> m.delta])
  /\ UNCHANGED <<session_id, known_speakers>>

ChannelUpdated ==
  /\ Event("ChannelUpdated")
  /\ Tell([type |-> "channel_updated", channels |-> {Head(events).id}])
  /\ UNCHANGED eventVars

ChannelRemoved ==
  /\ Event("ChannelRemoved")
  /\ UNCHANGED <<eventVars, ws>>

\* A sender without a name is User#<id>, which is written as {}.
ChatMessage ==
  /\ Event("ChatMessage")
  /\ LET m == Head(events) IN
       Tell([type |-> "chat_received", said |-> m.said, sender_name |->
               IF m.id \in DOMAIN user_map THEN {user_map[m.id]} ELSE {}])
  /\ UNCHANGED eventVars

-----------------------------------------------------------------------------
(* client.html.                                                            *)

Message(type) ==
  /\ ws # <<>> /\ Head(ws).type = type
  /\ ws' = Tail(ws)
  /\ UNCHANGED <<controlVars, events, eventVars>>

OnConnected ==
  /\ Message("connected")
  /\ shown' = Head(ws).users /\ shownChannels' = Head(ws).channels
  /\ logged_in' = TRUE

OnUserJoined ==
  /\ Message("user_joined")
  /\ shown' = With(shown, Head(ws).id, Head(ws).info)
  /\ UNCHANGED <<shownChannels, logged_in>>

OnUserLeft ==
  /\ Message("user_left")
  /\ shown' = Without(shown, Head(ws).id)
  /\ UNCHANGED <<shownChannels, logged_in>>

OnUserState ==
  /\ Message("user_state")
  /\ shown' = IF Head(ws).id \in DOMAIN shown
              THEN [shown EXCEPT ![Head(ws).id] = Merge(@, Head(ws).delta)]
              ELSE shown
  /\ UNCHANGED <<shownChannels, logged_in>>

OnChannelUpdated ==
  /\ Message("channel_updated")
  /\ shownChannels' = Head(ws).channels
  /\ UNCHANGED <<shown, logged_in>>

OnChat ==
  /\ Message("chat_received")
  /\ UNCHANGED browserVars

-----------------------------------------------------------------------------
ControlStep ==
  \/ \E i \in Ids :
       \/ \E delta \in Deltas : NewUser(i, delta) \/ UserState(i, delta)
       \/ UserRemove(i) \/ TextMessage(i)
  \/ \E c \in Channels : ChannelState(c) \/ ChannelRemove(c)
  \/ ServerSync
EventStep ==
  \/ Connected \/ UserJoined \/ UserLeft \/ UserStateChanged
  \/ ChannelUpdated \/ ChannelRemoved \/ ChatMessage
BrowserStep ==
  \/ OnConnected \/ OnUserJoined \/ OnUserLeft \/ OnUserState
  \/ OnChannelUpdated \/ OnChat

Next == ControlStep \/ EventStep \/ BrowserStep
Spec == Init /\ [][Next]_vars

-----------------------------------------------------------------------------
(* Properties.                                                             *)

Records == [Fields -> Values]
Maps(S) == UNION {[D -> S] : D \in SUBSET Ids}
Events ==
  [type : {"Connected"}, users : Maps(Records), channels : SUBSET Channels] \cup
  [type : {"UserJoined"}, id : Ids, info : Records] \cup
  [type : {"UserLeft"}, id : Ids] \cup
  [type : {"UserStateChanged"}, id : Ids, delta : Deltas] \cup
  [type : {"ChatMessage"}, id : Ids, said : SUBSET Values] \cup
  [type : {"ChannelUpdated", "ChannelRemoved"}, id : Channels]
Messages ==
  [type : {"connected"}, users : Maps(Records), channels : SUBSET Channels] \cup
  [type : {"user_joined"}, id : Ids, info : Records] \cup
  [type : {"user_left"}, id : Ids] \cup
  [type : {"user_state"}, id : Ids, delta : Deltas] \cup
  [type : {"chat_received"}, said : SUBSET Values, sender_name : SUBSET Values] \cup
  [type : {"channel_updated"}, channels : SUBSET Channels]

\* Type invariant.
TypeOK ==
  /\ world \in Maps(Records) /\ users \in Maps(Records) /\ shown \in Maps(Records)
  /\ rooms \subseteq Channels /\ channels \subseteq Channels
  /\ shownChannels \subseteq Channels
  /\ connected \in BOOLEAN /\ logged_in \in BOOLEAN /\ packets \in Nat
  /\ session_id \subseteq {Me} /\ known_speakers \subseteq Ids
  /\ user_map \in Maps(Values)
  /\ events \in Seq(Events) /\ ws \in Seq(Messages)

\* When nothing is under way, the browser shows the Mumble server's users as
\* they are: no join, leave or partial change was lost, doubled or misread on
\* its way through the control task, the event task and the browser.
UsersDelivered ==
  logged_in /\ events = <<>> /\ ws = <<>> => shown = world

\* When the event task is up to date, the users who get a track are all others
\* on the Mumble server, never this login itself.
SpeakersAreOthers ==
  session_id # {} /\ events = <<>> => known_speakers = DOMAIN world \ {Me}

\* A chat message is shown under the name its sender had when they sent it,
\* whatever joins, leaves and renames were under way.
ChatNamed ==
  \A k \in 1 .. Len(ws) :
    ws[k].type = "chat_received" => ws[k].sender_name = ws[k].said

-----------------------------------------------------------------------------
(* Claims of the repository that the code does not keep.                   *)

\* docs/frontend-api.md: channel_updated updates the known channels.  When
\* nothing is under way, the browser knows every channel there is.
ChannelsKept ==
  logged_in /\ events = <<>> /\ ws = <<>> => rooms \subseteq shownChannels
=============================================================================
