# mumdota in TLA+

mumdota connects browsers to a Mumble server. A browser opens a WebSocket, the
bridge logs in to Mumble on its behalf, negotiates WebRTC audio with it, and
copies voice in both directions. A TURN server is built in. This directory holds
a formal model of the parts whose correctness depends on the order of events:
TLA+ modules translated from the Rust source (and from `client.html`, the client
kept with it), TLC configurations, and TLAPS proofs.

`PROJECT.json` lists the components, runs, mutants, the map from definitions to
source lines, findings, hazards and theorems.

## The system

| Part | Source | State | Operations |
| --- | --- | --- | --- |
| HTTP server | `server.rs`, `main.rs` | `websocket_slots`, the stop signal | `ws_upgrade`, `run` |
| WebSocket handler | `ws/handler.rs` | message loop, send task, `ws_tx` queue | one branch per client message, time limits, cleanup |
| Session manager | `session.rs` | map `sessions`, semaphore `slots`, flag `shutdown` | `connect_user`, `disconnect_user`, `close`, requests on a session |
| Session | `session.rs` | `UserSession`: `slot`, `closed`, `session_id`, voice, bridge | `process_events`, `finish_session`, voice setup |
| Mumble control client | `mumble/client.rs`, `proto.rs` | roster, crypt state, event and command channels | `handle_control_packet`, command loop |
| Mumble voice | `mumble/voice.rs` | UDP socket, sequence, crypt state | `run` |
| Audio bridge | `bridge.rs` | `UplinkClock`, two tasks | uplink, downlink, terminator |
| WebRTC session | `webrtc/mod.rs`, `audio.rs` | signalling state, `needs_offer`, `restart_pending`, candidates | `offer`, `answer`, `add_ice_candidate` |
| Speaker tracks | `webrtc/speakers.rs` | a track and a `MediaClock` per speaker | `add`, `remove`, `write` |
| TURN service | `turn/mod.rs`, `stream.rs`, `relay.rs` | listeners, servers, allocations | accept, `revoke`, `close` |
| TURN credentials | `turn/credentials.rs` | `entries` | `issue_at`, `revoke`, `authenticate_at` |
| Configuration | `config.rs` | none after start | `validate` |
| Browser client | `client.html` | peer connection, timers, roster | `handleMessage`, `applyIceConfig`, ... |

How the parts interact: the handler of a WebSocket is one tokio task and handles
one client message at a time. A `connect` makes a session, which has an event
task, a voice-setup task and a Mumble control task. All of them meet at the
session mutex, the map's lock, and the `ws_tx` queue. Teardown has four callers
(the handler, the event task, `close()`, and `connect_user` on a duplicate), and
each runs while the others may be anywhere.

What is hard to get right, and therefore modelled:

* teardown by several tasks at once, with awaits inside, on state found before;
* a reconnect on the same connection while the old generation is ending;
* capacity that must come back on every path: failure, cancellation, teardown;
* credentials issued after the lock that checked the session is free again;
* server stop while connects are under way;
* timers of the browser against expiry rules of the server, with a clock that
  may be set;
* offers, answers, candidates and negotiation events that cross each other;
* a roster kept in four places and updated by increments;
* audio clocks that translate between wrapping RTP counters, media time and wall
  time while packets are lost, doubled and late;
* TURN streams whose servers start and end beside a revocation and a shutdown;
* frames of several senders on one byte stream that may break off anywhere.

## Modules

| Module | Models | Extends / uses |
| --- | --- | --- |
| `SessionLifecycle` | WebSocket handler, session manager, event, voice-setup and Mumble control tasks, server stop | `SessionRegistry` by `INSTANCE` |
| `SessionRegistry` | what the session manager promises (abstract) | |
| `TurnCredentials` | credential store and the refresh timer of `client.html` | |
| `Negotiation` | WebRTC signalling of one session | |
| `MumbleRoster` | users, channels and chat, from the Mumble server to the browser | |
| `Opus` | duration of an Opus packet | |
| `VoiceUplink` | browser to Mumble: track reader, uplink task with `UplinkClock`, sending half of `MumbleVoice` | `Opus` |
| `VoiceDownlink` | Mumble to browser: receiving half of `MumbleVoice`, downlink task, `SpeakerTracks` with `MediaClock` | `Opus` |
| `AudioBridge` | both directions, and how the tasks end each other | `VoiceUplink`, `VoiceDownlink` |
| `Config` | configuration: sources, `validate`, the sockets it leads to | |
| `TurnService` | accept loops, stream tasks, list of servers, allocations, `revoke` | `Config` |
| `ServerRun` | the process, from configuration to exit | `TurnService` |
| `TurnStream` | framing of STUN and ChannelData over TCP or TLS | |
| `MC*` | instances for TLC | the module they are named after |
| `SessionLifecycleProofs` | types, the inductive invariant with one lemma per task and what it yields, who answers for each session permit, credentials of a reconnect | `SessionLifecycle` |
| `SessionRegistryProofs` | permit accounting, capacity of admitted browsers, refinement, who removes map entries | `SessionLifecycleProofs` |
| `TurnCredentialsProofs` | types, size of the store, coverage of browsers | `TurnCredentials` |
| `NegotiationProofs` | one exchange at a time, tracks, restarts, candidates | `Negotiation` |
| `MumbleRosterProofs` | the roster from the Mumble server to the browser, names in chat | `MumbleRoster` |
| `AudioBridgeProofs` | `UplinkClock` and everything it numbers; `MediaClock` and every track it stamps | `AudioBridge` |
| `ServerRunProofs` | ports, what is left at the end, what a revocation deletes | `ServerRun` |
| `TurnStreamProofs` | frames stay whole | `TurnStream` |

Operators whose comment starts with "Mutant:" are deliberately wrong variants of
the definition that follows them. They are used by no specification.
`PROJECT.json` pairs each with the property that it breaks, which shows that the
property depends on the code it is about.

### SessionLifecycle

An action is a stretch of code between two awaits at which another task may see
the difference. Variables keep the source's names where there is one
(`sessions`, `slots`, `websocket_slots`, `closed`, `session_id`, `shutdown`,
`terminal_error`, `bridge`, `slot`); program counters are `hpc` (handler), `epc`
(event task), `vpc` (voice setup), `mpc` (Mumble control task), `main` (the
process) and `stage` (one `connect_user` call).

* *Generations.* Each `connect_user` call is an element of `Gens`, which stands
  for the identity of its `Arc<Mutex<UserSession>>`. `IsCurrent(g)` is the
  `Arc::ptr_eq` of `finish_session`.
* *The session mutex.* It is modelled where it is held across an await, in
  `shutdown_user_session` (`lock`); shorter critical sections are one step that
  needs it free.
* *Cancellation.* `Cancel` and `CallTimeout` are the handler's 15 s limit, which
  drops a future at an await. The RAII permit goes with it (`DropPermit`).
* *Abort.* `JoinHandle::abort` acts at the next suspension. A voice-setup task
  that is being polled (`vpc = "running"`) goes on; `AbortVoice` only notes it.
* *Time* is left out: a time limit may expire at any moment.
* *Callers.* The handler is the only caller of `connect_user` in the program;
  the tests call it directly and concurrently, which `DirectCallers` allows.

A handler's cleanup, the event task's end and `close()` all run
`shutdown_user_session`, in two steps (`ShutdownBegin`, `ShutdownEnd`) with the
mutex held between them. `close_notify` and the Disconnect command are stored
permits, so both are read off `closed`.

`SessionRegistry` is the promise: at most `Capacity` holders, at most one
registered session per connection, registered only while it holds capacity and
only in a free place, and no second permit for a session that gave its permit
back. The refinement mapping is `registry <- sessions`, `holding <- {g :
slot[g]}`, `spent <-` the calls beyond the check that hold no permit.

### TurnCredentials

`Issue`, `Revoke`, `Accepts` are `issue_at`, `revoke`, `authenticate_at`. A
username is a number used once. Browsers run `applyIceConfig`: the credential
replaces the one they hold, and the timer is set `Lead` (60 s) before the expiry
by the browser's clock, at least one unit ahead. `Delay` bounds an `ice_refresh`
and its answer; `Timely` is the assumption that nothing under way takes longer,
and it is the only thing that holds back `Tick`. Other sessions ask and are
revoked at any time. `SetClock` sets the server's wall clock to any value, as
`SystemTime` allows; `now` is otherwise the time of both sides, and `Skew` the
difference of a browser's clock. `Revoke` is `Credentials::revoke` together with
`Leaves`, the end of the browser whose session it is. `KeptUntilExpiry` follows
each entry: it may go when it has expired, or in the revocation of its own
session, and then all entries of other sessions must stay.

### Negotiation

One authenticated session. `offer`, `answer` and `add_ice_candidate` run with the
session mutex held and are one step each. `Offer` has the code's four outcomes:
voice not started, offer deferred, offer made, failure. External parts: the
peer connection (its signalling state, `on_negotiation_needed` once per return
to the stable state while its tracks are not described) and the browser, as
`client.html` drives it, which handles one message at a time but may find
candidates before it has sent its answer. `PeerFails` lets every fallible call
fail. An error that `client.html` treats as fatal makes the browser leave
(`browser = "left"`), after which nothing more is negotiated.

### MumbleRoster

`handle_control_packet`, the Mumble branch of `process_events`, and
`handleMessage` of `client.html`, joined by two queues. A user's record is a
function from fields to values. A packet carries some of the fields. Reading a
field that is missing gives the default, which is what protobuf getters do; that
is why `merge_user_state` exists. The Mumble server is external. It is assumed
to send complete records during a login, text only after it, and changes of a
user only while that user is there. A channel is its id.

### Opus, VoiceUplink, VoiceDownlink, AudioBridge

One voice connection. `Opus` is the duration arithmetic of `bridge.rs` on the
first two bytes of a packet. In `VoiceUplink` the browser's stream is kept as it
was recorded (`sent`, with true places and media times); RTP carries remainders
of them, and the network delivers any packet any number of times (`Arrive`).
`Admits` and `FrameOf` are `UplinkClock::packet`, `EndFrame` is `end_frame`,
`EndTalk` the 50 ms tick that finds 200 ms of silence. Wall time is left out:
`Skip` may call any packet stale, and the tick may come at any time. `Near` is
what the clock needs: 2^15 packets are not lost in a row, and no pause lasts half
the timestamp's range. `newest`, `endLost`, `spoken.talk` and `received` are
history or bounds: they enter properties and what the environment may do, never
what the program does.

In `VoiceDownlink` `Stamp` is `SpeakerTracks::write` up to the release of its
lock, `WriteRtp` the rest; `Add` and `Remove` of the event task come between.
The time since a clock's last packet is any member of `Elapsed`. A Mumble client
starts its frame numbers over after five seconds of silence, and no older packet
arrives after that (`Recent`). It starts over before its numbers reach half the
range of the RTP timestamp, which is 12 hours of talk without such a pause.

`AudioBridge` joins them. The two directions share no data; each task's end
closes a channel of the next one.

### Config, TurnService, ServerRun

`Config` evaluates a file with placeholders and an environment the way
`Config::load` does (`Expanded`, `Overridden`, `Loads`); `Valid` is `validate`.
`Ports` and `Needed` say what the program binds with a configuration.
`TurnService` has the accept loops and a task per stream (`task`: `handshake`,
`ready`, `made`, `serving`, `closing`, `done`). Between `made` and `serving` the
server already answers requests and is not yet in `servers`. An allocation is
made in two steps, authentication and `allocate_conn`, as in the turn crate,
which is external; its `close()` is assumed to have released the server's sockets
and allocations when it returns. An allocation belongs to a server and a
username. A username is known by its phase: `new`, stored (`fresh` with more than
90 s left, `old`, `expired`), `purged` by an `issue_at` after it expired, or
`revoked`. `Issue`, `Clock` and `Authentic` are `issue_at`, `unix_time` and
`authenticate_at` on phases; what `TurnCredentials` shows of the times is not
repeated. A client address can have one allocation, so a stream has one at most.
`call`, `names`, `targets` and `pending` are one call of `revoke`: it takes the
usernames that are stored (`Revoke`), collects the servers (`CollectServers`), and
for one username after the other waits for all of them (`NextName`, `Delete`,
`DeleteTimesOut`). Handlers and event tasks call it beside each other. `due` and
`late` are history: what the session had on servers in service when the call began
(other than under usernames an earlier call had taken, which are that call's), and
what took more than a second. `ServerRun` is `main` and `run()`, one stage per
step that can fail.

### TurnStream

Several tasks send through one `StreamConn`, another one reads. A byte is known
by its frame and its place in it, so the reader can be seen to put a frame
together from the wrong bytes. Where it reads a header that is none (after a
frame was cut off), it finds any type and length: an error or `Garbage`.
`send` does not ask whether the stream is closed, so a sender that waited for the
lock writes behind a cut frame; the property is that such a stream ends.

## Runs

| Run | Shows | Instance | Distinct states |
| --- | --- | --- | --- |
| `lifecycle_safety` | terminal errors after release, no dead map entries, every credential has a revoker, entries removed by their owner only | 1 connection, 2 `connect_user` calls in sequence or at the same time, 2 permits | 171,740 |
| `lifecycle_capacity` | an admitted browser is never refused for capacity; `SessionRegistry` implemented | 2 connections, 1 connect each, 1 permit | 652,160 |
| `lifecycle_cleanup` | a handler that leaves ends with nothing left; a lost Mumble connection ends the WebSocket; a reconnect keeps its credentials; `close()` returns | 1 connection, 2 connects, 1 permit, server stop | 123,204 |
| `credentials` | at most two entries per session; nothing dropped early; a browser always holds a credential that is accepted | 2 sessions, one of them a browser with its clock ahead, server clock set at will | 242,067 |
| `negotiation` | one negotiation at a time, no early or forgotten candidate, tracks follow the roster, restarts remembered and served, speakers heard | 2 speakers, 2 moves, 1 restart, 2 candidates, failing peer calls | 557,550 |
| `audio_bridge` | both clocks keep order and spacing over wraps, losses and pauses; a talk is ended; no task outlives the others | 3 packets up, or 2 packets and 4 receptions down, over 2 tracks of a speaker | 321,755 |
| `server_run` | no accepted configuration competes with itself for a port; nothing left at the end; revocation; slots come back; `close()` returns | 8 files, 55 environments, 1 stream, 1 session with 2 usernames, 1 call of `revoke` | 89,804 |
| `turn_stream` | frames arrive whole, in order and without waiting for padding; a stream with a cut frame ends | 2 senders, 2 frames of 4 kinds | 71,034 |
| `roster_users` | users delivered, speakers are the others, chat under the right name | 2 users, 2 fields, 5 packets | 274,514 |

Three runs check a claim of the repository that the code does not keep:

* `voice_after_teardown`: a voice-setup task that is being polled while teardown
  aborts it takes the mutex afterwards and installs its bridge in the closed
  session. It lasts until the last reference to the session is dropped.
* `close_leaves_session`: `connect_user` reads the shutdown flag before its setup
  and not again; `close()` reads the map's keys once. A connect under way is
  inserted after it.
* `channel_updated_replaces`: the server sends the one channel that changed,
  `client.html` takes it for the list of all.

Where a run has no deadlock check, the instance really may come to rest: the
bounds on packets, frames, moves, restarts, issued credentials or time are used
up, the browser has left, or the process has ended. `SessionLifecycle` has an explicit `Done` step for its
legitimate ends (the process has exited, or every task has ended), and is
checked for deadlock everywhere else.

### Bounds, and why they are enough

* Two generations of one connection are what `Arc::ptr_eq`, the revocation by
  `conn_id` and a reconnect are about; a third would repeat the relation of the
  first two. Two connections matter for capacity only, where one permit makes
  them compete. A server stop is explored while the second generation is unused
  (`StopsWithOne`): `close()` meets a connect, a teardown or a voice setup of one
  session. A stop during a reconnect is covered by the proofs of the invariants,
  not by the liveness properties. The invariants of these runs are also proved,
  for any number of connections, generations and permits, with and without direct
  callers and a stop.
* `Ttl = 6, Reuse = 3, Lead = 2, Delay = 1` keep the order of 300, 90, 60 and
  15 s as far as the properties use it: `Ttl >= 2 * Reuse`, `Delay < Lead`,
  `2 * Delay + 1 <= Reuse`. The proof needs these inequalities only.
* `MaxPending = 1` instead of 128 lets the candidate queue fill up. Two moves and
  a restart let a request meet an unanswered offer, and another meet the
  offer that makes up for it.
* Two fields let a packet carry one and leave the other. Five packets are a
  user's own record, the sync and three more, one of which may be before the
  sync.
* `SeqMod = 8`, starting at 5, and `TsMod = 2^17`, starting 20 ms before the wrap,
  make both counters of RTP wrap within three packets; like 2^32, 2^17 is no
  multiple of 480. A channel of one item is full at once. `OneDirection` lets one
  direction talk per behaviour, since they share no data; the ends of the tasks
  are explored with either. The proofs have no such bounds.
* Every file meets every environment in `server_run`; the service itself is
  explored with two configurations (`FewServed`), with and without TURN. With one
  stream the slots of a listener are given back but never all taken; the proofs
  hold for any number of streams, sessions, usernames and calls of `revoke`.
  Two usernames let one be `purged` when the other is made. Credentials are used
  with a plain TCP stream or UDP, and age while that stream is served
  (`FewCredentials`); a handshake that hangs is explored without them. With two
  calls of `revoke` the invariants were checked on 1,127,958 states, beside the run.
* In `turn_stream` the kinds are STUN, ChannelData that needs padding, that needs
  none, and one that is longer than the reader's buffer. TCP takes 3 bytes at a
  time or all that is left, which cuts headers, payloads and padding.
* Symmetry is used for the generations of one connection in `lifecycle_safety`,
  which has no liveness property; the specification treats them alike.

### Fairness

* `SessionLifecycle`: tokio polls every task that is ready, so the steps of
  tasks, of teardown and of `close()` are weakly fair; the waits of
  `connect_user` and of the voice setup have time limits. `Stop` is strongly fair:
  the handler's `select!` is not biased, so a client that keeps sending cannot
  make it miss a closed send task or the stop signal for ever. Clients, the
  Mumble server and the signal are not assumed to do anything.
* `Negotiation`: the handler, the event task and the peer connection's callback
  run, and the browser handles the messages it gets. It need not send candidates
  or ask for restarts.
* `AudioBridge`: the three tasks run. Nobody has to talk, and no packet has to
  arrive.
* `ServerRun`: tasks run, `turn.close()` reaches every task, an allocation that
  cannot be refreshed expires (`Settle`, per username: its credential expired or
  left the store), and a handshake ends within its 10 s. Nobody has to
  connect, finish a handshake in time, or send the signal, and no deletion has to
  be carried out.
* `TurnStream`: the reader reads what has come and sees the end of the stream; a
  server closes a connection that reports closed. Writers may hang for ever.

## Proofs

TLAPS proves, for all values of the constants that the named assumptions allow:

* `SessionLifecycleProofs`: `Typing`, `RegisteredServed`,
  `TerminalReleased`, `CredentialRevoked`. None of the last three is inductive alone. `IInv` adds how
  stage, permit, `closed` and event task of a generation hang together (`Life`);
  that the map holds live sessions of the right connection (`Placed`); that what
  `disconnect_user` works on is out of the map (`Removers`), so that closing it
  makes no registered session dead; and that a reported generation is past its
  setup (`Reported`), so that it never takes a permit again. There is one lemma
  per task, with one case per action. Most actions are one of three kinds of step
  (`HandlerMove`, `StageMove`, `EventMove`), each shown once to preserve `IInv`;
  the others are taken apart conjunct by conjunct.
  For the rest, only handlers call `connect_user`. `Owned` says who answers for each
  permit (`HeldBy`: the handler that awaits `connect_user`, the map, or the handler
  in `disconnect_user`), hence that nothing is connected for a handler that has
  begun to end. `ReconnectKeepsCredentials` is the property `LiveCredentialKept`:
  an old session's event task revokes by connection, and by then the session is out
  of the map. `Noticed` says what the browser knows: an event task that ends the
  registered session has a terminal error to report (`Warned`), for which a lost
  Mumble connection must still be queued (`Announced`); and when a session has left
  the map, its browser is told or its handler is ending (`Left`), so that a
  registered, open session of that connection is doomed already. `Credited` adds
  that credentials are issued under the session's own connection.
* `SessionRegistryProofs`: `Accounting` (free permits and holders add up, for both
  semaphores), and from it and `Owned` `AdmittedIsServed`, assuming that only handlers
  call `connect_user`. Every holder belongs to a connection of its own which is not the one that asks, so there are
  fewer holders than open WebSockets, and these are at most `MaxConnections`.
  Then `Refinement` (the session model implements the registry, step by step)
  and `EntryOwned`.
* `TurnCredentialsProofs`: `Typing`; `StoreBounded` from `Spaced` (two entries of
  a session expire at least `Ttl - Reuse` and less than `Ttl` apart, and three
  such entries do not fit when `Ttl >= 2 * Reuse`); `CredentialsKept`, action by
  action, from the types alone;
  `BrowsersCovered` from `Covering` (each held credential is stored until it
  expires, and the timer or an `ice_refresh` that will be answered in time is
  due before that). `config.rs` requires a lifetime of 300 s or more, which gives
  `TtlAssumption`; `TimerAssumption` asks that the browser's clock is not behind
  by more than 60 s less the time of an answer.
* `NegotiationProofs`: `Typing`, `OneAtATime`, `TracksFollow`, `RestartsKept`,
  `CandidatesWait`, for any speakers, moves, restarts and candidates and any limit
  of the candidate queue. The invariant has a part
  per thread of the exchange: the one offer or answer and what the browser does
  with it (`Exchange`); that no candidate is numbered beyond the last offer, and
  that between two exchanges the remote description is that of the last offer
  (`Numbered`); that only users who are there have a track (`Tracked`); and that
  every offer covers requests that were handled and not yet served
  (`Restarted`).
* `MumbleRosterProofs`: `Typing`, `RosterDelivered`, `SpeakersFollow`,
  `ChatKeepsName`, for any users, fields, values and number of packets. The
  properties speak of moments at which the queues are empty. `Linked` speaks of
  all others: a queue *leads* from one roster to another when its entries, applied
  one after the other, take the first to the second; the WebSocket queue leads
  from what the browser shows to what the event task knows, and the event channel
  from there to the Mumble server's users. `Login` says what is there before the
  sync.
* `ServerRunProofs`: `PortsDisjoint` from a lemma about `validate` alone.
  `EndsClean` and `RevocationDeletes` from an invariant of six parts: types; each
  TURN socket belongs to the task that will drop it, and none of them is there
  before the start (`Owned`); a listener that is done has no streams left
  (`Awaited`); every server in service is in the list (`Listed`); allocations and
  requests are on running servers and under usernames that were handed out
  (`Hosted`); and for each call of `revoke`, what it had to delete is under a
  username that is `purged`, or that the call took. In the second case it is gone,
  or its username has still to come up and its server is among those collected, or
  the call waits for that server or gave it up (`Accounted`). `StoreMoves` is why
  this lasts: a username that left the store never returns to it, so nothing new
  is allocated under it, beyond requests that were authenticated before, which
  `Accounted` keeps apart.
* `AudioBridgeProofs`: `UplinkTyping`, `NewerTaken`, `GapsKept`, `NumbersGrow`,
  `TalkEnded`, for every width of RTP's fields, every first sequence number and
  timestamp, every capacity and every stream whose packets and pauses are multiples
  of 10 ms (`MediaAssumption`; the clock refuses others). The invariant ties
  the clock's remainders to the packet it took last (`ClockSet`), and the number
  of everything on its way to media time (`Numbered`); `Recorded` says that the
  browser's packets do not overlap. Wrapping subtraction is dealt with once, in
  `ModDifference`: the difference of two remainders is the difference of the
  numbers as long as these are less than the modulus apart.
* `AudioBridgeProofs`, the other direction: `DownlinkTyping`, `TracksInSequence`,
  `AudioApart`, `SpacingStays`, for any speakers, tracks, losses, repetitions and
  orders of arrival. A packet is stamped under the lock and written after it, so
  a track and the clock that stamps it differ in between. `DownlinkInv` says that
  numbers of one talk grow at least by the audio between them (`Lasts`,
  `Ordered`), that the channel holds packets that were said (`Arrivals`), that a
  track belongs to one speaker at most (`Owns`), that clock and track agree unless
  the packet is still to be written (`InStep`), and that the one packet being
  written follows what is on its track, whoever owns that by now (`Pending`).
  Assumed are audio in multiples of 10 ms up to 120 ms (`VoiceAssumption`, as Mumble
  numbers it), counters that can tell forward from backward over one packet
  (`RtpAssumption`), and no pause or numbering of 12 hours (`ElapsedAssumption`,
  the guard of `Talk`).
* `TurnStreamProofs`: `Typing` and `FramesStayWhole`, for any senders and frames,
  any payload lengths, and every way in which TCP cuts the bytes. `FramesIntact`
  speaks of frames that were returned. `Aligned` says where the others are: there
  are offsets in the bytes still to be read, the first at the reader, each next
  one a padded length further, and up to the first failed send the frames fill
  the stream without a gap. `Locking` ties the mutex of the writer to what is left
  of the frame it writes, and `Returned` the frames returned to those begun.

The proofs of `AdmittedIsServed`, `Accounting` and the refinement use that `Conns`
and `Gens` are finite.

The inductive invariants were model-checked before they were proved, on the
instances of the runs: 557,550 states of `Negotiation`, 274,514 of `MumbleRoster`,
321,755 of `AudioBridge`, 71,034 of `TurnStream`, 123,204 of `SessionLifecycle` for
`Noticed`.

The type invariants are proved and not among the runs' properties. Only
model-checked: the liveness properties (`LeaveCleansUp`,
`LostMumbleEndsWebSocket`, `StopReturns`, `RestartsServed`, `SpeakersHeard`,
`CandidatesDrained`, `UplinkEndsAll`, `RevokedForGood`, `SlotComesBack`,
`CloseReturns`, `FramesArrive`, `FailedStreamEnds`; TLAPS does not reason about
fairness). Every safety and action property of the passing runs is proved.
`OpusAgrees`, an assumption of `MCAudioBridge`, compares the
arithmetic of `Opus` with the table of RFC 6716 for all first two bytes.

## What the models show about the code

Beside the three violations, behaviour that a reader of the code may not expect:

* An end of talk that meets a full channel is lost, and no second one is sent
  (`endLost`; `TalkEnds` is about the others).
* A late packet after `last_frame` counts as the first of a new talk in
  `MediaClock` and is played; within a talk late packets are dropped
  (`SpacingKept` is about packets without the marker).
* `revoke` asks the store for usernames, and `issue_at` removes expired ones of
  every session from it (`credentials.rs:61`). An allocation outlives its
  credential by up to its own lifetime. If some browser gets credentials in that
  time, the owner's `revoke` no longer knows the username and deletes nothing
  under it. The repository's `README.md:132` says "Session teardown explicitly deletes
  allocations", and `docs/frontend-api.md:84` that a disconnect revokes the
  credentials "及其 allocations" (and their allocations). `RevokeDeletes` without
  its case for `purged` is violated, by a trace of 23 states: issue, allocate, age,
  expire, issue again, revoke, return. With the case it is proved.
* Of the usernames it has, `revoke` deletes what is on servers in service at that
  moment. It misses an allocation on a server that is not in the list yet, a
  request that was authenticated before, and a server that takes longer than a
  second. A second `revoke` of the same session finds no usernames and returns
  while the first may still be deleting.
* Nothing of all this stays for good: an allocation whose username has left the
  store cannot be refreshed (`RevokedForGood`).
* An `accept()` error ends a listener, and `ice_config` goes on advertising it.
* After a failed send other senders may still write to the stream before it ends.

## Not modelled

* The relay's address check: a comparison on each packet, without state.
* Outgoing Mumble commands, pings and login packets, encryption and UDP framing:
  queued and forgotten, or in other crates.
* JSON, HTTP routes, the origin test, the readiness probe's answer, logging and
  rendering in the browser: they keep no state that another part depends on.
* The map's lock and the session mutex as locks of their own where they are held for
  a lookup or during calls of the peer connection: such stretches are one step, so
  `StopReturns` says nothing about the order in which the two are taken.
* Certificates and their files: a TLS set-up that fails is `StartFails`.
* Pauses beyond 12 hours in a talk, talks of 12 hours, and 2^15 packets lost in a row, which RTP's
  counters cannot express (`ElapsedAssumption`, `Talk`, `Near`).
* The contents of channels. `handle_control_packet` reads a ChannelState as a
  complete record, also when it carries only a change. Of a removed channel the
  browser is not told at all (`ChannelRemoved`), and it has no message to ask.
