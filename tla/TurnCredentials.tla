--------------------------- MODULE TurnCredentials ---------------------------
(***************************************************************************)
(* The TURN credential store, Credentials, and the browsers that keep      *)
(* their credentials fresh with client.html's ice_refresh timer.           *)
(*                                                                         *)
(* A username ("<expiry>:<uuid>") is a number that is used once; password  *)
(* and key are functions of the entry and left out, as is the realm, which *)
(* is one constant on both sides.  Time is counted in units that divide    *)
(* the code's 90 s, 60 s and 15 s.                                         *)
(***************************************************************************)
EXTENDS Integers, Sequences

CONSTANTS Sessions,    \* conn_ids
          Browsers,    \* those that client.html drives
          Ttl,         \* config.turn.credential_ttl_secs, 300 or more
          Reuse,       \* 90 s: issue_at hands out a credential with more left
          Lead,        \* 60 s: client.html asks so long before the expiry
          Delay,       \* bound on an ice_refresh and its answer (15 s)
          Skew,        \* per browser: Date.now() minus the server's time
          ClockSteps,  \* may the server's wall clock be set?
          MaxTime, MaxIssued, MaxAsks  \* bounds on the instance

ASSUME TtlAssumption ==
  Ttl \in Nat /\ Reuse \in Nat \ {0} /\ Ttl >= 2 * Reuse
ASSUME BrowsersAssumption == Browsers \subseteq Sessions
ASSUME TimerAssumption ==
  Browsers # {} =>
    /\ Lead \in Nat /\ Delay \in Nat /\ 2 * Delay + 1 <= Reuse
    /\ Skew \in [Browsers -> Int]
    /\ \A s \in Browsers : Delay < Lead + Skew[s]
ASSUME BoundsAssumption ==
  MaxTime \in Nat /\ MaxIssued \in Nat /\ MaxAsks \in Nat

VARIABLES now,      \* unix_time()
          entries,  \* Credentials.entries
          issued,   \* usernames made so far
          state,    \* per browser: "off", "up" or "gone"
          held,     \* per browser: the credential in iceServers, if any
          timer,    \* per browser: when iceRefreshTimer fires, if it is set
          asks,     \* per browser: send times of the ice_refreshes under way
          replies   \* per browser: configurations on their way back

browserVars == <<state, held, timer, asks, replies>>
vars == <<now, entries, issued, browserVars>>

Credential == [user : Nat, session : Sessions, expires_at : Int]
Reply == [since : Nat, credential : Credential]

Init ==
  /\ now = 0 /\ entries = {} /\ issued = 0
  /\ state = [s \in Browsers |-> "off"] /\ held = [s \in Browsers |-> {}]
  /\ timer = [s \in Browsers |-> {}] /\ asks = [s \in Browsers |-> <<>>]
  /\ replies = [s \in Browsers |-> <<>>]

-----------------------------------------------------------------------------
(* Credentials.                                                            *)

\* entries.retain(|_, c| c.expires_at > now)
Unexpired == {c \in entries : c.expires_at > now}

\* Mutant: a credential is handed out again until it expires.
ReusableToTheEnd(s) == {c \in Unexpired : c.session = s /\ c.expires_at > now}
\* Mutant: nothing is handed out again.
NeverReusable(s) == {c \in Unexpired : c.session = s /\ c.expires_at > now + Ttl}

\* The entries issue_at may find for s.
Reusable(s) == {c \in Unexpired : c.session = s /\ c.expires_at > now + Reuse}

Fresh(s) == [user |-> issued, session |-> s, expires_at |-> now + Ttl]

\* issue_at returns c: an entry with enough time left, or a new one.
Issue(s, c) ==
  \/ /\ c \in Reusable(s)
     /\ entries' = Unexpired /\ UNCHANGED issued
  \/ /\ Reusable(s) = {} /\ issued < MaxIssued /\ c = Fresh(s)
     /\ entries' = Unexpired \cup {c} /\ issued' = issued + 1

\* authenticate_at
Accepts(user) == \E c \in entries : c.user = user /\ c.expires_at > now

\* connected and ice_refresh of clients other than client.html.
Refresh(s) ==
  /\ s \notin Browsers
  /\ \E c \in Reusable(s) \cup {Fresh(s)} : Issue(s, c)
  /\ UNCHANGED <<now, browserVars>>

\* The WebSocket ends with the session, and cleanup() stops the timers.
Leaves(s) ==
  /\ state' = [b \in Browsers |-> IF b = s THEN "gone" ELSE state[b]]
  /\ held' = [b \in Browsers |-> IF b = s THEN {} ELSE held[b]]
  /\ timer' = [b \in Browsers |-> IF b = s THEN {} ELSE timer[b]]
  /\ asks' = [b \in Browsers |-> IF b = s THEN <<>> ELSE asks[b]]
  /\ replies' = [b \in Browsers |-> IF b = s THEN <<>> ELSE replies[b]]

\* Mutant: revoke empties the store.
RevokeAll(s) == entries' = {} /\ Leaves(s) /\ UNCHANGED <<now, issued>>

\* revoke, by the handler or by the event task.
Revoke(s) ==
  /\ entries' = {c \in entries : c.session # s}
  /\ Leaves(s) /\ UNCHANGED <<now, issued>>

-----------------------------------------------------------------------------
(* client.html.                                                            *)

\* process_events sends connected with a configuration.
Connected(s) ==
  /\ state[s] = "off"
  /\ state' = [state EXCEPT ![s] = "up"]
  /\ \E c \in Reusable(s) \cup {Fresh(s)} :
       /\ Issue(s, c)
       /\ replies' = [replies EXCEPT
                        ![s] = Append(@, [since |-> now, credential |-> c])]
  /\ UNCHANGED <<now, held, timer, asks>>

\* refresh_ice answers an ice_refresh.
Answer(s) ==
  /\ state[s] = "up" /\ asks[s] # <<>>
  /\ asks' = [asks EXCEPT ![s] = Tail(@)]
  /\ \E c \in Reusable(s) \cup {Fresh(s)} :
       /\ Issue(s, c)
       /\ replies' = [replies EXCEPT ![s] =
                        Append(@, [since |-> Head(asks[s]), credential |-> c])]
  /\ UNCHANGED <<now, state, held, timer>>

\* Math.max(1000, expires_at * 1000 - Date.now() - 60000) from now.
FiresAt(s, c) ==
  LET t == c.expires_at - Skew[s] - Lead IN IF t > now THEN t ELSE now + 1

\* applyIceConfig
ApplyIceConfig(s) ==
  /\ state[s] = "up" /\ replies[s] # <<>>
  /\ LET c == Head(replies[s]).credential IN
       /\ held' = [held EXCEPT ![s] = {c}]
       /\ timer' = [timer EXCEPT ![s] = {FiresAt(s, c)}]
  /\ replies' = [replies EXCEPT ![s] = Tail(@)]
  /\ UNCHANGED <<now, entries, issued, state, asks>>

\* iceRefreshTimer sends ice_refresh.
TimerFires(s) ==
  /\ state[s] = "up" /\ now \in timer[s]
  /\ timer' = [timer EXCEPT ![s] = {}]
  /\ asks' = [asks EXCEPT ![s] = Append(@, now)]
  /\ UNCHANGED <<now, entries, issued, state, held, replies>>

\* recoveryTimer does, after ICE was disconnected or failed.
Recover(s) ==
  /\ state[s] = "up" /\ held[s] # {}
  /\ Len(asks[s]) + Len(replies[s]) < MaxAsks
  /\ asks' = [asks EXCEPT ![s] = Append(@, now)]
  /\ UNCHANGED <<now, entries, issued, state, held, timer, replies>>

-----------------------------------------------------------------------------
\* What a browser waits for has not run out: a timer fires when it is due,
\* and an ice_refresh is answered within Delay.
Timely(s) ==
  state[s] = "up" =>
    /\ \A t \in timer[s] : now < t
    /\ \A i \in 1 .. Len(asks[s]) : now < asks[s][i] + Delay
    /\ \A i \in 1 .. Len(replies[s]) : now < replies[s][i].since + Delay

Tick ==
  /\ now < MaxTime /\ \A s \in Browsers : Timely(s)
  /\ now' = now + 1
  /\ UNCHANGED <<entries, issued, browserVars>>

\* SystemTime is not monotonic.  A browser that is connected while the clock
\* is set may lose its credential; what is said of browsers leaves that out.
SetClock ==
  /\ ClockSteps /\ \A s \in Browsers : state[s] # "up"
  /\ now' \in 0 .. MaxTime
  /\ UNCHANGED <<entries, issued, browserVars>>

Next ==
  \/ Tick \/ SetClock
  \/ \E s \in Sessions : Refresh(s) \/ Revoke(s)
  \/ \E s \in Browsers : \/ Connected(s) \/ Answer(s) \/ ApplyIceConfig(s)
                         \/ TimerFires(s) \/ Recover(s)

Spec == Init /\ [][Next]_vars

-----------------------------------------------------------------------------
(* Properties.                                                             *)

\* Type invariant; a browser is handed credentials of its own session only.
TypeOK ==
  /\ now \in Nat /\ entries \subseteq Credential /\ issued \in Nat
  /\ state \in [Browsers -> {"off", "up", "gone"}]
  /\ held \in [Browsers -> SUBSET Credential]
  /\ timer \in [Browsers -> SUBSET Int]
  /\ asks \in [Browsers -> Seq(Nat)] /\ replies \in [Browsers -> Seq(Reply)]
  /\ \A s \in Browsers :
       /\ \A c \in held[s] : c.session = s
       /\ \A i \in 1 .. Len(replies[s]) : replies[s][i].credential.session = s

\* "Repeated refresh requests reuse the current credential instead of growing
\* state": a session never has more than two entries, the current one and the
\* one before it, however often it asks and however the clock is set.
AtMostTwo ==
  \A c, d, e \in entries :
    c.session = d.session /\ d.session = e.session => c = d \/ d = e \/ c = e

\* A revocation of s that leaves what other sessions have, expired or not.
RevokesOnly(s) ==
  Revoke(s) /\ \A c \in entries : c.session # s => c \in entries'

OnlyExpiredOrRevoked ==
  \A c \in entries : c \notin entries' => c.expires_at <= now \/ RevokesOnly(c.session)

\* "Keep the previous credential valid during an ICE restart": a credential
\* leaves the store when it has expired or when its own session is revoked.
\* Neither issue_at, for whichever session, nor the revocation of another one
\* takes it away before.
KeptUntilExpiry == [][OnlyExpiredOrRevoked]_vars

\* While its session lasts, a browser's iceServers hold a credential that the
\* TURN server accepts.  It needs the timer's 60 s to exceed
\* the answer time plus the clock difference, and issue_at's 90 s to leave
\* room for an early timer that is handed the same credential again.
BrowserCovered ==
  \A s \in Browsers : state[s] = "up" =>
    \A c \in held[s] : Accepts(c.user)
=============================================================================
