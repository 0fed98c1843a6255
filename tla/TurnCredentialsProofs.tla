------------------------ MODULE TurnCredentialsProofs ------------------------
(***************************************************************************)
(* Proofs about TurnCredentials, for every set of sessions, every lifetime *)
(* and every clock difference that the assumptions of the module allow.    *)
(***************************************************************************)
EXTENDS TurnCredentials, SequenceTheorems, TLAPS

\* The first element of a queue and the rest of it.
LEMMA Dequeue ==
  ASSUME NEW S, NEW q \in Seq(S), q # <<>>
  PROVE  /\ 1 \in 1 .. Len(q) /\ Head(q) = q[1] /\ Head(q) \in S
         /\ Tail(q) \in Seq(S) /\ Len(Tail(q)) = Len(q) - 1
         /\ \A i \in 1 .. Len(Tail(q)) : i + 1 \in 1 .. Len(q) /\ Tail(q)[i] = q[i + 1]
<1>1. Len(q) \in Nat /\ Len(q) # 0
  OBVIOUS
<1>2. Tail(q) \in Seq(S) /\ Len(Tail(q)) = Len(q) - 1
  BY <1>1
<1>3. ASSUME NEW i \in 1 .. Len(Tail(q)) PROVE Tail(q)[i] = q[i + 1]
  BY <1>1, <1>2
<1>4. Head(q) = q[1] /\ 1 \in 1 .. Len(q)
  BY <1>1
<1>5. Head(q) \in S
  BY <1>1, <1>4
<1> QED BY <1>1, <1>2, <1>3, <1>4, <1>5

\* applyIceConfig sets the timer to a later moment.
LEMMA FiresLater ==
  ASSUME TypeOK, NEW s \in Browsers, NEW c \in Credential
  PROVE  /\ FiresAt(s, c) \in Int /\ FiresAt(s, c) > now
         /\ \/ FiresAt(s, c) = c.expires_at - Skew[s] - Lead
            \/ FiresAt(s, c) = now + 1
BY TimerAssumption DEF FiresAt, Credential, TypeOK

\* What issue_at returns is of the asking session, has more than 90 s left,
\* and is in the store; nothing unexpired leaves the store.
LEMMA IssueEffect ==
  ASSUME TypeOK, NEW s \in Sessions, NEW c, Issue(s, c)
  PROVE  /\ c \in Credential /\ c.session = s /\ c \in entries'
         /\ c.expires_at > now + Reuse
         /\ entries' \subseteq entries \cup {c} /\ Unexpired \subseteq entries'
         /\ issued' \in Nat /\ entries' \subseteq Credential
<1> USE TtlAssumption DEF Issue, TypeOK, Reusable, Unexpired, Fresh, Credential
<1>1. CASE c \in Reusable(s) /\ entries' = Unexpired /\ UNCHANGED issued
  BY <1>1
<1>2. CASE /\ c = Fresh(s) /\ issued' = issued + 1
           /\ entries' = Unexpired \cup {c}
  <2>1. c.expires_at = now + Ttl /\ c.session = s /\ c \in Credential
    BY <1>2
  <2> QED BY <1>2, <2>1
<1> QED BY <1>1, <1>2

\* Every state is well typed, and no browser is handed another session's
\* credential.
THEOREM Typing == Spec => []TypeOK
<1>1. Init => TypeOK
  BY DEF Init, TypeOK
<1>2. TypeOK /\ [Next]_vars => TypeOK'
  <2> SUFFICES ASSUME TypeOK, [Next]_vars PROVE TypeOK'
    OBVIOUS
  <2> USE BrowsersAssumption DEF browserVars
  <2>1. CASE Tick \/ SetClock
    BY <2>1, BoundsAssumption DEF Tick, SetClock, TypeOK
  <2>2. ASSUME NEW s \in Sessions, Refresh(s) PROVE TypeOK'
    <3>1. issued' \in Nat /\ entries' \subseteq Credential
      BY <2>2, IssueEffect DEF Refresh
    <3> QED BY <2>2, <3>1 DEF Refresh, TypeOK
  <2>3. ASSUME NEW s \in Sessions, Revoke(s) PROVE TypeOK'
    BY <2>3 DEF Revoke, Leaves, TypeOK
  <2>4. ASSUME NEW s \in Browsers, Connected(s) PROVE TypeOK'
    <3>1. PICK c : /\ Issue(s, c)
                   /\ replies' = [replies EXCEPT ![s] =
                        Append(@, [since |-> now, credential |-> c])]
      BY ZenonT(30), <2>4 DEF Connected
    <3>2. c \in Credential /\ c.session = s /\ issued' \in Nat
          /\ entries' \subseteq Credential
      BY <3>1, IssueEffect
    <3>3. [since |-> now, credential |-> c] \in Reply
      BY <3>2 DEF Reply, TypeOK
    <3> QED BY <2>4, <3>1, <3>2, <3>3 DEF Connected, TypeOK
  <2>5. ASSUME NEW s \in Browsers, Answer(s) PROVE TypeOK'
    <3>1. PICK c : /\ Issue(s, c)
                   /\ replies' = [replies EXCEPT ![s] =
                        Append(@, [since |-> Head(asks[s]), credential |-> c])]
      BY ZenonT(30), <2>5 DEF Answer
    <3>2. c \in Credential /\ c.session = s /\ issued' \in Nat
          /\ entries' \subseteq Credential
      BY <3>1, IssueEffect
    <3>3. [since |-> Head(asks[s]), credential |-> c] \in Reply
      BY <2>5, <3>2 DEF Reply, TypeOK, Answer
    <3> QED BY <2>5, <3>1, <3>2, <3>3 DEF Answer, TypeOK
  <2>6. ASSUME NEW s \in Browsers, ApplyIceConfig(s) PROVE TypeOK'
    <3> DEFINE r == Head(replies[s])
    <3>1. replies[s] \in Seq(Reply) /\ replies[s] # <<>>
      BY <2>6 DEF ApplyIceConfig, TypeOK
    <3>2. /\ r.credential \in Credential /\ r.credential.session = s
          /\ Tail(replies[s]) \in Seq(Reply)
          /\ \A i \in 1 .. Len(Tail(replies[s])) :
               Tail(replies[s])[i].credential.session = s
      <4>1. r \in Reply /\ r = replies[s][1] /\ 1 \in 1 .. Len(replies[s])
        BY <3>1, Dequeue
      <4>2. r.credential \in Credential /\ r.credential.session = s
        BY <4>1 DEF Reply, TypeOK
      <4>3. \A i \in 1 .. Len(Tail(replies[s])) :
              i + 1 \in 1 .. Len(replies[s])
              /\ Tail(replies[s])[i] = replies[s][i + 1]
        BY <3>1, Dequeue
      <4> QED BY <3>1, <4>2, <4>3, Dequeue DEF TypeOK
    <3>3. FiresAt(s, r.credential) \in Int
      BY <3>2, FiresLater
    <3> HIDE DEF r
    <3>4. /\ held' = [held EXCEPT ![s] = {r.credential}]
          /\ timer' = [timer EXCEPT ![s] = {FiresAt(s, r.credential)}]
          /\ replies' = [replies EXCEPT ![s] = Tail(@)]
          /\ UNCHANGED <<now, entries, issued, state, asks>>
      BY <2>6 DEF ApplyIceConfig, r
    <3> QED BY ZenonT(30), <3>2, <3>3, <3>4 DEF TypeOK
  <2>7. ASSUME NEW s \in Browsers, TimerFires(s) PROVE TypeOK'
    BY <2>7 DEF TimerFires, TypeOK
  <2>8. ASSUME NEW s \in Browsers, Recover(s) PROVE TypeOK'
    BY <2>8 DEF Recover, TypeOK
  <2>9. CASE UNCHANGED vars
    BY <2>9 DEF vars, TypeOK
  <2> QED BY <2>1, <2>2, <2>3, <2>4, <2>5, <2>6, <2>7, <2>8, <2>9 DEF Next
<1> QED BY <1>1, <1>2, PTL DEF Spec

-----------------------------------------------------------------------------
(* The size of the store.                                                  *)

\* Two entries of a session expire at least Ttl - Reuse and less than Ttl
\* apart: issue_at adds one only when the others have at most Reuse left.
Spaced ==
  \A c, d \in entries : c.session = d.session /\ c # d =>
    \/ /\ Ttl - Reuse <= c.expires_at - d.expires_at
       /\ c.expires_at - d.expires_at < Ttl
    \/ /\ Ttl - Reuse <= d.expires_at - c.expires_at
       /\ d.expires_at - c.expires_at < Ttl

\* issue_at keeps the entries apart.
LEMMA IssueSpaced ==
  ASSUME TypeOK, Spaced, NEW s \in Sessions, NEW c, Issue(s, c)
  PROVE  Spaced'
<1>1. CASE entries' = Unexpired
  BY <1>1 DEF Spaced, Unexpired
<1>2. CASE /\ Reusable(s) = {} /\ c = Fresh(s)
           /\ entries' = Unexpired \cup {c}
  <2>1. c.expires_at = now + Ttl /\ c.session = s
    BY <1>2 DEF Fresh
  <2>2. \A d \in Unexpired : d.session = s =>
          /\ Ttl - Reuse <= c.expires_at - d.expires_at
          /\ c.expires_at - d.expires_at < Ttl
    <3> SUFFICES ASSUME NEW d \in Unexpired, d.session = s
                 PROVE  /\ Ttl - Reuse <= c.expires_at - d.expires_at
                        /\ c.expires_at - d.expires_at < Ttl
      OBVIOUS
    <3>1. now \in Nat
      BY DEF TypeOK
    <3>2. /\ d.expires_at > now /\ d.expires_at \in Int
          /\ d.expires_at <= now + Reuse
      BY <1>2, <3>1, TtlAssumption DEF Unexpired, Reusable, TypeOK, Credential
    <3> QED BY <2>1, <3>1, <3>2, TtlAssumption
  <2>3. \A d, e \in Unexpired : d \in entries /\ e \in entries
    BY DEF Unexpired
  <2> HIDE DEF Unexpired
  <2> QED BY <1>2, <2>1, <2>2, <2>3 DEF Spaced
<1> QED BY <1>1, <1>2 DEF Issue

\* Spaced holds in every state, also when the clock is set back and forth.
THEOREM Spacing == Spec => []Spaced
<1>1. Init => Spaced
  BY DEF Init, Spaced
<1>2. TypeOK /\ Spaced /\ [Next]_vars => Spaced'
  <2> SUFFICES ASSUME TypeOK, Spaced, [Next]_vars PROVE Spaced'
    OBVIOUS
  <2>1. ASSUME NEW s \in Sessions, NEW c, Issue(s, c) PROVE Spaced'
    BY <2>1, IssueSpaced
  <2>2. ASSUME NEW s \in Sessions, Refresh(s) PROVE Spaced'
    BY <2>1, <2>2 DEF Refresh
  <2>3. ASSUME NEW s \in Browsers, Connected(s) \/ Answer(s) PROVE Spaced'
    BY ZenonT(30), <2>1, <2>3, BrowsersAssumption DEF Connected, Answer
  <2>4. ASSUME NEW s \in Sessions, Revoke(s) PROVE Spaced'
    BY <2>4 DEF Revoke, Spaced
  <2>5. ASSUME UNCHANGED entries PROVE Spaced'
    BY <2>5 DEF Spaced
  <2> QED
    BY ZenonT(30), <2>2, <2>3, <2>4, <2>5 DEF Next, Tick, SetClock,
      ApplyIceConfig,
      TimerFires, Recover, vars
<1> QED BY <1>1, <1>2, Typing, PTL DEF Spec

\* No session has a third entry: it would expire Ttl or more after the first.
THEOREM StoreBounded == Spec => []AtMostTwo
<1>1. TypeOK /\ Spaced => AtMostTwo
  <2> SUFFICES ASSUME TypeOK, Spaced,
                      NEW c \in entries, NEW d \in entries, NEW e \in entries,
                      c.session = d.session, d.session = e.session,
                      c # d, d # e, c # e
               PROVE  FALSE
    BY DEF AtMostTwo
  <2>1. c.expires_at \in Int /\ d.expires_at \in Int /\ e.expires_at \in Int
    BY DEF TypeOK, Credential
  <2> DEFINE Apart(x, y) == Ttl - Reuse <= x - y /\ x - y < Ttl
  <2>2. /\ \/ Apart(c.expires_at, d.expires_at)
           \/ Apart(d.expires_at, c.expires_at)
        /\ \/ Apart(d.expires_at, e.expires_at)
           \/ Apart(e.expires_at, d.expires_at)
        /\ \/ Apart(c.expires_at, e.expires_at)
           \/ Apart(e.expires_at, c.expires_at)
    BY DEF Spaced
  <2> QED BY <2>1, <2>2, TtlAssumption
<1> QED BY <1>1, Typing, Spacing, PTL

\* For any sessions and however the clock is set, an entry goes when it has
\* expired or in a revocation of its own session, which leaves all others.
THEOREM CredentialsKept == Spec => KeptUntilExpiry
<1>1. TypeOK /\ [Next]_vars => [OnlyExpiredOrRevoked]_vars
  <2> SUFFICES ASSUME TypeOK, [Next]_vars PROVE OnlyExpiredOrRevoked
    OBVIOUS
  <2>1. ASSUME NEW s \in Sessions, NEW c, Issue(s, c)
        PROVE  OnlyExpiredOrRevoked
    <3>1. Unexpired \subseteq entries'
      BY <2>1, IssueEffect
    <3> QED BY <3>1 DEF OnlyExpiredOrRevoked, Unexpired, TypeOK, Credential
  <2>2. ASSUME NEW s \in Sessions, Refresh(s) PROVE OnlyExpiredOrRevoked
    BY <2>1, <2>2 DEF Refresh
  <2>3. ASSUME NEW s \in Browsers, Connected(s) \/ Answer(s)
        PROVE  OnlyExpiredOrRevoked
    BY ZenonT(30), <2>1, <2>3, BrowsersAssumption DEF Connected, Answer
  <2>4. ASSUME NEW s \in Sessions, Revoke(s) PROVE OnlyExpiredOrRevoked
    <3>1. entries' = {c \in entries : c.session # s}
      BY <2>4 DEF Revoke
    <3>2. RevokesOnly(s)
      BY <2>4, <3>1 DEF RevokesOnly
    <3>3. \A c \in entries : c \notin entries' => c.session = s
      BY <3>1
    <3> QED BY <3>2, <3>3, Zenon DEF OnlyExpiredOrRevoked
  <2>5. ASSUME UNCHANGED entries PROVE OnlyExpiredOrRevoked
    BY <2>5 DEF OnlyExpiredOrRevoked
  <2> QED
    BY ZenonT(30), <2>2, <2>3, <2>4, <2>5 DEF Next, Tick, SetClock,
      ApplyIceConfig,
      TimerFires, Recover, vars
<1> QED BY <1>1, Typing, PTL DEF Spec, KeptUntilExpiry

-----------------------------------------------------------------------------
(* The browsers.                                                           *)

\* In store E and at time n: a credential is stored until it has expired, ...
Stored(c, E, n) == c \in E \/ c.expires_at <= n
\* ... an ice_refresh is under way for at most Delay, ...
AskTimely(t, n) == t <= n /\ n <= t + Delay
\* ... and so is its answer, whose credential outlives it.
ReplyTimely(r, E, n) ==
  /\ AskTimely(r.since, n) /\ Stored(r.credential, E, n)
  /\ r.since + Reuse < r.credential.expires_at

\* Something due before c expires: the timer, or an ice_refresh under way.
InTime(s, c) ==
  \/ timer[s] # {}
  \/ \E i \in 1 .. Len(asks[s]) : asks[s][i] + Delay < c.expires_at
  \/ \E i \in 1 .. Len(replies[s]) : replies[s][i].since + Delay < c.expires_at

\* What keeps a browser covered.
Covering(s) ==
  /\ state[s] = "off" =>
       held[s] = {} /\ timer[s] = {} /\ asks[s] = <<>> /\ replies[s] = <<>>
  /\ state[s] = "up" =>
       /\ \A c \in held[s] : Stored(c, entries, now) /\ InTime(s, c)
       /\ \A t \in timer[s] : now <= t
       /\ \A t \in timer[s] : \A c \in held[s] : t + Delay < c.expires_at
       /\ \A i \in 1 .. Len(asks[s]) : AskTimely(asks[s][i], now)
       /\ \A i \in 1 .. Len(replies[s]) :
            ReplyTimely(replies[s][i], entries, now)
AllCovering == \A s \in Browsers : Covering(s)

\* A covered browser holds an unexpired credential that is in the store.
LEMMA CoveringCovers == TypeOK /\ AllCovering => BrowserCovered
<1> SUFFICES ASSUME TypeOK, AllCovering, NEW s \in Browsers, state[s] = "up",
                    NEW c \in held[s]
             PROVE  c \in entries /\ c.expires_at > now
  BY DEF BrowserCovered, Accepts
<1>1. c.expires_at \in Int /\ now \in Nat /\ Delay \in Nat
  BY TimerAssumption DEF TypeOK, Credential
<1>2. Covering(s)
  BY DEF AllCovering
<1>3. c.expires_at > now
  <2>1. CASE timer[s] # {}
    <3>1. PICK t \in timer[s] : TRUE
      BY <2>1
    <3>2. t \in Int /\ now <= t /\ t + Delay < c.expires_at
      BY <1>2, <3>1 DEF Covering, TypeOK
    <3> QED BY <1>1, <3>2
  <2>2. ASSUME NEW i \in 1 .. Len(asks[s]), asks[s][i] + Delay < c.expires_at
        PROVE  c.expires_at > now
    <3>1. now <= asks[s][i] + Delay /\ asks[s][i] \in Nat
      BY <1>2, <2>2 DEF Covering, AskTimely, TypeOK
    <3> QED BY <1>1, <2>2, <3>1
  <2>3. ASSUME NEW i \in 1 .. Len(replies[s]),
               replies[s][i].since + Delay < c.expires_at
        PROVE  c.expires_at > now
    <3>1. replies[s][i] \in Reply
      BY <2>3 DEF TypeOK
    <3>2. replies[s][i].since \in Nat
      BY <3>1 DEF Reply
    <3>3. now <= replies[s][i].since + Delay
      BY <1>1, <1>2, <2>3, <3>2 DEF Covering, ReplyTimely, AskTimely
    <3> QED BY <1>1, <2>3, <3>2, <3>3
  <2> QED BY <1>2, <2>1, <2>2, <2>3 DEF Covering, InTime
<1> QED BY <1>1, <1>2, <1>3 DEF Covering, Stored
\* A stored credential stays stored when no unexpired one is taken away.
LEMMA StaysStored ==
  ASSUME NEW E, NEW F, NEW n \in Int, NEW c \in Credential, Stored(c, E, n),
         c \in E /\ c.expires_at > n => c \in F
  PROVE  Stored(c, F, n)
BY DEF Stored, Credential

\* The elements of the queues are well typed.
LEMMA QueueTypes ==
  ASSUME TypeOK, NEW s \in Browsers
  PROVE  /\ asks[s] \in Seq(Nat) /\ replies[s] \in Seq(Reply)
         /\ \A i \in 1 .. Len(asks[s]) : asks[s][i] \in Nat
         /\ \A i \in 1 .. Len(replies[s]) :
              /\ replies[s][i] \in Reply /\ replies[s][i].since \in Nat
              /\ replies[s][i].credential \in Credential
              /\ replies[s][i].credential.session = s
<1>1. asks[s] \in Seq(Nat) /\ replies[s] \in Seq(Reply)
  BY DEF TypeOK
<1>2. \A i \in 1 .. Len(asks[s]) : asks[s][i] \in Nat
  BY <1>1
<1>3. \A i \in 1 .. Len(replies[s]) : replies[s][i] \in Reply
  BY <1>1
<1>4. \A r \in Reply : r.since \in Nat /\ r.credential \in Credential
  BY DEF Reply
<1> QED BY <1>1, <1>2, <1>3, <1>4 DEF TypeOK

\* A step that leaves browser b and the clock alone keeps b covered, if it
\* takes no unexpired credential of b from the store.
LEMMA OtherCovering ==
  ASSUME TypeOK, NEW b \in Browsers, Covering(b),
         now' = now, state'[b] = state[b], held'[b] = held[b],
         timer'[b] = timer[b], asks'[b] = asks[b], replies'[b] = replies[b],
         \A d \in entries : d.session = b /\ d.expires_at > now => d \in entries'
  PROVE  Covering(b)'
<1>1. now \in Int
  BY DEF TypeOK
<1>2. ASSUME NEW d \in Credential, d.session = b, Stored(d, entries, now)
      PROVE  Stored(d, entries', now)
  BY <1>1, <1>2, StaysStored
<1>3. \A c \in held[b] : c \in Credential /\ c.session = b
  BY DEF TypeOK
<1>4. \A i \in 1 .. Len(replies[b]) :
        /\ replies[b][i].credential \in Credential
        /\ replies[b][i].credential.session = b
  BY QueueTypes
<1> QED BY <1>2, <1>3, <1>4 DEF Covering, InTime, ReplyTimely

\* issue_at for one session takes no unexpired credential away from another.
LEMMA IssueKeeps ==
  ASSUME TypeOK, NEW s \in Sessions, NEW c, Issue(s, c)
  PROVE  \A d \in entries : d.expires_at > now => d \in entries'
BY IssueEffect DEF Unexpired

\* A queue with one more element.
LEMMA Enqueue ==
  ASSUME NEW S, NEW q \in Seq(S), NEW e \in S
  PROVE  /\ Len(q) \in Nat /\ Len(Append(q, e)) = Len(q) + 1
         /\ \A i \in 1 .. Len(q) :
              i \in 1 .. Len(Append(q, e)) /\ Append(q, e)[i] = q[i]
         /\ Len(q) + 1 \in 1 .. Len(Append(q, e))
         /\ Append(q, e)[Len(q) + 1] = e
         /\ \A i \in 1 .. Len(Append(q, e)) : i \in 1 .. Len(q) \/ i = Len(q) + 1
BY AppendProperties

\* connected and the answer to an ice_refresh are stored, and outlive their
\* delivery.
LEMMA ReplyCovering ==
  ASSUME TypeOK, NEW s \in Browsers, NEW c, Issue(s, c), NEW t \in Nat,
         AskTimely(t, now),
         \A i \in 1 .. Len(replies[s]) : ReplyTimely(replies[s][i], entries, now),
         replies'[s] = Append(replies[s], [since |-> t, credential |-> c])
  PROVE  /\ \A i \in 1 .. Len(replies'[s]) :
              ReplyTimely(replies'[s][i], entries', now)
         /\ \A i \in 1 .. Len(replies[s]) :
              i \in 1 .. Len(replies'[s]) /\ replies'[s][i] = replies[s][i]
         /\ \E i \in 1 .. Len(replies'[s]) : replies'[s][i].since = t
<1> DEFINE r == [since |-> t, credential |-> c]
           q == replies[s]
<1>1. /\ c \in Credential /\ c \in entries' /\ now + Reuse < c.expires_at
      /\ s \in Sessions /\ now \in Nat
  BY IssueEffect, BrowsersAssumption, TtlAssumption DEF TypeOK
<1>2. r \in Reply /\ q \in Seq(Reply) /\ replies'[s] = Append(q, r)
  BY ZenonT(30), <1>1 DEF Reply, TypeOK
<1>3. ReplyTimely(r, entries', now)
  <2>1. t + Reuse < c.expires_at
    BY <1>1, TtlAssumption, TimerAssumption DEF AskTimely, Credential
  <2> QED BY <1>1, <2>1 DEF ReplyTimely, Stored
<1>4. ASSUME NEW i \in 1 .. Len(q) PROVE ReplyTimely(q[i], entries', now)
  <2>1. q[i].credential \in Credential /\ ReplyTimely(q[i], entries, now)
    BY ZenonT(30), <1>4, QueueTypes
  <2>2. Stored(q[i].credential, entries', now)
    BY <1>1, <2>1, IssueKeeps, StaysStored DEF ReplyTimely
  <2> QED BY <2>1, <2>2 DEF ReplyTimely
<1> HIDE DEF r, q
<1>5. \A i \in 1 .. Len(replies'[s]) : ReplyTimely(replies'[s][i], entries', now)
  <2> SUFFICES ASSUME NEW i \in 1 .. Len(replies'[s])
               PROVE  ReplyTimely(replies'[s][i], entries', now)
    OBVIOUS
  <2>1. i \in 1 .. Len(q) \/ i = Len(q) + 1
    BY <1>2, Enqueue
  <2>2. CASE i \in 1 .. Len(q)
    <3>1. Append(q, r)[i] = q[i]
      BY <1>2, <2>2, AppendProperties
    <3> QED BY <1>2, <1>4, <2>2, <3>1
  <2>3. CASE i = Len(q) + 1
    <3>1. replies'[s][i] = r
      BY <1>2, <2>3, Enqueue
    <3> QED BY <1>3, <3>1
  <2> QED BY <2>1, <2>2, <2>3
<1>6. \A i \in 1 .. Len(q) :
        i \in 1 .. Len(replies'[s]) /\ replies'[s][i] = q[i]
  BY SMTT(30), <1>2, Enqueue
<1>7. /\ Len(q) + 1 \in 1 .. Len(replies'[s])
      /\ replies'[s][Len(q) + 1] = r /\ r.since = t
  BY <1>2, Enqueue DEF r
<1> QED BY <1>5, <1>6, <1>7 DEF q
\* Time passes only while nothing a browser waits for is due.
LEMMA TickCovering ==
  ASSUME TypeOK, NEW b \in Browsers, Covering(b), Tick
  PROVE  Covering(b)'
<1>1. /\ now \in Nat /\ now' = now + 1 /\ Delay \in Nat /\ Timely(b)
      /\ UNCHANGED <<entries, state, held, timer, asks, replies>>
  BY TimerAssumption DEF Tick, TypeOK, browserVars
<1>2. CASE state[b] # "up"
  BY <1>1, <1>2 DEF Covering
<1>3. CASE state[b] = "up"
  <2>1. \A c \in Credential : Stored(c, entries, now) => Stored(c, entries, now')
    BY <1>1 DEF Stored, Credential
  <2>2. \A t \in Nat : AskTimely(t, now) /\ now < t + Delay => AskTimely(t, now')
    BY <1>1 DEF AskTimely
  <2>3. \A c \in held[b] : Stored(c, entries, now') /\ InTime(b, c)'
    BY ZenonT(30), <1>1, <1>3, <2>1 DEF Covering, InTime, TypeOK
  <2>4. \A t \in timer[b] : now' <= t
    BY <1>1, <1>3 DEF Timely, TypeOK
  <2>5. \A i \in 1 .. Len(asks[b]) : AskTimely(asks[b][i], now')
    BY <1>1, <1>3, <2>2, QueueTypes DEF Timely, Covering
  <2>6. \A i \in 1 .. Len(replies[b]) : ReplyTimely(replies[b][i], entries, now')
    BY <1>1, <1>3, <2>1, <2>2, QueueTypes DEF Timely, Covering, ReplyTimely
  <2> QED BY <1>1, <1>3, <2>3, <2>4, <2>5, <2>6 DEF Covering
<1> QED BY <1>2, <1>3

\* connected opens the browser's session with a credential on its way.
LEMMA ConnectedCovering ==
  ASSUME TypeOK, NEW b \in Browsers, Covering(b), Connected(b)
  PROVE  Covering(b)'
<1>1. PICK c : /\ Issue(b, c)
               /\ replies'[b] =
                    Append(replies[b], [since |-> now, credential |-> c])
  BY DEF Connected, TypeOK
<1>2. /\ held[b] = {} /\ timer[b] = {} /\ asks[b] = <<>> /\ replies[b] = <<>>
      /\ UNCHANGED <<now, held, timer, asks>> /\ state'[b] = "up" /\ now \in Nat
  BY DEF Connected, Covering, TypeOK
<1>3. AskTimely(now, now)
  BY <1>2, TimerAssumption DEF AskTimely
<1>4. \A i \in 1 .. Len(replies'[b]) : ReplyTimely(replies'[b][i], entries', now)
  <2>1. \A i \in 1 .. Len(replies[b]) : ReplyTimely(replies[b][i], entries, now)
    BY <1>2
  <2>2. now \in Nat
    BY <1>2
  <2> QED BY <1>1, <1>3, <2>1, <2>2, ReplyCovering
<1>5. Len(asks[b]) = 0
  BY <1>2
<1> QED BY <1>2, <1>4, <1>5 DEF Covering

\* refresh_ice turns an ice_refresh under way into an answer under way.
LEMMA AnswerCovering ==
  ASSUME TypeOK, NEW b \in Browsers, Covering(b), Answer(b)
  PROVE  Covering(b)'
<1> DEFINE t == Head(asks[b])
<1>1. PICK c : /\ Issue(b, c)
               /\ replies'[b] =
                    Append(replies[b], [since |-> t, credential |-> c])
  BY DEF Answer, TypeOK
<1>2. /\ state[b] = "up" /\ asks[b] # <<>> /\ asks'[b] = Tail(asks[b])
      /\ UNCHANGED <<now, state, held, timer>> /\ now \in Int
      /\ asks[b] \in Seq(Nat)
  BY DEF Answer, TypeOK
<1>3. /\ t \in Nat /\ t = asks[b][1] /\ 1 \in 1 .. Len(asks[b])
      /\ \A i \in 1 .. Len(asks'[b]) : /\ i + 1 \in 1 .. Len(asks[b])
                                      /\ asks'[b][i] = asks[b][i + 1]
  BY <1>2, Dequeue
<1>4. \A i \in 1 .. Len(asks[b]) : i = 1 \/ \E j \in 1 .. Len(asks'[b]) :
        asks'[b][j] = asks[b][i]
  <2>1. Len(asks'[b]) = Len(asks[b]) - 1 /\ Len(asks[b]) \in Nat
    BY <1>2, Dequeue
  <2>2. ASSUME NEW i \in 1 .. Len(asks[b]), i # 1
        PROVE  \E j \in 1 .. Len(asks'[b]) : asks'[b][j] = asks[b][i]
    <3>1. i - 1 \in 1 .. Len(asks'[b]) /\ (i - 1) + 1 = i
      BY <2>1, <2>2
    <3>2. asks'[b][i - 1] = asks[b][i]
      BY <1>3, <3>1
    <3> QED BY <3>1, <3>2
  <2> QED BY <2>2
<1> HIDE DEF t
<1>5. AskTimely(t, now)
  BY <1>2, <1>3 DEF Covering
<1>6. /\ \A i \in 1 .. Len(replies'[b]) :
           ReplyTimely(replies'[b][i], entries', now)
      /\ \A i \in 1 .. Len(replies[b]) :
           i \in 1 .. Len(replies'[b]) /\ replies'[b][i] = replies[b][i]
      /\ \E i \in 1 .. Len(replies'[b]) : replies'[b][i].since = t
  <2>1. \A i \in 1 .. Len(replies[b]) : ReplyTimely(replies[b][i], entries, now)
    BY <1>2 DEF Covering
  <2>2. t \in Nat
    BY <1>3
  <2> QED BY <1>1, <1>5, <2>1, <2>2, ReplyCovering
<1>7. ASSUME NEW d \in held[b] PROVE Stored(d, entries', now)
  <2>1. d \in Credential /\ Stored(d, entries, now) /\ b \in Sessions
    BY <1>2, BrowsersAssumption DEF Covering, TypeOK
  <2> QED BY <1>1, <1>2, <2>1, IssueKeeps, StaysStored
<1>8. ASSUME NEW d \in held[b] PROVE InTime(b, d)'
  <2>1. InTime(b, d)
    BY <1>2 DEF Covering
  <2> QED BY ZenonT(30), <1>2, <1>3, <1>4, <1>6, <2>1 DEF InTime
<1>9. \A i \in 1 .. Len(asks'[b]) : AskTimely(asks'[b][i], now)
  BY <1>2, <1>3 DEF Covering
<1> QED BY <1>2, <1>6, <1>7, <1>8, <1>9 DEF Covering
\* applyIceConfig sets the timer so that an ice_refresh sent then is answered
\* before the credential expires.
LEMMA ApplyCovering ==
  ASSUME TypeOK, NEW b \in Browsers, Covering(b), ApplyIceConfig(b)
  PROVE  Covering(b)'
<1> DEFINE c == Head(replies[b]).credential
           f == FiresAt(b, c)
<1>1. /\ state[b] = "up" /\ replies[b] # <<>> /\ replies'[b] = Tail(replies[b])
      /\ held'[b] = {c} /\ timer'[b] = {f}
      /\ UNCHANGED <<now, entries, state, asks>> /\ now \in Nat
      /\ replies[b] \in Seq(Reply)
  BY DEF ApplyIceConfig, TypeOK
<1>2. /\ 1 \in 1 .. Len(replies[b]) /\ Head(replies[b]) = replies[b][1]
      /\ \A i \in 1 .. Len(replies'[b]) : /\ i + 1 \in 1 .. Len(replies[b])
                                         /\ replies'[b][i] = replies[b][i + 1]
  BY <1>1, Dequeue
<1>3. \A i \in 1 .. Len(replies'[b]) : ReplyTimely(replies'[b][i], entries, now)
  BY <1>1, <1>2 DEF Covering
<1>4. /\ ReplyTimely(Head(replies[b]), entries, now)
      /\ c \in Credential /\ Head(replies[b]).since \in Nat
  BY <1>1, <1>2, QueueTypes DEF Covering
<1>5. f \in Int /\ f > now /\ f + Delay < c.expires_at
  <2>1. f \in Int /\ f > now /\ (f = c.expires_at - Skew[b] - Lead \/ f = now + 1)
    BY <1>4, FiresLater
  <2>2. /\ c.expires_at \in Int /\ Skew[b] \in Int /\ Lead \in Nat
        /\ Delay \in Nat /\ Reuse \in Nat /\ Delay < Lead + Skew[b]
        /\ 2 * Delay + 1 <= Reuse
    BY <1>4, TimerAssumption, TtlAssumption DEF Credential
  <2> DEFINE t == Head(replies[b]).since
  <2>3. now <= t + Delay /\ t + Reuse < c.expires_at /\ t \in Nat
    BY <1>4 DEF ReplyTimely, AskTimely
  <2> HIDE DEF t, f, c
  <2> QED BY <1>1, <2>1, <2>2, <2>3
<1>6. Stored(c, entries, now)
  BY <1>4 DEF ReplyTimely
<1> HIDE DEF c, f
<1>7. \A i \in 1 .. Len(asks[b]) : AskTimely(asks[b][i], now)
  BY <1>1 DEF Covering
<1> QED BY <1>1, <1>3, <1>5, <1>6, <1>7 DEF Covering, InTime

\* A timer that fires becomes an ice_refresh that is answered in time; the
\* recovery timer only adds one.
LEMMA AskCovering ==
  ASSUME TypeOK, NEW b \in Browsers, Covering(b), TimerFires(b) \/ Recover(b)
  PROVE  Covering(b)'
<1>1. /\ state[b] = "up" /\ asks'[b] = Append(asks[b], now)
      /\ UNCHANGED <<now, entries, state, held, replies>> /\ now \in Nat
      /\ Delay \in Nat /\ asks[b] \in Seq(Nat)
      /\ timer'[b] = timer[b] \/ (now \in timer[b] /\ timer'[b] = {})
  BY TimerAssumption, ZenonT(40) DEF TimerFires, Recover, TypeOK
<1>2. /\ \A i \in 1 .. Len(asks[b]) :
           i \in 1 .. Len(asks'[b]) /\ asks'[b][i] = asks[b][i]
      /\ Len(asks[b]) + 1 \in 1 .. Len(asks'[b])
      /\ asks'[b][Len(asks[b]) + 1] = now
      /\ \A i \in 1 .. Len(asks'[b]) : i \in 1 .. Len(asks[b]) \/ i = Len(asks[b]) + 1
  BY <1>1, Enqueue
<1>3. AskTimely(now, now)
  BY <1>1 DEF AskTimely
<1>4. \A i \in 1 .. Len(asks'[b]) : AskTimely(asks'[b][i], now)
  BY <1>1, <1>2, <1>3 DEF Covering
<1>5. ASSUME NEW c \in held[b] PROVE InTime(b, c)'
  <2>1. CASE timer'[b] = timer[b]
    BY ZenonT(30), <1>1, <1>2, <2>1 DEF Covering, InTime
  <2>2. CASE now \in timer[b]
    <3>1. now + Delay < c.expires_at
      BY <1>1, <2>2 DEF Covering
    <3>2. \E i \in 1 .. Len(asks'[b]) : asks'[b][i] + Delay < c.expires_at
      BY <1>2, <3>1
    <3> QED BY <3>2 DEF InTime
  <2> QED BY <1>1, <2>1, <2>2
<1> QED BY <1>1, <1>4, <1>5 DEF Covering

\* A revocation ends the browser of its session and takes nothing from others.
LEMMA RevokeCovering ==
  ASSUME TypeOK, NEW b \in Browsers, Covering(b), NEW s \in Sessions, Revoke(s)
  PROVE  Covering(b)'
<1>1. CASE b = s
  BY <1>1 DEF Revoke, Leaves, Covering
<1>2. CASE b # s
  BY <1>2, OtherCovering DEF Revoke, Leaves
<1> QED BY <1>1, <1>2

\* A browser with a session always holds a credential that the TURN server
\* accepts: its timer and issue_at's reuse of credentials never leave a gap.
THEOREM BrowsersCovered == Spec => []BrowserCovered
<1>1. Init => AllCovering
  BY DEF Init, AllCovering, Covering
<1>2. TypeOK /\ AllCovering /\ [Next]_vars => AllCovering'
  <2> SUFFICES ASSUME TypeOK, AllCovering, [Next]_vars, NEW b \in Browsers
               PROVE  Covering(b)'
    BY DEF AllCovering
  <2> USE DEF browserVars
  <2>1. Covering(b)
    BY DEF AllCovering
  <2>2. CASE Tick
    BY <2>1, <2>2, TickCovering
  <2>3. CASE SetClock
    BY <2>1, <2>3 DEF SetClock, Covering, browserVars
  <2>4. ASSUME NEW s \in Sessions, Refresh(s) PROVE Covering(b)'
    BY <2>1, <2>4, IssueKeeps, OtherCovering DEF Refresh
  <2>5. ASSUME NEW s \in Sessions, Revoke(s) PROVE Covering(b)'
    BY <2>1, <2>5, RevokeCovering
  <2>6. ASSUME NEW s \in Browsers, Connected(s) \/ Answer(s) PROVE Covering(b)'
    <3>1. CASE s = b
      BY <2>1, <2>6, <3>1, ConnectedCovering, AnswerCovering
    <3>2. CASE s # b
      <4>1. \A d \in entries : d.expires_at > now => d \in entries'
        BY ZenonT(30), <2>6, IssueKeeps, BrowsersAssumption DEF Connected,
          Answer
      <4>2. /\ now' = now /\ state'[b] = state[b] /\ held'[b] = held[b]
            /\ timer'[b] = timer[b] /\ asks'[b] = asks[b]
            /\ replies'[b] = replies[b]
        BY ZenonT(30), <2>6, <3>2 DEF Connected, Answer, TypeOK
      <4> QED BY <2>1, <4>1, <4>2, OtherCovering
    <3> QED BY <3>1, <3>2
  <2>7. ASSUME NEW s \in Browsers, ApplyIceConfig(s) \/ TimerFires(s) \/ Recover(s)
        PROVE  Covering(b)'
    <3>1. CASE s = b
      BY <2>1, <2>7, <3>1, ApplyCovering, AskCovering
    <3>2. CASE s # b
      <4>1. /\ now' = now /\ state'[b] = state[b] /\ held'[b] = held[b]
            /\ timer'[b] = timer[b] /\ asks'[b] = asks[b]
            /\ replies'[b] = replies[b] /\ entries' = entries
        BY <2>7, <3>2 DEF ApplyIceConfig, TimerFires, Recover, TypeOK
      <4> QED BY <2>1, <4>1, OtherCovering
    <3> QED BY <3>1, <3>2
  <2>8. CASE UNCHANGED vars
    BY <2>1, <2>8, OtherCovering DEF vars
  <2> QED BY <2>2, <2>3, <2>4, <2>5, <2>6, <2>7, <2>8 DEF Next
<1> QED BY <1>1, <1>2, Typing, CoveringCovers, PTL DEF Spec
=============================================================================
