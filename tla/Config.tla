------------------------------- MODULE Config -------------------------------
(***************************************************************************)
(* config.rs: how file, placeholders and environment make a configuration, *)
(* and which configurations validate accepts.  A configuration is a record *)
(* of the settings that matter to sockets and TURN; addresses, names and   *)
(* paths are model values, None an Option's None, "" an empty string.      *)
(***************************************************************************)
EXTENDS Integers

CONSTANTS None,   \* no value: an unset variable, a missing setting
          Bad     \* a value that is no number where one is needed

MaxPort == 65535
PortKeys == {"listen_port", "udp_port", "port", "tls_port", "relay_min", "relay_max"}
NumberKeys == PortKeys \cup {"max_connections", "ttl"}

\* What a setting is that the file leaves out; other settings must be there.
Default ==
  [udp_port |-> 50000, udp_ip |-> None, enabled |-> FALSE, port |-> 3478,
   public_ip |-> None, public_host |-> "", realm |-> "mumdota", relay_min |-> 49160,
   relay_max |-> 49999, ttl |-> 3600, tls_port |-> 5349, cert |-> None, key |-> None]
Keys == DOMAIN Default \cup {"listen_port", "max_connections"}

\* expand_env_vars: a placeholder is the variable's value, or its default; the
\* load fails (None) without either.
Expanded(entry) == IF entry.var # None THEN entry.var ELSE entry.default

\* apply_env_overrides: a variable replaces the setting, one that is no number
\* is ignored where a number is needed.
Overridden(file, env) ==
  [k \in Keys |->
     IF env[k] # None /\ ~(k \in NumberKeys /\ env[k] = Bad) THEN env[k]
     ELSE IF k \in DOMAIN file THEN Expanded(file[k])
     ELSE IF k \in DOMAIN Default THEN Default[k] ELSE None]

\* Mutant: the web server's port is forgotten.
TlsPortNew(c) == c.tls_port # 0 /\ c.tls_port # c.port

TlsPortFree(c) == c.tls_port # 0 /\ c.tls_port # c.port /\ c.tls_port # c.listen_port

\* Config::validate, about ports, ...
PortsApart(c) ==
  /\ c.udp_port # 0
  /\ c.port # 0 /\ c.port # c.udp_port /\ c.port # c.listen_port
  /\ c.relay_min > 0 /\ c.relay_min <= c.relay_max
  /\ c.udp_port \notin c.relay_min .. c.relay_max
  /\ c.port \notin c.relay_min .. c.relay_max
  /\ c.cert # None => TlsPortFree(c)

\* ... and about the rest.
Complete(c) ==
  /\ c.public_ip \notin {None, "unspecified", "multicast"} /\ c.udp_ip = c.public_ip
  /\ c.realm # "" /\ c.public_host \notin {"", "ill-formed"}
  /\ c.ttl \in 300 .. 86400
  /\ (c.cert = None) = (c.key = None)

Valid(c) == c.max_connections > 0 /\ (c.enabled => PortsApart(c) /\ Complete(c))

PortValues(c) == {c.listen_port, c.udp_port, c.port, c.tls_port, c.relay_min, c.relay_max}

\* Config::load: every placeholder has a value, no setting is missing, numbers
\* fit their types, and the configuration is valid.
Loads(file, env) ==
  /\ \A k \in DOMAIN file : Expanded(file[k]) # None
  /\ LET c == Overridden(file, env) IN
       /\ \A k \in Keys : k \in {"udp_ip", "public_ip", "cert", "key"} \/ c[k] # None
       /\ PortValues(c) \subseteq 0 .. MaxPort
       /\ Valid(c)

-----------------------------------------------------------------------------
\* The protocol and the ports that a part of the program binds: the relay
\* takes any port of its range, one at a time.
Sockets == {"http", "udp", "tcp", "tls", "media", "relay"}
Protocol(socket) == IF socket \in {"http", "tcp", "tls"} THEN "TCP" ELSE "UDP"
Ports(c, socket) ==
  CASE socket = "http" -> {c.listen_port}
    [] socket \in {"udp", "tcp"} -> {c.port}
    [] socket = "tls" -> {c.tls_port}
    [] socket = "media" -> {c.udp_port}
    [] socket = "relay" -> c.relay_min .. c.relay_max

\* What a configuration needs: without TURN the web server and the media.
Needed(c) ==
  {"http", "media"} \cup (IF c.enabled THEN {"udp", "tcp", "relay"} ELSE {})
                    \cup (IF c.enabled /\ c.cert # None /\ c.key # None THEN {"tls"} ELSE {})

\* Two parts of the program never need the same port of the same protocol.
Disjoint(c) ==
  \A a, b \in Needed(c) : a # b /\ Protocol(a) = Protocol(b)
                            => Ports(c, a) \cap Ports(c, b) = {}
=============================================================================
