----------------------------- MODULE MCServerRun -----------------------------
EXTENDS ServerRun

CONSTANTS t1, s1, c1, ip, path

Is(value) == [var |-> None, default |-> value]

\* A file with TURN and TLS that is valid.
Shipped ==
  [max_connections |-> Is(1), listen_port |-> Is(8080), udp_ip |-> Is(ip),
   enabled |-> Is(TRUE), public_ip |-> Is(ip), public_host |-> Is("turn"),
   relay_max |-> Is(49160), cert |-> Is(path), key |-> Is(path)]
Plain == [max_connections |-> Is(1), listen_port |-> Is(8080)]

\* It, without TURN, with half of TLS, with a placeholder that is set or has no
\* value, without a port to listen on.
MCFiles ==
  {Shipped, Plain, [Shipped EXCEPT !.enabled = Is(FALSE)],
   [k \in DOMAIN Shipped \ {"cert", "key"} |-> Shipped[k]],
   [k \in DOMAIN Shipped \ {"key"} |-> Shipped[k]],
   [Shipped EXCEPT !.listen_port = [var |-> 8081, default |-> None]],
   [Shipped EXCEPT !.listen_port = Is(None)],
   [k \in DOMAIN Shipped \ {"listen_port"} |-> Shipped[k]]}

\* The environment overrides a port or nothing: with one that is taken, no
\* number, out of range.
MCEnvs ==
  LET none == [k \in Keys |-> None]
  IN {none} \cup {[none EXCEPT ![k] = v] : k \in PortKeys,
                  v \in {0, 3478, 5349, 8080, 50000, 49160, 49161, 70000, Bad}}

\* Every configuration is started; the service runs with two of them.
Served == {Overridden(file, [k \in Keys |-> None]) : file \in {Shipped, Plain}}
FewServed ==
  \/ stage \in {"load", "http", "udp", "tcp", "tls", "turn", "failed"}
  \/ config \in Served

\* Credentials are used with a stream that needs no handshake, or none; they age
\* and are replaced while the service runs and t1 is served.
FewCredentials ==
  \/ \A u \in Users : credentials[u] = "new"
  \/ /\ listener[t1] # "tls" /\ credentials[<<s1, 2>>] = "new"
     /\ \A u \in Users : credentials[u] \in {"new", "fresh", "revoked"}
  \/ /\ stage = "serving" /\ accepting = [l \in Listeners |-> "up"]
     /\ task[t1] = "serving" /\ listener[t1] = "tcp"
=============================================================================
