--------------------------- MODULE SessionRegistry ---------------------------
(***************************************************************************)
(* What SessionManager promises to its callers, without tasks, locks and   *)
(* awaits: at most Capacity sessions hold capacity at a time; a connection *)
(* has at most one registered session, entered only while it holds         *)
(* capacity and only into a free place; capacity given back by a session   *)
(* is never taken again by the same session.                               *)
(***************************************************************************)
EXTENDS Naturals, FiniteSets

CONSTANTS Connections, Sessions, Nobody, Capacity

VARIABLES registry,  \* the registered session of each connection, or Nobody
          holding,   \* sessions that hold capacity
          spent      \* sessions that were refused or gave it back

Init == registry = [c \in Connections |-> Nobody] /\ holding = {} /\ spent = {}

Reserve(s) ==
  /\ s \notin holding \cup spent /\ Cardinality(holding) < Capacity
  /\ holding' = holding \cup {s}
  /\ UNCHANGED <<registry, spent>>

Refuse(s) ==
  /\ s \notin holding
  /\ spent' = spent \cup {s}
  /\ UNCHANGED <<registry, holding>>

Register(c, s) ==
  /\ registry[c] = Nobody /\ s \in holding
  /\ registry' = [registry EXCEPT ![c] = s]
  /\ UNCHANGED <<holding, spent>>

Unregister(c) ==
  /\ registry[c] # Nobody
  /\ registry' = [registry EXCEPT ![c] = Nobody]
  /\ UNCHANGED <<holding, spent>>

Release(s) ==
  /\ s \in holding
  /\ holding' = holding \ {s} /\ spent' = spent \cup {s}
  /\ UNCHANGED registry

Next ==
  \/ \E s \in Sessions : Reserve(s) \/ Refuse(s) \/ Release(s)
  \/ \E c \in Connections : Unregister(c)
  \/ \E c \in Connections, s \in Sessions : Register(c, s)

vars == <<registry, holding, spent>>
Spec == Init /\ [][Next]_vars
=============================================================================
