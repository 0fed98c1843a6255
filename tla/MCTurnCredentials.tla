-------------------------- MODULE MCTurnCredentials --------------------------
(* An instance of TurnCredentials: one browser, one other client.          *)
EXTENDS TurnCredentials, TLC

CONSTANTS s1, s2

\* The browser's clock is so far ahead that an ice_refresh is first answered
\* with the credential it has.
MCSkew == [s \in Browsers |-> 2]
=============================================================================
