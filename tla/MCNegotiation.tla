---------------------------- MODULE MCNegotiation ----------------------------
(* An instance of Negotiation.                                             *)
EXTENDS Negotiation

CONSTANTS u1, u2
=============================================================================
