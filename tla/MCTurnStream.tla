----------------------------- MODULE MCTurnStream -----------------------------
EXTENDS TurnStream

CONSTANTS p1, p2

\* STUN without attributes; ChannelData of 5 and of 8 bytes, and beyond Mtu.
MCKinds == {[channel |-> FALSE, payload |-> 0], [channel |-> TRUE, payload |-> 1],
            [channel |-> TRUE, payload |-> 4], [channel |-> TRUE, payload |-> 17]}
=============================================================================
