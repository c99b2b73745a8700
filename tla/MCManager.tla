------------------------------ MODULE MCManager ------------------------------
EXTENDS Manager

CONSTANTS a, b, i1, i2, i3, c1, c2, k1, k2

MCNames == {a}
MCTwoNames == {a, b}
MCIds == {i1, i2}
MCCallers == {c1, c2}
MCCallbacks == {k1}
MCTwoCallbacks == {k1, k2}
MCAnyAsking == {{}, {"connected", "message"}}
MCConnectedAsking == {{"connected"}}

=============================================================================
