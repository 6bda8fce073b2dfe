------------------------ MODULE MCEdgeAuthorization ------------------------
EXTENDS EdgeAuthorization, TLC

CONSTANTS boundary, move, stop, here, there

MoveHere == [b \in {boundary} |-> [action |-> move, setting |-> here]]

ClockErrors == {-2, 0, 2}
=============================================================================
