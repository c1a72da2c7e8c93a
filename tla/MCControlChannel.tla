-------------------------- MODULE MCControlChannel --------------------------
EXTENDS ControlChannel

\* One client through three troubles, two that compete and one trouble, or three and none.
Crowds == {[clients |-> 1, troubles |-> 3], [clients |-> 2, troubles |-> 1], [clients |-> 3, troubles |-> 0]}
=============================================================================
