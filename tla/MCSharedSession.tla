--------------------------- MODULE MCSharedSession ---------------------------
EXTENDS SharedSession

CONSTANTS p1, p2

TwoClients == {p1, p2}
=============================================================================
