---------------------------- MODULE MCPayloadFiles ----------------------------
EXTENDS PayloadFiles

CONSTANTS p1, p2

TwoClients == {p1, p2}
First == {p1}
Second == {p2}
=============================================================================
