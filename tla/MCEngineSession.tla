--------------------------- MODULE MCEngineSession ---------------------------
(* Model-checking instances of EngineSession.                                *)
EXTENDS EngineSession, TLC

CONSTANTS c1, c2, k1, k2

OneKind == {k1}
TwoKinds == {k1, k2}
TwoCallers == {c1, c2}
OneAndTwo == [c \in Callers |-> IF c = c1 THEN 1 ELSE 2]

=============================================================================
