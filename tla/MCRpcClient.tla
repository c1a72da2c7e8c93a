----------------------------- MODULE MCRpcClient -----------------------------
(* Model-checking instances of RpcClient: one or two requests, two sessions, *)
(* rings of one slot, and a family of environment events per question.       *)
EXTENDS RpcClient, TLC

CONSTANTS r1, r2

NoRequests == {}
OneRequest == {r1}
TwoRequests == {r1, r2}
RequestSymmetry == Permutations(Requests)

DeathFaults == {"invoke", "shutdown", "die", "openFail", "closeFail", "expire"}
DuplicateFaults == {"shutdown", "die", "twice", "bad"}
RecoveryFaults == {"invoke", "external"}
WatchdogFaults == {"invoke", "shutdown", "unhealthy", "idle", "expire", "tooLarge", "reinit"}
TransportFaults == {"invoke", "shutdown", "pair", "break", "pollFail"}
HealthFaults == {"invoke", "shutdown", "unhealthy", "expire"}
OpenFaults == {"invoke", "shutdown", "openFail", "expire", "tooLarge"}
DeadlineFaults == {"invoke", "pair", "expire"}

SafetyFaults == {DeathFaults, DuplicateFaults, RecoveryFaults, WatchdogFaults, TransportFaults}
FairFaults == {HealthFaults, OpenFaults, DeadlineFaults}
DieOnly == {{"invoke", "pair", "shutdown", "die"}}

=============================================================================
