----------------------------- MODULE MCRpcServer -----------------------------
(* Model-checking instances of RpcServer: one to three requests, rings of    *)
(* one or two slots, one thread per executor.  Requests of one priority      *)
(* differ in nothing but their names, so one order of them is enough.        *)
EXTENDS RpcServer, TLC

CONSTANTS a, b, c, h, n

ThreeRequests == {a, b, c}
HighThreads == {h}
NormalThreads == {n}

Small == [requests |-> <<a>>, high |-> {}, requestRing |-> 1, responseRing |-> 1, queue |-> 2,
          events |-> 0, stop |-> FALSE]

\* Two requests of different priorities, in either order.
Pipeline == {[Small EXCEPT !.requests = s, !.high = {a}, !.requestRing = 2] : s \in {<<a, b>>, <<b, a>>}}
\* More requests than the completion queue and the response ring have places.
Pressure == [Small EXCEPT !.requests = <<a, b, c>>, !.requestRing = 2, !.queue = 1]
\* A request and an event compete for the completion queue and the response ring.
Publishing == [Small EXCEPT !.events = 1]
\* Stop while a request, or while an event, is on its way.
Stopping == {[Small EXCEPT !.stop = TRUE], [Small EXCEPT !.requests = <<>>, !.events = 1, !.stop = TRUE]}
\* Two requests compete for one slot.
Contention == [Small EXCEPT !.requests = <<a, b>>]

SafetyWorkloads == Pipeline \cup {Pressure, Publishing} \cup Stopping
FairWorkloads == {Contention, [Small EXCEPT !.stop = TRUE]}
CreditWorkloads == {Contention}

=============================================================================
