----------------------------- MODULE Supervisor -----------------------------
(***************************************************************************)
(* The supervisor process (ves_supervisor_main), the service registry it   *)
(* runs (RegistryServer), the engine processes it starts and the client.   *)
(* The registry takes one connection at a time; engines register through   *)
(* the same thread that starts and kills them.                             *)
(*                                                                         *)
(* There is one service and one service socket path, so the registry is a  *)
(* flag: the path is registered or not.                                    *)
(***************************************************************************)
EXTENDS Naturals, Sequences

CONSTANTS
    MaxRequests,     \* bound: requests of the client
    MaxCrashes       \* bound: engines that crash

ASSUME SupervisorAssumption == MaxRequests \in Nat /\ MaxCrashes \in Nat

\* Every start but the first takes a request.
Engines == 1 .. MaxRequests + 1
Client == 0

VARIABLES
    main,        \* main() of the supervisor
    taken,       \* the engine ShutdownSupervisor has taken from the slot
    slot,        \* g_engine_pid, 0 for NO_CHILD_PID
    running,     \* running_ of the registry
    queue,       \* connections waiting at the registry
    srv,         \* the accept thread of the registry
    registered,  \* is the service path in services_?
    proc,        \* engine processes
    signalled,   \* engines that were sent SIGTERM
    spawned,     \* engines started so far
    listener,    \* engine that listens at the service path, 0 when none
    client,      \* the client process
    asked,       \* requests of the client so far
    crashes,     \* engines that crashed so far
    prompt,      \* does an engine register within the 500 ms that its parent sleeps?
    hasty,       \* may the client end in the middle of a request?
    lost         \* history: has an engine crashed since the registry took the last load, or
                 \* the registration of a running engine?

vars == <<main, taken, slot, running, queue, srv, registered, proc, signalled, spawned, listener, client, asked,
          crashes, prompt, hasty, lost>>
envVars == <<prompt, hasty, lost>>
processVars == <<proc, signalled, spawned, listener, crashes>>
clientVars == <<client, asked>>

IdleServer == [pc |-> "idle", engine |-> 0]

Init ==
    /\ main = "start" /\ taken = 0 /\ slot = 0 /\ running = FALSE /\ queue = <<>> /\ srv = IdleServer
    /\ registered = FALSE /\ proc = [e \in Engines |-> "none"] /\ signalled = {} /\ spawned = 0
    /\ listener = 0 /\ client = "none" /\ asked = 0 /\ crashes = 0
    /\ prompt \in BOOLEAN /\ hasty \in BOOLEAN /\ lost = FALSE

Alive(e) == proc[e] \notin {"none", "dead", "reaped"}

-----------------------------------------------------------------------------
(* Processes.                                                               *)

\* fork and exec: the process exists, and has not got to Publish yet.
SpawnEngine == spawned' = spawned + 1 /\ proc' = [proc EXCEPT ![spawned + 1] = "boot"]

\* SystemAbility::Publish: AddSystemAbility sends a registration.  Without a registry
\* Publish fails, and the engine runs on without a socket.
PublishAsks(e) ==
    /\ proc[e] = "boot"
    /\ IF running
       THEN queue' = Append(queue, [op |-> "register", from |-> e]) /\ proc' = [proc EXCEPT ![e] = "asking"]
       ELSE proc' = [proc EXCEPT ![e] = "mute"] /\ UNCHANGED queue
    /\ UNCHANGED <<envVars, main, taken, slot, running, srv, registered, signalled, spawned, listener,
                   clientVars, crashes>>

\* The registration is answered; MockServiceSocket::Start binds the path.
PublishListens(e) ==
    /\ proc[e] = "told" /\ proc' = [proc EXCEPT ![e] = "up"] /\ listener' = e
    /\ UNCHANGED <<envVars, main, taken, slot, running, queue, srv, registered, signalled, spawned, clientVars,
                   crashes>>

\* SIGTERM ends an engine at once while it has no handler, and otherwise when it is in
\* its main loop: OnStop stops the socket, and unlinks the path whoever listens there.
EngineExits(e) ==
    /\ e \in signalled /\ proc[e] \in {"boot", "up", "mute"}
    /\ proc' = [proc EXCEPT ![e] = "dead"] /\ listener' = IF proc[e] = "up" THEN 0 ELSE listener
    /\ UNCHANGED <<envVars, main, taken, slot, running, queue, srv, registered, signalled, spawned, clientVars,
                   crashes>>

EngineCrashes(e) ==
    /\ Alive(e) /\ crashes < MaxCrashes /\ crashes' = crashes + 1 /\ lost' = TRUE
    /\ proc' = [proc EXCEPT ![e] = "dead"] /\ listener' = IF listener = e THEN 0 ELSE listener
    /\ UNCHANGED <<prompt, hasty, main, taken, slot, running, queue, srv, registered, signalled, spawned, clientVars>>

\* RegistryClient::SendRequest of the client.
Ask(op) ==
    /\ client = "idle" /\ asked < MaxRequests /\ asked' = asked + 1 /\ client' = "waiting"
    /\ queue' = Append(queue, [op |-> op, from |-> Client])
    /\ UNCHANGED <<envVars, main, taken, slot, running, srv, registered, processVars>>

ClientExits ==
    /\ client = "idle" \/ (client = "waiting" /\ hasty)
    /\ client' = "gone"
    /\ UNCHANGED <<envVars, main, taken, slot, running, queue, srv, registered, processVars, asked>>

-----------------------------------------------------------------------------
(* The accept thread of the registry: one request per connection.           *)

Reply == srv' = IdleServer /\ client' = IF client = "waiting" THEN "idle" ELSE client
Goto(pc) == srv' = [srv EXCEPT !.pc = pc] /\ UNCHANGED client

\* ProcessRequest, as far as it goes in one step.  A get is answered with the path that is
\* registered, and nobody looks whether an engine listens there.
Accept ==
    LET r == Head(queue) IN
    /\ running /\ srv.pc = "idle" /\ queue # <<>> /\ queue' = Tail(queue)
    /\ CASE r.op = "register" ->
              /\ registered' = TRUE /\ lost' = ~Alive(r.from) /\ UNCHANGED <<srv, client>>
              /\ proc' = [proc EXCEPT ![r.from] = IF @ = "asking" THEN "told" ELSE @]
         [] r.op = "get" -> Reply /\ UNCHANGED <<registered, lost, proc>>
         [] r.op = "load" -> lost' = FALSE /\ Goto("check") /\ UNCHANGED <<registered, proc>>
         [] r.op = "unload" -> registered' = FALSE /\ Goto("take") /\ UNCHANGED <<lost, proc>>
    /\ UNCHANGED <<prompt, hasty, main, taken, slot, running, signalled, spawned, listener, asked, crashes>>

\* Mutant: the path is not probed.
CheckService_NoProbe ==
    /\ srv.pc = "check" /\ IF registered THEN Goto("loaded") ELSE Goto("load")
    /\ UNCHANGED <<envVars, main, taken, slot, running, queue, registered, processVars, asked>>

\* HandleLoadRequest: a registered path that refuses connections is removed.
CheckService ==
    /\ srv.pc = "check"
    /\ registered' = (registered /\ listener # 0)
    /\ IF registered' THEN Goto("loaded") ELSE Goto("load")
    /\ UNCHANGED <<envVars, main, taken, slot, running, queue, processVars, asked>>

\* The load callback: nothing to do when a pid is stored, dead or alive.  fork may fail.
LoadCallback ==
    /\ srv.pc = "load"
    /\ \/ slot > 0 /\ Goto("answer") /\ UNCHANGED <<proc, spawned>>
       \/ slot = 0 /\ SpawnEngine /\ srv' = [pc |-> "swap", engine |-> spawned + 1] /\ UNCHANGED client
       \/ slot = 0 /\ Goto("answer") /\ UNCHANGED <<proc, spawned>>
    /\ UNCHANGED <<envVars, main, taken, slot, running, queue, registered, signalled, listener, asked, crashes>>

\* compare_exchange: the new engine is killed if somebody else has stored one.
LoadSwaps ==
    /\ srv.pc = "swap"
    /\ IF slot = 0
       THEN slot' = srv.engine /\ Goto("sleep") /\ UNCHANGED signalled
       ELSE signalled' = signalled \cup {srv.engine} /\ Goto("wait") /\ UNCHANGED slot
    /\ UNCHANGED <<envVars, main, taken, running, queue, registered, proc, spawned, listener, asked, crashes>>

LoadSleeps ==
    /\ srv.pc = "sleep" /\ (prompt => proc[srv.engine] # "boot") /\ Goto("answer")
    /\ UNCHANGED <<envVars, main, taken, slot, running, queue, registered, processVars, asked>>

\* PopulateServiceResponse: the answer is a failure while the path is not registered.
Answer ==
    /\ srv.pc \in {"loaded", "answer"} /\ Reply
    /\ UNCHANGED <<envVars, main, taken, slot, running, queue, registered, processVars, asked>>

\* Mutant: the engine is forgotten and not killed.
UnloadTakes_NoKill ==
    /\ srv.pc = "take" /\ slot' = 0 /\ Reply
    /\ UNCHANGED <<envVars, main, taken, running, queue, registered, processVars, asked>>

\* The unload callback: TakePid, SIGTERM.
UnloadTakes ==
    /\ srv.pc = "take" /\ slot' = 0
    /\ IF slot = 0
       THEN Reply /\ UNCHANGED signalled
       ELSE /\ signalled' = signalled \cup {slot}
            /\ srv' = [pc |-> "wait", engine |-> slot] /\ UNCHANGED client
    /\ UNCHANGED <<envVars, main, taken, running, queue, registered, proc, spawned, listener, asked, crashes>>

\* waitpid.
RegistryWaits ==
    /\ srv.pc = "wait" /\ proc[srv.engine] = "dead"
    /\ proc' = [proc EXCEPT ![srv.engine] = "reaped"] /\ Reply
    /\ UNCHANGED <<envVars, main, taken, slot, running, queue, registered, signalled, spawned, listener, asked,
                   crashes>>

Registry ==
    \/ Accept \/ CheckService \/ LoadCallback \/ LoadSwaps \/ LoadSleeps \/ Answer
    \/ UnloadTakes \/ RegistryWaits

-----------------------------------------------------------------------------
(* main() of the supervisor.                                                *)

\* StartRegistryAndEngine: the registry listens before the first engine is started.
StartRegistry ==
    /\ main = "start" /\ main' = "spawn" /\ running' = TRUE
    /\ UNCHANGED <<envVars, taken, slot, queue, srv, registered, processVars, clientVars>>

\* Without a first engine the registry is stopped at once.
StartEngine ==
    /\ main = "spawn"
    /\ \/ main' = "store" /\ SpawnEngine
       \/ main' = "stop" /\ UNCHANGED <<proc, spawned>>
    /\ UNCHANGED <<envVars, taken, slot, running, queue, srv, registered, signalled, listener, clientVars,
                   crashes>>

StoreEngine ==
    /\ main = "store" /\ main' = "sleep" /\ slot' = 1
    /\ UNCHANGED <<envVars, taken, running, queue, srv, registered, processVars, clientVars>>

\* RunClientSession: after 500 ms the client is started, and then waited for; one that
\* cannot be started is gone.
RunClient ==
    /\ main = "sleep" /\ (prompt => proc[1] # "boot") /\ main' = "client" /\ client' \in {"idle", "gone"}
    /\ UNCHANGED <<envVars, taken, slot, running, queue, srv, registered, processVars, asked>>

\* Mutant: SIGTERM is not sent.
ShutdownKills_NoSignal ==
    /\ main = "client" /\ client = "gone" /\ slot' = 0 /\ taken' = slot
    /\ main' = IF slot = 0 THEN "stop" ELSE "wait"
    /\ UNCHANGED <<envVars, running, queue, srv, registered, processVars, clientVars>>

\* ShutdownSupervisor: first the engine, then the registry.
ShutdownKills ==
    /\ main = "client" /\ client = "gone" /\ slot' = 0 /\ taken' = slot
    /\ signalled' = signalled \cup ({slot} \ {0})
    /\ main' = IF slot = 0 THEN "stop" ELSE "wait"
    /\ UNCHANGED <<envVars, running, queue, srv, registered, proc, spawned, listener, clientVars, crashes>>

\* Mutant: the engine is not waited for.
ShutdownWaits_Not ==
    /\ main = "wait" /\ main' = "stop"
    /\ UNCHANGED <<envVars, taken, slot, running, queue, srv, registered, processVars, clientVars>>

ShutdownWaits ==
    /\ main = "wait" /\ main' = "stop"
    /\ proc[taken] = "dead" /\ proc' = [proc EXCEPT ![taken] = "reaped"]
    /\ UNCHANGED <<envVars, taken, slot, running, queue, srv, registered, signalled, spawned, listener,
                   clientVars, crashes>>

\* RegistryServer::Stop: no connection is taken any more, those waiting are reset, and
\* the accept thread is joined.
StopRegistry ==
    /\ main = "stop" /\ main' = "join" /\ running' = FALSE /\ queue' = <<>>
    /\ proc' = [e \in Engines |-> IF proc[e] = "asking" THEN "mute" ELSE proc[e]]
    /\ UNCHANGED <<envVars, taken, slot, srv, registered, signalled, spawned, listener, clientVars, crashes>>

JoinRegistry ==
    /\ main = "join" /\ srv.pc = "idle" /\ main' = "done"
    /\ UNCHANGED <<envVars, taken, slot, running, queue, srv, registered, processVars, clientVars>>

Main ==
    \/ StartRegistry \/ StartEngine \/ StoreEngine \/ RunClient
    \/ ShutdownKills \/ ShutdownWaits \/ StopRegistry \/ JoinRegistry

EngineSteps(e) == PublishAsks(e) \/ PublishListens(e) \/ EngineExits(e)

Next ==
    \/ Main \/ Registry \/ ClientExits
    \/ \E op \in {"get", "load", "unload"} : Ask(op)
    \/ \E e \in Engines : EngineSteps(e) \/ EngineCrashes(e)

Spec == Init /\ [][Next]_vars

\* The processes run, and the client ends some time.
FairSpec ==
    Spec /\ WF_vars(Main) /\ WF_vars(Registry) /\ WF_vars(ClientExits)
         /\ \A e \in Engines : WF_vars(EngineSteps(e))

-----------------------------------------------------------------------------
(* Properties.                                                              *)

TypeOK ==
    /\ main \in {"start", "spawn", "store", "sleep", "client", "wait", "stop", "join", "done"}
    /\ slot \in Engines \cup {0} /\ taken \in Engines \cup {0} /\ running \in BOOLEAN /\ registered \in BOOLEAN
    /\ queue \in Seq([op : {"register", "get", "load", "unload"}, from : Engines \cup {Client}])
    /\ srv \in [pc : {"idle", "check", "load", "loaded", "swap", "sleep", "answer", "take", "wait"},
                engine : Engines \cup {0}]
    /\ proc \in [Engines -> {"none", "boot", "asking", "told", "up", "mute", "dead", "reaped"}]
    /\ signalled \subseteq Engines /\ spawned \in Engines \cup {0} /\ listener \in Engines \cup {0}
    /\ client \in {"none", "idle", "waiting", "gone"} /\ asked \in 0 .. MaxRequests /\ crashes \in 0 .. MaxCrashes
    /\ prompt \in BOOLEAN /\ hasty \in BOOLEAN /\ lost \in BOOLEAN

\* There is never a second engine beside a running one, although the supervisor and the
\* registry both start engines, and an unload may be followed by a load at once: the
\* service path has one owner.  In a shutdown a load that outlived its client may start
\* one beside the engine being killed.
OneEngine ==
    \A d, e \in Engines : Alive(d) /\ Alive(e) /\ d # e => hasty /\ main \in {"wait", "stop", "join", "done"}

\* The path that a get or a load answers with is that of an engine that listens, or has
\* registered and is about to.  A get is not warned of an engine that crashed after it had
\* registered; a load forgets such an engine, and only one that crashes while it is served
\* escapes it.
GivenPathIsServed ==
    [][client = "waiting" /\ client' = "idle" /\ registered
         => listener # 0 \/ (\E e \in Engines : proc[e] = "told") \/ lost]_vars

\* When the supervisor is done, no engine runs: none that a load was about to start, and
\* none that the slot no longer names.  The client is taken to end between its requests:
\* a load that outlives its client stores an engine after the supervisor took the slot.
NoEngineLeft == main = "done" /\ ~hasty => \A e \in Engines : ~Alive(e)

\* The supervisor ends once its client has: the registry, which kills engines, and the
\* engines, which register there, do not wait for each other for ever.  The sleeps are
\* taken to be long enough: an engine that is unloaded before it registers waits for the
\* thread that waits for its end.
SupervisorEnds == prompt => <>(main = "done")

\* docs/html/service-lifecycle.html: after the death of the engine a new process is
\* started.  Violated: the pid of an engine that crashed stays in the slot, and
\* the load callback takes it for a running engine.
CrashedEngineIsReplaced ==
    [][\A e \in Engines : srv.pc = "load" /\ srv'.pc # "load" /\ slot = e /\ proc[e] = "dead"
                            => spawned' > spawned]_vars

\* An engine that listens is registered until it is unloaded.  Violated: a load between
\* the registration of an engine and its bind finds the path unreachable and removes it.
ListenerIsRegistered ==
    \A e \in Engines : proc[e] = "up" /\ e \notin signalled /\ main = "client" /\ srv.pc = "idle" => registered
=============================================================================
