---------------------------- MODULE ProcessProofs ----------------------------
(***************************************************************************)
(* What holds between processes, however many of them there are and        *)
(* however often they die: one engine at a time and none left behind       *)
(* (Supervisor), and one live client attached to a session                 *)
(* (SharedSession).                                                        *)
(*                                                                         *)
(* The argument about engines is about who can stop one.  An engine that   *)
(* runs is the one in the slot, or in the hand of the thread that is about *)
(* to put it there or is killing it; and the registry serves at most one   *)
(* request of the client, so that nothing is under way once a client that  *)
(* ends between its requests has ended.                                    *)
(*                                                                         *)
(* The argument about clients is about who holds the mutex of a session,   *)
(* the live process between lock and unlock: what is in the header while   *)
(* its pid is not yet written, and that an owner is named there.           *)
(***************************************************************************)
EXTENDS Supervisor, Attachment, TLAPS

\* The places in the queue of requests other than registrations.
FromClient == {i \in 1 .. Len(queue) : queue[i].op # "register"}

Request == [op : {"register", "get", "load", "unload"}, from : Engines \cup {Client}]

Types ==
    /\ slot \in Nat /\ taken \in Nat /\ spawned \in Nat /\ queue \in Seq(Request)
    /\ proc \in [Engines -> {"none", "boot", "asking", "told", "up", "mute", "dead", "reaped"}]
    /\ srv \in [pc : {"idle", "check", "load", "loaded", "swap", "sleep", "answer", "take", "wait"}, engine : Nat]

\* Before the client is started there is only the first engine; the supervisor shuts
\* down when the client is gone, or has not been started.
Phases ==
    /\ main \in {"start", "spawn", "store", "sleep", "client", "wait", "stop", "join", "done"}
    /\ main \in {"start", "spawn"} => slot = 0 /\ spawned = 0
    /\ main = "store" => slot = 0
    /\ main \in {"start", "spawn", "store", "sleep"} => client = "none"
    /\ main = "client" => client # "none"
    /\ main \in {"wait", "stop", "join", "done"} => client \in {"gone", "none"}

\* The registry has at most one request of the client, and none when the client has not
\* asked.
OneRequest ==
    /\ \A i, j \in FromClient : i = j
    /\ srv.pc # "idle" => FromClient = {}
    /\ client \in {"none", "idle"} \/ (client = "gone" /\ ~hasty) => srv.pc = "idle" /\ FromClient = {}

\* Every running engine is in somebody's hand, and the registry has one only while the
\* slot is free.
Tracked ==
    /\ \A e \in Engines : Alive(e) =>
           /\ main \notin {"start", "spawn"}
           /\ main = "store" => e = 1
           /\ main \in {"sleep", "client"} => e = slot \/ (srv.pc \in {"swap", "wait"} /\ e = srv.engine)
           /\ main = "wait" => hasty \/ e = taken
           /\ main \in {"stop", "join", "done"} => hasty
    /\ main \in {"sleep", "client"} /\ srv.pc \in {"swap", "wait"} => slot = 0

IInv == Types /\ Phases /\ OneRequest /\ Tracked

\* The initial state satisfies the invariant.
LEMMA InitIInv == Init => IInv
<1>1. Init => Types
  BY SupervisorAssumption DEF Init, Types, IdleServer, Engines
<1>2. Init => Phases /\ OneRequest
  BY DEF Init, Phases, OneRequest, FromClient, IdleServer
<1>3. Init => Tracked
  BY Zenon DEF Init, Tracked, Alive, IdleServer
<1> QED
  BY <1>1, <1>2, <1>3, Zenon DEF IInv

-----------------------------------------------------------------------------
(* The queue.                                                               *)

\* A registration joins the queue.
LEMMA RegistrationJoins ==
    ASSUME Types, NEW e \in Engines, queue' = Append(queue, [op |-> "register", from |-> e])
    PROVE  queue' \in Seq(Request) /\ FromClient' = FromClient
<1> DEFINE r == [op |-> "register", from |-> e]
<1>1. r \in Request /\ r.op = "register"
  BY Zenon DEF Request
<1> HIDE DEF r
<1>2. queue \in Seq(Request) /\ queue' = Append(queue, r)
  BY Zenon DEF Types, r
<1>3. /\ queue' \in Seq(Request) /\ Len(queue') = Len(queue) + 1 /\ Len(queue) \in Nat
      /\ queue'[Len(queue) + 1] = r
      /\ \A i \in 1 .. Len(queue) : queue'[i] = queue[i]
  BY <1>1, <1>2
<1> QED
  BY <1>1, <1>3 DEF FromClient

\* A request of the client joins it.
LEMMA RequestJoins ==
    ASSUME Types, NEW op \in {"get", "load", "unload"}, queue' = Append(queue, [op |-> op, from |-> Client])
    PROVE  queue' \in Seq(Request) /\ FromClient' = FromClient \cup {Len(queue) + 1}
<1> DEFINE r == [op |-> op, from |-> Client]
<1>1. r \in Request /\ r.op # "register"
  BY Zenon DEF Request
<1> HIDE DEF r
<1>2. queue \in Seq(Request) /\ queue' = Append(queue, r)
  BY Zenon DEF Types, r
<1>3. /\ queue' \in Seq(Request) /\ Len(queue') = Len(queue) + 1 /\ Len(queue) \in Nat
      /\ queue'[Len(queue) + 1] = r
      /\ \A i \in 1 .. Len(queue) : queue'[i] = queue[i]
  BY <1>1, <1>2
<1> QED
  BY <1>1, <1>3 DEF FromClient

\* The first connection leaves it.
LEMMA FirstLeaves ==
    ASSUME Types, queue # <<>>, queue' = Tail(queue)
    PROVE  /\ queue' \in Seq(Request) /\ Head(queue) \in Request
           /\ Head(queue).op # "register" => 1 \in FromClient
           /\ \A i \in FromClient' : i + 1 \in FromClient /\ i \in Nat /\ i # 0
<1>1. queue \in Seq(Request)
  BY Zenon DEF Types
<1>2. /\ Len(queue) \in Nat /\ Len(queue) > 0 /\ Head(queue) = queue[1] /\ queue[1] \in Request
      /\ queue' \in Seq(Request) /\ Len(queue') = Len(queue) - 1
      /\ \A i \in 1 .. Len(queue) - 1 : queue'[i] = queue[i + 1]
  BY <1>1
<1> QED
  BY <1>2 DEF FromClient

-----------------------------------------------------------------------------
(* The steps.                                                               *)

\* A step that starts no engine, and changes neither what main() and the registry do
\* nor the slot, keeps every engine in its hand.
LEMMA TrackedKept ==
    ASSUME Tracked, UNCHANGED <<main, srv, slot, taken, hasty>>, \A e \in Engines : Alive(e)' => Alive(e)
    PROVE  Tracked'
BY DEF Tracked

\* Steps of an engine.
LEMMA EngineStep ==
    ASSUME IInv, NEW e \in Engines, EngineSteps(e) \/ EngineCrashes(e)
    PROVE  IInv'
<1> USE DEF IInv
<1>1. CASE PublishAsks(e)
  <2>1. queue' \in Seq(Request) /\ FromClient' = FromClient
    <3>1. CASE running
      BY <1>1, <3>1, RegistrationJoins, Zenon DEF PublishAsks
    <3>2. CASE ~running
      BY <1>1, <3>2, Zenon DEF PublishAsks, FromClient, Types
    <3> QED
      BY <3>1, <3>2, Zenon
  <2>2. Types'
    BY <1>1, <2>1, Zenon DEF PublishAsks, Types
  <2>3. Phases' /\ OneRequest'
    BY <1>1, <2>1, Zenon DEF PublishAsks, Phases, OneRequest, envVars, clientVars
  <2>4. \A d \in Engines : Alive(d)' => Alive(d)
    BY <1>1, Zenon DEF PublishAsks, Alive, Types
  <2> QED
    BY <1>1, <2>2, <2>3, <2>4, TrackedKept, Zenon DEF PublishAsks, envVars
<1>2. CASE PublishListens(e) \/ EngineExits(e) \/ EngineCrashes(e)
  <2>1. /\ UNCHANGED <<hasty, main, taken, slot, queue, srv, spawned, clientVars>>
        /\ \E s \in {"up", "dead"} : proc' = [proc EXCEPT ![e] = s]
        /\ Alive(e)
    BY <1>2, Zenon DEF PublishListens, EngineExits, EngineCrashes, Alive, envVars
  <2>2. Types'
    BY <2>1, Zenon DEF Types
  <2>3. Phases' /\ OneRequest'
    BY <2>1, Zenon DEF Phases, OneRequest, FromClient, clientVars
  <2>4. \A d \in Engines : Alive(d)' => Alive(d)
    BY <2>1, Zenon DEF Alive, Types
  <2> QED
    BY <2>1, <2>2, <2>3, <2>4, TrackedKept, Zenon
<1> QED
  BY <1>1, <1>2, Zenon DEF EngineSteps

\* Steps of the client.
LEMMA ClientStep ==
    ASSUME IInv, ClientExits \/ \E op \in {"get", "load", "unload"} : Ask(op)
    PROVE  IInv'
<1> USE DEF IInv
<1>1. CASE ClientExits
  <2>1. Types' /\ Phases'
    BY <1>1, Zenon DEF ClientExits, Types, Phases, processVars
  <2>2. OneRequest'
    BY <1>1, Zenon DEF ClientExits, OneRequest, FromClient, envVars
  <2>3. Tracked'
    BY <1>1, Zenon DEF ClientExits, Tracked, Alive, envVars, processVars
  <2> QED
    BY <2>1, <2>2, <2>3, Zenon
<1>2. ASSUME NEW op \in {"get", "load", "unload"}, Ask(op)
      PROVE  IInv'
  <2>1. queue' \in Seq(Request) /\ FromClient' = FromClient \cup {Len(queue) + 1}
    BY <1>2, RequestJoins, Zenon DEF Ask
  <2>2. Types' /\ Phases'
    BY <1>2, <2>1, Zenon DEF Ask, Types, Phases, processVars
  <2>3. FromClient = {} /\ srv.pc = "idle"
    BY <1>2, Zenon DEF Ask, OneRequest
  <2>4. OneRequest'
    BY <1>2, <2>1, <2>3, Zenon DEF Ask, OneRequest
  <2>5. Tracked'
    BY <1>2, Zenon DEF Ask, Tracked, Alive, envVars, processVars
  <2> QED
    BY <2>2, <2>4, <2>5, Zenon
<1> QED
  BY <1>1, <1>2, Zenon

\* The registry takes a connection.
LEMMA AcceptStep ==
    ASSUME IInv, Accept
    PROVE  IInv'
<1> DEFINE r == Head(queue)
<1> USE DEF IInv
<1>1. /\ queue' \in Seq(Request) /\ r \in Request
      /\ r.op # "register" => 1 \in FromClient
      /\ \A i \in FromClient' : i + 1 \in FromClient /\ i \in Nat /\ i # 0
  BY FirstLeaves, Zenon DEF Accept
<1>2. \A i, j \in FromClient' : i = j
  BY <1>1 DEF OneRequest
<1>3. r.op # "register" => FromClient' = {}
  BY <1>1 DEF OneRequest
<1>4. FromClient = {} => FromClient' = {}
  BY <1>1, Zenon
<1>5. UNCHANGED <<main, taken, slot, spawned, hasty>> /\ srv.pc = "idle"
  BY Zenon DEF Accept
<1>6. r.op \in {"register", "get", "load", "unload"}
  BY <1>1, Zenon DEF Request
<1>7. CASE r.op = "register"
  <2>1. UNCHANGED <<srv, client>> /\ proc' = [proc EXCEPT ![r.from] = IF @ = "asking" THEN "told" ELSE @]
    BY <1>7, Zenon DEF Accept
  <2>2. Types' /\ Phases'
    BY <1>1, <1>5, <2>1, Zenon DEF Types, Phases
  <2>3. OneRequest'
    BY <1>2, <1>4, <1>5, <2>1, Zenon DEF OneRequest
  <2>4. \A e \in Engines : Alive(e)' => Alive(e)
    BY <2>1, Zenon DEF Alive, Types
  <2> QED
    BY <1>5, <2>1, <2>2, <2>3, <2>4, TrackedKept, Zenon
<1>8. CASE r.op # "register"
  <2>1. /\ UNCHANGED proc
        /\ \/ srv' = IdleServer /\ client' = IF client = "waiting" THEN "idle" ELSE client
           \/ \E pc \in {"check", "take"} : srv' = [srv EXCEPT !.pc = pc] /\ UNCHANGED client
    BY <1>6, <1>8, Zenon DEF Accept, Reply, Goto
  <2>2. srv' \in [pc : {"idle", "check", "take"}, engine : Nat]
    BY <2>1 DEF Types, IdleServer
  <2>3. client # "idle" /\ client # "none" /\ ~(client = "gone" /\ ~hasty)
    BY <1>1, <1>8, Zenon DEF OneRequest
  <2>4. Types' /\ Phases'
    BY <1>1, <1>5, <2>1, <2>2, <2>3, Zenon DEF Types, Phases
  <2>5. OneRequest'
    BY <1>3, <1>5, <1>8, <2>1, <2>3 DEF OneRequest, IdleServer
  <2>6. Tracked'
    BY <1>5, <2>1, <2>2, Zenon DEF Tracked, Alive
  <2> QED
    BY <2>4, <2>5, <2>6, Zenon
<1> QED
  BY <1>7, <1>8, Zenon

\* The accept thread at another place.
LEMMA SrvAt ==
    ASSUME Types, NEW p, srv' = [srv EXCEPT !.pc = p] PROVE srv'.pc = p /\ srv'.engine = srv.engine
BY Zenon DEF Types

\* The load callback starts an engine, or has nothing to do or no luck.
LEMMA LoadCallbackIs ==
    ASSUME Types, LoadCallback
    PROVE  \/ srv'.pc = "answer" /\ srv'.engine = srv.engine /\ UNCHANGED <<proc, spawned>>
           \/ /\ slot = 0 /\ SpawnEngine /\ srv' = [pc |-> "swap", engine |-> spawned + 1]
              /\ srv'.pc = "swap" /\ srv'.engine = spawned + 1
<1>1. \/ srv' = [srv EXCEPT !.pc = "answer"] /\ UNCHANGED <<proc, spawned>>
      \/ slot = 0 /\ SpawnEngine /\ srv' = [pc |-> "swap", engine |-> spawned + 1]
  BY Zenon DEF LoadCallback, Goto
<1>2. CASE srv' = [srv EXCEPT !.pc = "answer"] /\ UNCHANGED <<proc, spawned>>
  BY <1>2, SrvAt, Zenon
<1>3. CASE slot = 0 /\ SpawnEngine /\ srv' = [pc |-> "swap", engine |-> spawned + 1]
  BY <1>3, Zenon
<1> QED
  BY <1>1, <1>2, <1>3, Zenon

\* The registry goes on with the request it has taken.
LEMMA ServeStep ==
    ASSUME IInv, Registry, ~Accept
    PROVE  IInv'
<1> USE DEF IInv
<1>1. UNCHANGED <<main, taken, queue, hasty>> /\ srv.pc # "idle"
  BY Zenon DEF Registry, CheckService, LoadCallback, LoadSwaps, LoadSleeps, Answer, UnloadTakes, RegistryWaits, envVars
<1>2. FromClient = {} /\ FromClient' = {}
  BY <1>1, Zenon DEF OneRequest, FromClient
<1>3. client \notin {"none", "idle"} /\ ~(client = "gone" /\ ~hasty)
  BY <1>1, Zenon DEF OneRequest
<1>4. main \notin {"start", "spawn", "store", "sleep"}
  BY <1>3, Zenon DEF Phases
<1>5. \/ srv' = IdleServer /\ client' = IF client = "waiting" THEN "idle" ELSE client
      \/ UNCHANGED client
  BY Zenon DEF Registry, CheckService, LoadCallback, LoadSwaps, LoadSleeps, Answer, UnloadTakes, RegistryWaits, Reply, Goto
<1>6. Phases' /\ OneRequest'
  BY <1>1, <1>2, <1>3, <1>4, <1>5 DEF Phases, OneRequest, IdleServer
<1>7. Types' /\ Tracked'
  <2>1. CASE CheckService \/ LoadSleeps \/ Answer
    <3>1. /\ UNCHANGED <<slot, spawned, proc>> /\ srv.pc \in {"check", "sleep", "loaded", "answer"}
          /\ \/ srv' = IdleServer
             \/ \E pc \in {"loaded", "load", "answer"} : srv' = [srv EXCEPT !.pc = pc]
      BY <2>1, Zenon DEF CheckService, LoadSleeps, Answer, Reply, Goto, processVars
    <3>2. srv' \in [pc : {"idle", "loaded", "load", "answer"}, engine : Nat]
      BY <3>1 DEF Types, IdleServer
    <3> QED
      BY <1>1, <3>1, <3>2, Zenon DEF Types, Tracked, Alive
  <2>2. CASE LoadCallback
    <3>1. CASE Goto("answer") /\ UNCHANGED <<proc, spawned>>
      <4>1. srv' = [srv EXCEPT !.pc = "answer"] /\ srv.pc = "load" /\ UNCHANGED <<slot, spawned, proc>>
        BY <2>2, <3>1, Zenon DEF LoadCallback, Goto
      <4> QED
        BY <1>1, <4>1, Zenon DEF Types, Tracked, Alive
    <3>2. CASE slot = 0 /\ SpawnEngine /\ srv' = [pc |-> "swap", engine |-> spawned + 1]
      <4>1. /\ srv' = [pc |-> "swap", engine |-> spawned + 1] /\ srv.pc = "load" /\ UNCHANGED slot
            /\ spawned' = spawned + 1 /\ proc' = [proc EXCEPT ![spawned + 1] = "boot"] /\ slot = 0
        BY <2>2, <3>2, Zenon DEF LoadCallback, SpawnEngine
      <4>2. Types'
        <5>1. spawned' \in Nat /\ slot' \in Nat /\ taken' \in Nat /\ queue' \in Seq(Request)
          BY <1>1, <4>1 DEF Types
        <5>2. srv' \in [pc : {"swap"}, engine : Nat]
          BY <4>1, <5>1, Zenon
        <5>3. proc' \in [Engines -> {"none", "boot", "asking", "told", "up", "mute", "dead", "reaped"}]
          BY <4>1, Zenon DEF Types
        <5> QED
          BY <5>1, <5>2, <5>3, Zenon DEF Types
      <4>3. \A e \in Engines : Alive(e)' => Alive(e) \/ e = srv'.engine
        BY <4>1, Zenon DEF Alive, Types
      <4>4. \A e \in Engines : e # 0
        BY DEF Engines
      <4>5. main \in {"wait", "stop", "join", "done"} => hasty
        BY <1>3, Zenon DEF Phases
      <4>6. Tracked'
        BY <1>1, <1>4, <4>1, <4>3, <4>4, <4>5, Zenon DEF Tracked
      <4> QED
        BY <4>2, <4>6, Zenon
    <3> QED
      BY <2>2, <3>1, <3>2, Zenon DEF LoadCallback
  <2>3. CASE LoadSwaps
    <3>1. CASE slot = 0
      <4>1. srv' = [srv EXCEPT !.pc = "sleep"] /\ srv.pc = "swap" /\ slot' = srv.engine /\ UNCHANGED <<spawned, proc>>
        BY <2>3, <3>1, Zenon DEF LoadSwaps, Goto
      <4> QED
        BY <1>1, <3>1, <4>1 DEF Types, Tracked, Alive, Engines
    <3>2. CASE slot # 0
      <4>1. srv' = [srv EXCEPT !.pc = "wait"] /\ srv.pc = "swap" /\ UNCHANGED <<slot, spawned, proc>>
        BY <2>3, <3>2, Zenon DEF LoadSwaps, Goto
      <4> QED
        BY <1>1, <4>1, Zenon DEF Types, Tracked, Alive
    <3> QED
      BY <3>1, <3>2, Zenon
  <2>4. CASE UnloadTakes
    <3>1. /\ srv.pc = "take" /\ slot' = 0 /\ UNCHANGED <<spawned, proc>>
          /\ (slot = 0 /\ srv' = IdleServer) \/ srv' = [pc |-> "wait", engine |-> slot]
      BY <2>4, Zenon DEF UnloadTakes, Reply
    <3> QED
      BY <1>1, <3>1 DEF Types, Tracked, Alive, IdleServer
  <2>5. CASE RegistryWaits
    <3>1. /\ srv.pc = "wait" /\ proc[srv.engine] = "dead" /\ proc' = [proc EXCEPT ![srv.engine] = "reaped"]
          /\ srv' = IdleServer /\ UNCHANGED <<slot, spawned>>
      BY <2>5, Zenon DEF RegistryWaits, Reply
    <3>2. Types'
      BY <1>1, <3>1, Zenon DEF Types, IdleServer
    <3>3. \A e \in Engines : Alive(e)' => Alive(e) /\ e # srv.engine
      BY <3>1, Zenon DEF Alive, Types
    <3> QED
      BY <1>1, <3>1, <3>2, <3>3, Zenon DEF Tracked, IdleServer
  <2> QED
    BY <2>1, <2>2, <2>3, <2>4, <2>5, Zenon DEF Registry
<1> QED
  BY <1>6, <1>7, Zenon

\* Steps of main().
LEMMA MainStep ==
    ASSUME IInv, Main
    PROVE  IInv'
<1> USE DEF IInv
<1>1. CASE StartRegistry \/ StoreEngine \/ JoinRegistry
  <2>1. UNCHANGED <<hasty, taken, queue, srv, proc, spawned, client>>
    BY <1>1, Zenon DEF StartRegistry, StoreEngine, JoinRegistry, envVars, processVars, clientVars
  <2>2. \/ main = "start" /\ main' = "spawn" /\ UNCHANGED slot
        \/ main = "store" /\ main' = "sleep" /\ slot' = 1
        \/ main = "join" /\ main' = "done" /\ UNCHANGED slot
    BY <1>1, Zenon DEF StartRegistry, StoreEngine, JoinRegistry
  <2>3. Types' /\ Phases'
    BY <2>1, <2>2 DEF Types, Phases
  <2>4. OneRequest'
    BY <2>1, Zenon DEF OneRequest, FromClient
  <2>5. main = "store" => srv.pc = "idle"
    BY Zenon DEF Phases, OneRequest
  <2>6. Tracked'
    BY <2>1, <2>2, <2>5, Zenon DEF Tracked, Alive
  <2> QED
    BY <2>3, <2>4, <2>6, Zenon
<1>2. CASE StartEngine /\ main' = "store"
  <2>1. /\ UNCHANGED <<hasty, taken, slot, queue, srv, client>> /\ main = "spawn" /\ main' = "store"
        /\ spawned = 0 /\ spawned' = spawned + 1 /\ proc' = [proc EXCEPT ![spawned + 1] = "boot"]
    <3>1. SpawnEngine
      BY <1>2, Zenon DEF StartEngine
    <3> QED
      BY <1>2, <3>1, Zenon DEF StartEngine, SpawnEngine, envVars, clientVars, Phases
  <2>2. spawned + 1 = 1
    BY <2>1, SMT, Z3
  <2>3. Types' /\ Phases'
    <3>0. 1 \in Nat
      BY SMT, Z3
    <3>1. spawned' \in Nat /\ proc' \in [Engines -> {"none", "boot", "asking", "told", "up", "mute", "dead", "reaped"}]
      BY <2>1, <2>2, <3>0, Zenon DEF Types
    <3>2. Types'
      BY <2>1, <3>1, Zenon DEF Types
    <3>3. Phases'
      BY <2>1, Zenon DEF Phases
    <3> QED
      BY <3>2, <3>3, Zenon
  <2>4. OneRequest'
    BY <2>1, Zenon DEF OneRequest, FromClient
  <2>5. \A e \in Engines : Alive(e)' => e = 1
    BY <2>1, <2>2, Zenon DEF Tracked, Alive, Types
  <2>6. Tracked'
    BY <2>1, <2>5, Zenon DEF Tracked
  <2> QED
    BY <2>3, <2>4, <2>6, Zenon
<1>7. CASE StartEngine /\ main' # "store"
  <2>1. /\ UNCHANGED <<hasty, taken, slot, queue, srv, client, spawned, proc>> /\ main = "spawn" /\ main' = "stop"
    BY <1>7, Zenon DEF StartEngine, envVars, clientVars
  <2>2. Types' /\ Phases'
    BY <2>1, Zenon DEF Types, Phases
  <2>3. OneRequest'
    BY <2>1, Zenon DEF OneRequest, FromClient
  <2>4. Tracked'
    BY <2>1, Zenon DEF Tracked, Alive
  <2> QED
    BY <2>2, <2>3, <2>4, Zenon
<1>3. CASE RunClient
  <2>1. /\ UNCHANGED <<hasty, taken, slot, queue, srv, spawned, proc>> /\ main = "sleep" /\ main' = "client"
        /\ client' \in {"idle", "gone"}
    BY <1>3, Zenon DEF RunClient, envVars, processVars
  <2> QED
    BY <2>1 DEF Types, Phases, OneRequest, FromClient, Tracked, Alive
<1>4. CASE ShutdownKills
  <2>1. /\ UNCHANGED <<hasty, queue, srv, spawned, proc, client>> /\ main = "client" /\ client = "gone"
        /\ slot' = 0 /\ taken' = slot /\ main' = IF slot = 0 THEN "stop" ELSE "wait"
    BY <1>4, Zenon DEF ShutdownKills, envVars, clientVars
  <2>2. Types' /\ Phases'
    BY <2>1, Zenon DEF Types, Phases
  <2>3. OneRequest'
    BY <2>1, Zenon DEF OneRequest, FromClient
  <2>4. \A e \in Engines : Alive(e) /\ ~hasty => e = slot /\ e # 0
    BY <2>1 DEF OneRequest, Tracked, Engines
  <2>5. Tracked'
    BY <2>1, <2>4, Zenon DEF Tracked, Alive
  <2> QED
    BY <2>2, <2>3, <2>5, Zenon
<1>5. CASE ShutdownWaits
  <2>1. /\ UNCHANGED <<hasty, taken, slot, queue, srv, spawned, client>> /\ main = "wait" /\ main' = "stop"
        /\ proc[taken] = "dead" /\ proc' = [proc EXCEPT ![taken] = "reaped"]
    BY <1>5, Zenon DEF ShutdownWaits, envVars, clientVars
  <2>2. Types' /\ Phases'
    BY <2>1, Zenon DEF Types, Phases
  <2>3. OneRequest'
    BY <2>1, Zenon DEF OneRequest, FromClient
  <2>4. \A e \in Engines : Alive(e)' => Alive(e) /\ e # taken
    BY <2>1, Zenon DEF Alive, Types
  <2>5. Tracked'
    BY <2>1, <2>4, Zenon DEF Tracked
  <2> QED
    BY <2>2, <2>3, <2>5, Zenon
<1>6. CASE StopRegistry
  <2>1. /\ UNCHANGED <<hasty, taken, slot, srv, spawned, client>> /\ main = "stop" /\ main' = "join"
        /\ queue' = <<>> /\ proc' = [e \in Engines |-> IF proc[e] = "asking" THEN "mute" ELSE proc[e]]
    BY <1>6, Zenon DEF StopRegistry, envVars, clientVars
  <2>2. Types' /\ Phases'
    BY <2>1 DEF Types, Phases
  <2>3. FromClient' = {}
    BY <2>1 DEF FromClient
  <2>4. OneRequest'
    BY <2>1, <2>3, Zenon DEF OneRequest
  <2>5. \A e \in Engines : Alive(e)' => Alive(e)
    BY <2>1, Zenon DEF Alive, Types
  <2>6. Tracked'
    BY <2>1, <2>5, Zenon DEF Tracked
  <2> QED
    BY <2>2, <2>4, <2>6, Zenon
<1> QED
  BY <1>1, <1>2, <1>3, <1>4, <1>5, <1>6, <1>7, Zenon DEF Main

-----------------------------------------------------------------------------
(* The theorems.                                                            *)

\* Who has which engine, and what the registry has to do, in every state of the
\* supervisor.
THEOREM EveryEngineTracked == Spec => []IInv
<1>1. ASSUME IInv, [Next]_vars PROVE IInv'
  <2>1. CASE Main
    BY <1>1, <2>1, MainStep, Zenon
  <2>2. CASE Registry
    BY <1>1, <2>2, AcceptStep, ServeStep, Zenon
  <2>3. CASE ClientExits \/ \E op \in {"get", "load", "unload"} : Ask(op)
    BY <1>1, <2>3, ClientStep, Zenon
  <2>4. CASE \E e \in Engines : EngineSteps(e) \/ EngineCrashes(e)
    BY <1>1, <2>4, EngineStep, Zenon
  <2>5. CASE UNCHANGED vars
    BY <1>1, <2>5, ZenonT(60) DEF vars, IInv, Types, Phases, OneRequest, FromClient, Tracked, Alive
  <2> QED
    BY <1>1, <2>1, <2>2, <2>3, <2>4, <2>5, Zenon DEF Next
<1> QED
  BY <1>1, InitIInv, PTL DEF Spec

\* No second engine is started beside a running one, whatever the client asks, however
\* often engines crash and whenever they do: g_engine_pid names the engine, or the
\* thread that took it or has just started it holds it while g_engine_pid is free.
THEOREM EnginesExclude == Spec => []OneEngine
<1>1. IInv => OneEngine
  <2>1. \A e \in Engines : e # 0
    BY DEF Engines
  <2> QED
    BY <2>1, Zenon DEF IInv, Phases, Tracked, OneEngine
<1> QED
  BY <1>1, EveryEngineTracked, PTL

\* A supervisor that is done has left no engine behind, if its client ended between its
\* requests.
THEOREM SupervisorLeavesNone == Spec => []NoEngineLeft
<1>1. IInv => NoEngineLeft
  BY Zenon DEF IInv, Tracked, NoEngineLeft
<1> QED
  BY <1>1, EveryEngineTracked, PTL

-----------------------------------------------------------------------------
(* Types.  That spawned stays below the number of Engines takes an argument: *)
(* every start but the first uses up a request of the client.               *)

Budget ==
    /\ spawned <= asked + 1
    /\ FromClient # {} \/ srv.pc \in {"check", "load"} => spawned <= asked

\* The fields whose values TypeOK bounds by the number of engines.
Named ==
    /\ slot \in Engines \cup {0} /\ taken \in Engines \cup {0} /\ srv.engine \in Engines \cup {0}
    /\ signalled \subseteq Engines /\ listener \in Engines \cup {0} /\ spawned \in Engines \cup {0}
    /\ srv.pc = "swap" => srv.engine # 0

Plain ==
    /\ running \in BOOLEAN /\ registered \in BOOLEAN /\ prompt \in BOOLEAN /\ hasty \in BOOLEAN /\ lost \in BOOLEAN
    /\ client \in {"none", "idle", "waiting", "gone"}
    /\ asked \in 0 .. MaxRequests /\ crashes \in 0 .. MaxCrashes

\* A request is accounted for when it is asked, and used up when it starts an engine.
LEMMA BudgetStep == ASSUME IInv, asked \in Nat, Budget, [Next]_vars PROVE Budget'
<1> USE DEF IInv
<1>0. spawned \in Nat /\ srv.pc \in {"idle", "check", "load", "loaded", "swap", "sleep", "answer", "take", "wait"}
  BY Zenon DEF Types
<1>1. CASE Accept
  <2>1. /\ Head(queue).op # "register" => 1 \in FromClient
        /\ \A i \in FromClient' : i + 1 \in FromClient
    BY <1>1, FirstLeaves, Zenon DEF Accept
  <2>2. Head(queue).op \in {"register", "get", "load", "unload"}
    BY <1>1, FirstLeaves, Zenon DEF Accept, Request
  <2>3. UNCHANGED <<spawned, asked>> /\ srv.pc = "idle" /\ (Head(queue).op = "register" => srv' = srv)
    BY <1>1, Zenon DEF Accept
  <2> QED
    BY <2>1, <2>2, <2>3, Zenon DEF Budget
<1>2. CASE LoadCallback
  <2>1. UNCHANGED <<queue, asked>> /\ srv.pc = "load" /\ FromClient = {} /\ FromClient' = {}
    BY <1>2, Zenon DEF LoadCallback, OneRequest, FromClient
  <2>2. srv'.pc \in {"answer", "swap"}
    BY <1>2, LoadCallbackIs, Zenon
  <2>3. spawned' \in {spawned, spawned + 1}
    BY <1>2, Zenon DEF LoadCallback, SpawnEngine
  <2> QED
    BY <1>0, <2>1, <2>2, <2>3 DEF Budget
<1>3. CASE Registry /\ ~Accept /\ ~LoadCallback
  <2>1. UNCHANGED <<queue, spawned, asked>> /\ FromClient' = FromClient
    BY <1>3, Zenon DEF Registry, CheckService, LoadSwaps, LoadSleeps, Answer, UnloadTakes, RegistryWaits, FromClient,
                processVars
  <2>2. srv'.pc \in {"check", "load"} => srv.pc = "check"
    BY <1>3 DEF Registry, CheckService, LoadSwaps, LoadSleeps, Answer, UnloadTakes, RegistryWaits, Reply, Goto,
                IdleServer, Types
  <2> QED
    BY <2>1, <2>2, Zenon DEF Budget
<1>4. CASE StartEngine
  <2>1. UNCHANGED <<queue, srv, asked>> /\ spawned = 0 /\ spawned' \in {0, spawned + 1} /\ client = "none"
    BY <1>4, Zenon DEF StartEngine, SpawnEngine, clientVars, Phases
  <2>2. FromClient' = {} /\ srv'.pc = "idle"
    BY <2>1, Zenon DEF OneRequest, FromClient
  <2> QED
    BY <2>1, <2>2, SMT, Z3 DEF Budget
<1>5. CASE Main /\ ~StartEngine
  <2>1. UNCHANGED <<srv, spawned, asked>> /\ queue' \in {queue, <<>>}
    BY <1>5, Zenon DEF Main, StartRegistry, StoreEngine, RunClient, ShutdownKills, ShutdownWaits, StopRegistry,
                JoinRegistry, processVars, clientVars
  <2>2. FromClient' \in {FromClient, {}}
    BY <2>1 DEF FromClient
  <2> QED
    BY <2>1, <2>2, Zenon DEF Budget
<1>6. ASSUME NEW op \in {"get", "load", "unload"}, Ask(op) PROVE Budget'
  <2>1. UNCHANGED <<srv, spawned>> /\ asked' = asked + 1
    BY <1>6, Zenon DEF Ask, processVars
  <2> QED
    BY <1>0, <2>1 DEF Budget
<1>7. ASSUME NEW e \in Engines, PublishAsks(e) PROVE Budget'
  <2>1. FromClient' = FromClient
    <3>1. CASE running
      BY <1>7, <3>1, RegistrationJoins, Zenon DEF PublishAsks
    <3>2. CASE ~running
      BY <1>7, <3>2, Zenon DEF PublishAsks, FromClient
    <3> QED
      BY <3>1, <3>2, Zenon
  <2> QED
    BY <1>7, <2>1, Zenon DEF PublishAsks, Budget, clientVars
<1>8. ASSUME NEW e \in Engines, PublishListens(e) \/ EngineExits(e) \/ EngineCrashes(e) PROVE Budget'
  BY <1>8, Zenon DEF PublishListens, EngineExits, EngineCrashes, Budget, FromClient, clientVars
<1>9. CASE ClientExits \/ UNCHANGED vars
  BY <1>9, Zenon DEF ClientExits, Budget, FromClient, vars, processVars
<1> QED
  BY <1>1, <1>2, <1>3, <1>4, <1>5, <1>6, <1>7, <1>8, <1>9, Zenon DEF Next, Registry, EngineSteps

\* What has no connection with the number of engines.
LEMMA PlainStep == ASSUME IInv, Plain, [Next]_vars PROVE Plain'
<1>1. asked' \in 0 .. MaxRequests /\ crashes' \in 0 .. MaxCrashes
  <2>1. asked' = asked \/ (asked < MaxRequests /\ asked' = asked + 1)
    BY Zenon DEF Next, vars, Main, StartRegistry, StartEngine, StoreEngine, RunClient, ShutdownKills, ShutdownWaits,
           StopRegistry, JoinRegistry, Registry, Accept, CheckService, LoadCallback, LoadSwaps, LoadSleeps, Answer,
           UnloadTakes, RegistryWaits, ClientExits, Ask, EngineSteps, PublishAsks, PublishListens, EngineExits,
           EngineCrashes, clientVars
  <2>2. crashes' = crashes \/ (crashes < MaxCrashes /\ crashes' = crashes + 1)
    BY Zenon DEF Next, vars, Main, StartRegistry, StartEngine, StoreEngine, RunClient, ShutdownKills, ShutdownWaits,
           StopRegistry, JoinRegistry, Registry, Accept, CheckService, LoadCallback, LoadSwaps, LoadSleeps, Answer,
           UnloadTakes, RegistryWaits, ClientExits, Ask, EngineSteps, PublishAsks, PublishListens, EngineExits,
           EngineCrashes, processVars
  <2> QED
    BY <2>1, <2>2, SupervisorAssumption DEF Plain
<1>2. UNCHANGED <<prompt, hasty>>
  BY Zenon DEF Next, vars, Main, StartRegistry, StartEngine, StoreEngine, RunClient, ShutdownKills, ShutdownWaits,
         StopRegistry, JoinRegistry, Registry, Accept, CheckService, LoadCallback, LoadSwaps, LoadSleeps, Answer,
         UnloadTakes, RegistryWaits, ClientExits, Ask, EngineSteps, PublishAsks, PublishListens, EngineExits,
         EngineCrashes, envVars
<1>5. lost' \in BOOLEAN
  <2>1. CASE Accept
    <3>1. Head(queue).op \in {"register", "get", "load", "unload"}
      BY <2>1, FirstLeaves, Zenon DEF Accept, IInv, Request
    <3> QED
      BY <2>1, <3>1, Zenon DEF Accept, Plain
  <2>2. CASE ~Accept
    BY <2>2, Zenon DEF Plain, Next, vars, Main, StartRegistry, StartEngine, StoreEngine, RunClient, ShutdownKills,
           ShutdownWaits, StopRegistry, JoinRegistry, Registry, CheckService, LoadCallback, LoadSwaps, LoadSleeps, Answer,
           UnloadTakes, RegistryWaits, ClientExits, Ask, EngineSteps, PublishAsks, PublishListens, EngineExits,
           EngineCrashes, envVars
  <2> QED
    BY <2>1, <2>2, Zenon
<1>3. running' \in {running, TRUE, FALSE}
  BY Zenon DEF Next, vars, Main, StartRegistry, StartEngine, StoreEngine, RunClient, ShutdownKills, ShutdownWaits,
         StopRegistry, JoinRegistry, Registry, Accept, CheckService, LoadCallback, LoadSwaps, LoadSleeps, Answer,
         UnloadTakes, RegistryWaits, ClientExits, Ask, EngineSteps, PublishAsks, PublishListens, EngineExits,
         EngineCrashes
<1>4. registered' \in BOOLEAN /\ client' \in {client, "idle", "waiting", "gone"}
  <2>1. CASE Accept
    <3>1. Head(queue).op \in {"register", "get", "load", "unload"}
      BY <2>1, FirstLeaves, Zenon DEF Accept, IInv, Request
    <3>2. registered' \in {registered, TRUE, FALSE}
      BY <2>1, <3>1, Zenon DEF Accept
    <3>3. client' \in {client, "idle"}
      BY <2>1, <3>1, Zenon DEF Accept, Reply, Goto
    <3> QED
      BY <3>2, <3>3, Zenon DEF Plain
  <2>2. CASE CheckService
    BY <2>2, Zenon DEF CheckService, Goto
  <2>3. CASE ~Accept /\ ~CheckService
    BY <2>3, Zenon DEF Plain, Next, vars, Main, StartRegistry, StartEngine, StoreEngine, RunClient, ShutdownKills,
                ShutdownWaits, StopRegistry, JoinRegistry, Registry, LoadCallback, LoadSwaps, LoadSleeps, Answer,
                UnloadTakes, RegistryWaits, Reply, Goto, ClientExits, Ask, EngineSteps, PublishAsks, PublishListens,
                EngineExits, EngineCrashes, clientVars
  <2> QED
    BY <2>1, <2>2, <2>3, Zenon
<1> QED
  BY <1>1, <1>2, <1>3, <1>4, <1>5, Zenon DEF Plain

\* Within the budget there are engines enough.
LEMMA BudgetIsEnough ==
    ASSUME NEW n \in Nat, NEW a \in 0 .. MaxRequests, n <= a + 1
    PROVE  n \in Engines \cup {0}
<1>1. n = 0 \/ n \in 1 .. MaxRequests + 1
  BY SupervisorAssumption
<1> QED
  BY <1>1, Zenon DEF Engines

\* Whoever is named is an engine that was started.
LEMMA NamedStep == ASSUME IInv, IInv', Plain', Budget', Named, [Next]_vars PROVE Named'
<1>1. spawned' \in Engines \cup {0}
  <2>1. spawned' \in Nat /\ asked' \in 0 .. MaxRequests /\ spawned' <= asked' + 1
    BY Zenon DEF IInv, Types, Plain, Budget
  <2> QED
    BY <2>1, BudgetIsEnough, Zenon
<1>2. 1 \in Engines
  BY SupervisorAssumption DEF Engines
<1>3. srv \in [pc : {"idle", "check", "load", "loaded", "swap", "sleep", "answer", "take", "wait"}, engine : Nat]
  BY Zenon DEF IInv, Types
<1>4. CASE Main
  BY <1>1, <1>2, <1>4, Zenon DEF Named, Main, StartRegistry, StartEngine, StoreEngine, RunClient, ShutdownKills,
                          ShutdownWaits, StopRegistry, JoinRegistry, processVars
<1>5. CASE Accept
  <2>1. Head(queue).op \in {"register", "get", "load", "unload"}
    BY <1>5, FirstLeaves, Zenon DEF Accept, IInv, Request
  <2>2. \/ srv' = srv \/ srv' = IdleServer
        \/ \E pc \in {"check", "take"} : srv' = [srv EXCEPT !.pc = pc]
    BY <1>5, <2>1, Zenon DEF Accept, Reply, Goto
  <2>3. srv'.engine \in {srv.engine, 0} /\ (srv'.pc = "swap" => srv'.engine # 0)
    BY <1>3, <2>2 DEF Named, IdleServer
  <2>4. UNCHANGED <<slot, taken, signalled, listener>>
    BY <1>5, Zenon DEF Accept
  <2> QED
    BY <1>1, <2>3, <2>4, Zenon DEF Named
<1>6. CASE LoadCallback
  <2>1. srv'.engine \in {srv.engine, spawned'} /\ (srv'.pc = "swap" => srv'.engine = spawned + 1)
    BY <1>6, LoadCallbackIs, Zenon DEF SpawnEngine, IInv
  <2>2. spawned + 1 # 0
    BY DEF IInv, Types
  <2> QED
    BY <1>1, <1>6, <2>1, <2>2, Zenon DEF Named, LoadCallback
<1>7. CASE Registry /\ ~Accept /\ ~LoadCallback
  <2>1. srv'.engine \in {srv.engine, slot, 0} /\ srv'.pc # "swap"
    BY <1>3, <1>7 DEF Registry, CheckService, LoadSwaps, LoadSleeps, Answer, UnloadTakes, RegistryWaits, Reply, Goto,
                      IdleServer
  <2>2. UNCHANGED <<taken, listener>> /\ slot' \in {slot, srv.engine, 0}
    BY <1>7, Zenon DEF Registry, CheckService, LoadSwaps, LoadSleeps, Answer, UnloadTakes, RegistryWaits, processVars
  <2>3. \/ UNCHANGED signalled
        \/ srv.pc = "swap" /\ signalled' = signalled \cup {srv.engine}
        \/ slot # 0 /\ signalled' = signalled \cup {slot}
    BY <1>7, Zenon DEF Registry, CheckService, LoadSwaps, LoadSleeps, Answer, UnloadTakes, RegistryWaits, processVars
  <2> QED
    BY <1>1, <2>1, <2>2, <2>3, Zenon DEF Named
<1>8. CASE ClientExits \/ (\E op \in {"get", "load", "unload"} : Ask(op)) \/ UNCHANGED vars
  BY <1>8, Zenon DEF Named, ClientExits, Ask, vars, processVars
<1>9. ASSUME NEW e \in Engines, EngineSteps(e) \/ EngineCrashes(e) PROVE Named'
  BY <1>9, Zenon DEF Named, EngineSteps, PublishAsks, PublishListens, EngineExits, EngineCrashes
<1> QED
  BY <1>4, <1>5, <1>6, <1>7, <1>8, <1>9, Zenon DEF Next, Registry

\* The initial state has its types.
LEMMA InitTypes == Init => Budget /\ Named /\ Plain
<1>1. Init => Budget
  BY DEF Init, Budget, FromClient, IdleServer
<1>2. Init => Named
  BY DEF Init, Named, IdleServer
<1>3. Init => asked \in 0 .. MaxRequests /\ crashes \in 0 .. MaxCrashes
  BY SupervisorAssumption DEF Init
<1>4. Init => Plain
  BY <1>3, Zenon DEF Init, Plain
<1> QED
  BY <1>1, <1>2, <1>4, Zenon

\* Every variable has its type; in particular no more engines are started than the
\* client has made requests, and one: a load starts one at most.
THEOREM TypeCorrect == Spec => []TypeOK
<1> DEFINE TInv == IInv /\ Budget /\ Named /\ Plain
<1>1. ASSUME TInv, IInv', [Next]_vars PROVE TInv'
  <2>1. asked \in Nat
    BY <1>1 DEF Plain
  <2>2. Budget' /\ Plain'
    BY <1>1, <2>1, BudgetStep, PlainStep, Zenon
  <2> QED
    BY <1>1, <2>2, NamedStep, Zenon
<1>2. TInv => TypeOK
  <2>1. ASSUME Types, Named PROVE srv \in [pc : {"idle", "check", "load", "loaded", "swap", "sleep", "answer", "take",
                                                 "wait"}, engine : Engines \cup {0}]
    BY <2>1, Zenon DEF Types, Named
  <2> QED
    BY <2>1, Zenon DEF TypeOK, IInv, Types, Phases, Named, Plain, Request
<1> QED
  BY <1>1, <1>2, InitTypes, EveryEngineTracked, PTL DEF Spec

-----------------------------------------------------------------------------
(* The path that a get or a load answers with.  A listener goes away when   *)
(* its engine crashes or has been sent SIGTERM, and until the shutdown the  *)
(* only engine that runs and was sent SIGTERM is the one the registry waits *)
(* for: by then it has forgotten the path.                                  *)

\* The supervisor has not begun to shut down.
BeforeShutdown == main \in {"start", "spawn", "store", "sleep", "client"}

\* Engines are numbered as they are started, and a signal goes to one that was started.
Numbered ==
    /\ slot <= spawned /\ srv.engine <= spawned /\ signalled \subseteq 0 .. spawned
    /\ main = "store" => spawned # 0

Signals ==
    BeforeShutdown => \A e \in Engines : e \in signalled /\ Alive(e) => srv.pc = "wait" /\ srv.engine = e

\* A step that starts no engine and sends no signal.
LEMMA SignalsKept ==
    ASSUME Types, Numbered, Signals, UNCHANGED <<slot, spawned, signalled>>,
           main' = "store" => main = "store", BeforeShutdown' => BeforeShutdown,
           srv'.engine \in {srv.engine, 0}, srv.pc = "wait" => srv' = srv,
           \A e \in Engines : Alive(e)' => Alive(e)
    PROVE  Numbered' /\ Signals'
<1>1. Numbered'
  BY DEF Types, Numbered
<1>2. Signals'
  BY Zenon DEF Signals
<1> QED
  BY <1>1, <1>2, Zenon

\* Main starts the first engine, and sends a signal only to begin the shutdown.
LEMMA SignalsMain == ASSUME IInv, Numbered, Signals, Main PROVE Numbered' /\ Signals'
<1> USE DEF IInv
<1>1. CASE StartEngine /\ main' = "store"
  <2>0. UNCHANGED <<slot, srv, signalled>> /\ spawned = 0 /\ spawned' = spawned + 1 /\ slot = 0 /\ main = "spawn"
    <3>1. SpawnEngine
      BY <1>1, Zenon DEF StartEngine
    <3> QED
      BY <1>1, <3>1, Zenon DEF StartEngine, SpawnEngine, Phases
  <2>1. UNCHANGED <<slot, srv, signalled>> /\ spawned = 0 /\ spawned' = 1 /\ slot = 0 /\ main = "spawn"
    BY <2>0, SMT, Z3
  <2>2. signalled \cap Engines = {}
    BY <2>1 DEF Numbered, Engines
  <2>3. Signals'
    BY <2>1, <2>2, Zenon DEF Signals
  <2>4. Numbered'
    BY <2>1 DEF Numbered, Types
  <2> QED
    BY <2>3, <2>4, Zenon
<1>2. CASE StoreEngine
  <2>1. UNCHANGED <<srv, signalled, spawned, proc>> /\ slot' = 1 /\ main = "store" /\ main' = "sleep"
    BY <1>2, Zenon DEF StoreEngine, processVars
  <2>2. Numbered'
    BY <2>1 DEF Numbered, Types
  <2>3. Signals'
    BY <2>1, Zenon DEF Signals, BeforeShutdown, Alive
  <2> QED
    BY <2>2, <2>3, Zenon
<1>3. CASE ShutdownKills
  <2>1. UNCHANGED <<srv, spawned>> /\ slot' = 0 /\ signalled' \subseteq signalled \cup {slot}
        /\ main = "client" /\ main' \in {"stop", "wait"}
    BY <1>3, Zenon DEF ShutdownKills
  <2>2. Numbered'
    BY <2>1 DEF Numbered, Types
  <2>3. Signals'
    BY <2>1, Zenon DEF Signals, BeforeShutdown
  <2> QED
    BY <2>2, <2>3, Zenon
<1>4. CASE StartRegistry \/ RunClient \/ JoinRegistry
  <2>1. UNCHANGED <<slot, srv, signalled, spawned, proc>>
    BY <1>4, Zenon DEF StartRegistry, RunClient, JoinRegistry, processVars
  <2>2. main' # "store" /\ (BeforeShutdown' => BeforeShutdown)
    BY <1>4, Zenon DEF StartRegistry, RunClient, JoinRegistry, BeforeShutdown
  <2> QED
    BY <2>1, <2>2, SignalsKept, Zenon DEF Alive
<1>5. CASE ShutdownWaits \/ StopRegistry
  <2>1. UNCHANGED <<slot, srv, signalled, spawned>> /\ main \in {"wait", "stop"} /\ main' \in {"stop", "join"}
    BY <1>5, Zenon DEF ShutdownWaits, StopRegistry
  <2>2. Numbered'
    BY <2>1, Zenon DEF Numbered
  <2>3. Signals'
    BY <2>1, Zenon DEF Signals, BeforeShutdown
  <2> QED
    BY <2>2, <2>3, Zenon
<1>6. CASE StartEngine /\ main' # "store"
  <2>1. UNCHANGED <<slot, srv, signalled, spawned>> /\ main' = "stop" /\ main = "spawn" /\ spawned = 0
    BY <1>6, Zenon DEF StartEngine, Phases
  <2>2. Numbered'
    BY <2>1, Zenon DEF Numbered
  <2>3. Signals'
    BY <2>1, Zenon DEF Signals, BeforeShutdown
  <2> QED
    BY <2>2, <2>3, Zenon
<1> QED
  BY <1>1, <1>2, <1>3, <1>4, <1>5, <1>6, Zenon DEF Main

\* The registry waits for an engine that it has sent a signal, and does nothing else
\* before that engine is dead.
LEMMA SignalsRegistry == ASSUME IInv, Numbered, Signals, Registry PROVE Numbered' /\ Signals'
<1> USE DEF IInv
<1>0. srv \in [pc : {"idle", "check", "load", "loaded", "swap", "sleep", "answer", "take", "wait"}, engine : Nat]
      /\ spawned \in Nat /\ slot \in Nat
  BY Zenon DEF Types
<1>1. CASE Accept
  <2>1. Head(queue) \in Request
    BY <1>1, FirstLeaves, Zenon DEF Accept
  <2>2. Head(queue).op \in {"register", "get", "load", "unload"}
    BY <2>1, Zenon DEF Request
  <2>3. \/ srv' = srv \/ srv' = IdleServer
        \/ \E pc \in {"check", "take"} : srv' = [srv EXCEPT !.pc = pc]
    BY <1>1, <2>2, Zenon DEF Accept, Reply, Goto
  <2>4. proc' = proc \/ proc' = [proc EXCEPT ![Head(queue).from] = IF @ = "asking" THEN "told" ELSE @]
    BY <1>1, <2>2, Zenon DEF Accept
  <2>5. \A e \in Engines : Alive(e)' => Alive(e)
    BY <2>4, Zenon DEF Alive, Types
  <2>6. UNCHANGED <<main, slot, spawned, signalled>> /\ srv.pc = "idle"
    BY <1>1, Zenon DEF Accept
  <2>7. srv'.engine \in {srv.engine, 0}
    BY <1>0, <2>3 DEF IdleServer
  <2> QED
    BY <2>5, <2>6, <2>7, SignalsKept, Zenon DEF BeforeShutdown
<1>2. CASE (LoadCallback /\ srv'.pc = "answer") \/ CheckService \/ LoadSleeps \/ Answer
  <2>1. UNCHANGED <<main, slot, spawned, signalled, proc>> /\ srv.pc # "wait"
    <3>1. CASE LoadCallback /\ srv'.pc = "answer"
      BY <3>1, LoadCallbackIs, Zenon DEF LoadCallback
    <3>2. CASE CheckService \/ LoadSleeps \/ Answer
      BY <3>2, Zenon DEF CheckService, LoadSleeps, Answer, processVars
    <3> QED
      BY <1>2, <3>1, <3>2, Zenon
  <2>2. srv'.engine \in {srv.engine, 0}
    <3>1. CASE LoadCallback /\ srv'.pc = "answer"
      BY <3>1, LoadCallbackIs, Zenon
    <3>2. CASE CheckService \/ LoadSleeps \/ Answer
      <4>1. (\E pc : srv' = [srv EXCEPT !.pc = pc]) \/ srv' = IdleServer
        BY <3>2, Zenon DEF CheckService, LoadSleeps, Answer, Goto, Reply
      <4> QED
        <5>1. CASE srv' = IdleServer
          BY <5>1, Zenon DEF IdleServer
        <5> QED
          BY <4>1, <5>1, SrvAt, Zenon
    <3> QED
      BY <1>2, <3>1, <3>2, Zenon
  <2> QED
    BY <2>1, <2>2, SignalsKept, Zenon DEF BeforeShutdown, Alive
<1>3. CASE LoadCallback /\ srv'.pc = "swap"
  <2>1. UNCHANGED <<main, slot, signalled>> /\ spawned' = spawned + 1 /\ srv.pc = "load" /\ srv'.engine = spawned + 1
        /\ proc' = [proc EXCEPT ![spawned + 1] = "boot"]
    BY <1>3, LoadCallbackIs, Zenon DEF LoadCallback, SpawnEngine
  <2>2. Numbered'
    BY <1>0, <2>1 DEF Numbered
  <2>3. \A e \in Engines : e \in signalled => e # spawned + 1
    BY <1>0 DEF Numbered
  <2>4. \A e \in Engines : e \in signalled /\ Alive(e)' => Alive(e)
    BY <2>1, <2>3, Zenon DEF Alive, Types
  <2>5. Signals'
    BY <2>1, <2>4, Zenon DEF Signals, BeforeShutdown
  <2> QED
    BY <2>2, <2>5, Zenon
<1>4. CASE LoadSwaps \/ UnloadTakes
  <2>1. /\ UNCHANGED <<main, spawned, proc>> /\ srv.pc \in {"swap", "take"} /\ slot' \in {slot, srv.engine, 0}
        /\ \/ signalled' = signalled
           \/ /\ srv'.pc = "wait" /\ srv'.engine \in {slot, srv.engine}
              /\ signalled' = signalled \cup {srv'.engine}
    BY <1>0, <1>4 DEF LoadSwaps, UnloadTakes, Goto
  <2>2. srv'.engine \in {srv.engine, slot, 0}
    BY <1>0, <1>4 DEF LoadSwaps, UnloadTakes, Goto, Reply, IdleServer
  <2>3. signalled' \subseteq 0 .. spawned
    <3>1. slot \in 0 .. spawned /\ srv.engine \in 0 .. spawned /\ signalled \subseteq 0 .. spawned
      BY <1>0 DEF Numbered
    <3> QED
      BY <2>1, <3>1, Zenon
  <2>4. Numbered'
    BY <1>0, <2>1, <2>2, <2>3 DEF Numbered
  <2>5. Signals'
    BY <2>1, Zenon DEF Signals, BeforeShutdown, Alive
  <2> QED
    BY <2>4, <2>5, Zenon
<1>5. CASE RegistryWaits
  <2>1. UNCHANGED <<main, slot, spawned, signalled>> /\ srv.pc = "wait" /\ srv'.engine = 0
        /\ proc' = [proc EXCEPT ![srv.engine] = "reaped"]
    BY <1>5, Zenon DEF RegistryWaits, Reply, IdleServer
  <2>2. Numbered'
    BY <1>0, <2>1 DEF Numbered
  <2>3. \A e \in Engines : Alive(e)' => Alive(e) /\ e # srv.engine
    BY <2>1, Zenon DEF Alive, Types
  <2>4. Signals'
    BY <2>1, <2>3, Zenon DEF Signals, BeforeShutdown
  <2> QED
    BY <2>2, <2>4, Zenon
<1> QED
  BY <1>1, <1>2, <1>3, <1>4, <1>5, LoadCallbackIs, Zenon DEF Registry

\* The client and the engines send no signal.
LEMMA SignalsStep == ASSUME IInv, Numbered, Signals, [Next]_vars PROVE Numbered' /\ Signals'
<1>1. CASE ClientExits \/ (\E op \in {"get", "load", "unload"} : Ask(op)) \/ UNCHANGED vars
  <2>1. UNCHANGED <<main, slot, srv, signalled, spawned, proc>>
    BY <1>1, Zenon DEF ClientExits, Ask, processVars, vars
  <2> QED
    BY <2>1, SignalsKept, Zenon DEF IInv, BeforeShutdown, Alive
<1>2. ASSUME NEW d \in Engines, EngineSteps(d) \/ EngineCrashes(d) PROVE Numbered' /\ Signals'
  <2>1. UNCHANGED <<main, slot, srv, signalled, spawned>> /\ Alive(d)
        /\ \E s \in {"asking", "mute", "up", "dead"} : proc' = [proc EXCEPT ![d] = s]
    BY <1>2, Zenon DEF EngineSteps, PublishAsks, PublishListens, EngineExits, EngineCrashes, Alive
  <2>2. \A e \in Engines : Alive(e)' => Alive(e)
    BY <2>1, Zenon DEF Alive, IInv, Types
  <2> QED
    BY <2>1, <2>2, SignalsKept, Zenon DEF IInv, BeforeShutdown
<1> QED
  BY <1>1, <1>2, SignalsMain, SignalsRegistry, Zenon DEF Next

\* A registration that waits is that of an engine that waits for it, or runs on, or is dead.
Announced ==
    \A i \in 1 .. Len(queue) : queue[i].op = "register" =>
        queue[i].from \in Engines /\ proc[queue[i].from] \in {"asking", "told", "up", "dead", "reaped"}

\* An engine that is up listens; nobody is registered while the registry loads or unloads.
UpListens == BeforeShutdown => \A e \in Engines : proc[e] = "up" => listener # 0
Busy == srv.pc \in {"load", "swap", "sleep", "answer", "take", "wait"} => ~registered

\* What is registered is served, but for a load that has not probed the path yet.
Served ==
    registered /\ ~lost /\ srv.pc # "check" /\ BeforeShutdown =>
        listener # 0 \/ \E e \in Engines : proc[e] = "told"

\* An engine that has not been started does nothing.
Unborn == \A e \in Engines : e > spawned => proc[e] = "none"

ServedInv == Announced /\ UpListens /\ Busy /\ Served /\ Unborn

\* An engine that runs before the shutdown is the only one.
LEMMA OnlyOne ==
    ASSUME IInv, BeforeShutdown, NEW d \in Engines, NEW e \in Engines, Alive(d), Alive(e) PROVE d = e
<1>1. d # 0 /\ e # 0
  BY SMT, Z3 DEF Engines
<1> QED
  BY <1>1, Zenon DEF IInv, Tracked, Phases, BeforeShutdown

\* The queue only loses entries, and engines go on from where they were.
LEMMA AnnouncedKept ==
    ASSUME Types, Announced, queue' = queue,
           \A e \in Engines : proc[e] \in {"asking", "told", "up", "dead", "reaped"}
                                => proc'[e] \in {"asking", "told", "up", "dead", "reaped"}
    PROVE  Announced'
BY Zenon DEF Announced

\* A step that touches nothing of this.
LEMMA ServedAside ==
    ASSUME Types, ServedInv, UNCHANGED <<queue, proc, spawned, registered, lost, listener>>,
           BeforeShutdown' => BeforeShutdown, srv'.pc # "check" => srv.pc # "check",
           Busy'
    PROVE  ServedInv'
<1>1. Announced'
  BY AnnouncedKept, Zenon DEF ServedInv
<1>2. UpListens'
  BY Zenon DEF ServedInv, UpListens
<1>3. Served' /\ Unborn'
  BY Zenon DEF ServedInv, Served, Unborn
<1> QED
  BY <1>1, <1>2, <1>3, Zenon DEF ServedInv

\* The registry takes a connection: a registration is that of an engine that can be
\* reached, unless it is dead.
LEMMA ServedAccept == ASSUME IInv, ServedInv, Accept PROVE ServedInv'
<1> DEFINE r == Head(queue)
<1> USE DEF IInv
<1>1. queue' \in Seq(Request) /\ r \in Request /\ srv.pc = "idle"
  BY FirstLeaves, Zenon DEF Accept
<1>2. /\ r = queue[1] /\ 1 \in 1 .. Len(queue)
      /\ \A i \in 1 .. Len(queue') : queue'[i] = queue[i + 1] /\ i + 1 \in 1 .. Len(queue)
  <2>1. queue \in Seq(Request) /\ queue # <<>> /\ queue' = Tail(queue)
    BY Zenon DEF Types, Accept
  <2> QED
    BY <2>1, SMT, Z3
<1> HIDE DEF r
<1>3. \A i \in 1 .. Len(queue') : queue'[i].op = "register" =>
          queue'[i].from \in Engines /\ proc[queue'[i].from] \in {"asking", "told", "up", "dead", "reaped"}
  BY <1>2, Zenon DEF ServedInv, Announced
<1>4. r.op \in {"register", "get", "load", "unload"}
  BY <1>1, Zenon DEF Request
<1>5. UNCHANGED <<main, listener, spawned>> /\ (BeforeShutdown' => BeforeShutdown)
  BY Zenon DEF Accept, BeforeShutdown
<1>6. CASE r.op = "register"
  <2>1. /\ registered' = TRUE /\ lost' = ~Alive(r.from) /\ srv' = srv
        /\ proc' = [proc EXCEPT ![r.from] = IF proc[r.from] = "asking" THEN "told" ELSE proc[r.from]]
    BY <1>6, Zenon DEF Accept, r
  <2>2. r.from \in Engines /\ proc[r.from] \in {"asking", "told", "up", "dead", "reaped"}
    BY <1>2, <1>6, Zenon DEF ServedInv, Announced
  <2>3. proc'[r.from] = (IF proc[r.from] = "asking" THEN "told" ELSE proc[r.from])
        /\ \A e \in Engines : e # r.from => proc'[e] = proc[e]
    BY <2>1, <2>2, Zenon DEF Types
  <2>4. Announced'
    BY <1>3, <2>3, Zenon DEF Announced
  <2>5. UpListens'
    BY <1>5, <2>3, Zenon DEF ServedInv, UpListens
  <2>6. Busy'
    BY <1>1, <2>1, Zenon DEF Busy
  <2>7. ASSUME Alive(r.from), BeforeShutdown PROVE listener # 0 \/ proc'[r.from] = "told"
    BY <2>2, <2>3, <2>7, Zenon DEF Alive, ServedInv, UpListens
  <2>8. Served'
    BY <1>5, <2>1, <2>2, <2>7, Zenon DEF Served
  <2>9. Unborn'
    BY <1>5, <2>2, <2>3, Zenon DEF ServedInv, Unborn
  <2> QED
    BY <2>4, <2>5, <2>6, <2>8, <2>9, Zenon DEF ServedInv
<1>7. CASE r.op # "register"
  <2>1. proc' = proc
    BY <1>4, <1>7, Zenon DEF Accept, r
  <2>2. Announced'
    BY <1>3, <2>1, Zenon DEF Announced
  <2>3. UpListens'
    BY <1>5, <2>1, Zenon DEF ServedInv, UpListens
  <2>4. \/ r.op = "get" /\ srv' = IdleServer /\ UNCHANGED <<registered, lost>>
        \/ r.op = "load" /\ srv' = [srv EXCEPT !.pc = "check"] /\ UNCHANGED registered
        \/ r.op = "unload" /\ srv' = [srv EXCEPT !.pc = "take"] /\ registered' = FALSE
    BY <1>4, <1>7, Zenon DEF Accept, Reply, Goto, r
  <2>5. \/ srv'.pc = "idle" /\ UNCHANGED <<registered, lost>>
        \/ srv'.pc = "check"
        \/ srv'.pc = "take" /\ registered' = FALSE
    <3>1. CASE srv' = IdleServer
      BY <2>4, <3>1, Zenon DEF IdleServer
    <3>2. CASE srv' = [srv EXCEPT !.pc = "check"]
      BY <3>2, SrvAt, Zenon
    <3>3. CASE srv' = [srv EXCEPT !.pc = "take"] /\ registered' = FALSE
      BY <3>3, SrvAt, Zenon
    <3> QED
      BY <2>4, <3>1, <3>2, <3>3, Zenon
  <2>6. Busy'
    BY <2>5, Zenon DEF Busy
  <2>7. Served'
    BY <1>1, <1>5, <2>1, <2>5, Zenon DEF ServedInv, Served
  <2>8. Unborn'
    BY <1>5, <2>1, Zenon DEF ServedInv, Unborn
  <2> QED
    BY <2>2, <2>3, <2>6, <2>7, <2>8, Zenon DEF ServedInv
<1> QED
  BY <1>6, <1>7, Zenon

\* An engine is started: it was none before.
LEMMA ServedStart ==
    ASSUME IInv, ServedInv, SpawnEngine, UNCHANGED <<queue, listener, registered, lost>>, BeforeShutdown' => BeforeShutdown,
           srv'.pc # "check" => srv.pc # "check", Busy'
    PROVE  ServedInv'
<1>1. spawned \in Nat /\ spawned' = spawned + 1 /\ proc' = [proc EXCEPT ![spawned + 1] = "boot"]
  BY Zenon DEF IInv, Types, SpawnEngine
<1>2. \A e \in Engines : proc'[e] = IF e = spawned + 1 THEN "boot" ELSE proc[e]
  BY <1>1, Zenon DEF IInv, Types
<1>3. \A e \in Engines : e = spawned + 1 => e > spawned
  BY <1>1, SMT, Z3
<1>4. \A e \in Engines : e = spawned + 1 => proc[e] = "none"
  BY <1>3, Zenon DEF ServedInv, Unborn
<1>5. Announced'
  BY <1>2, <1>4, AnnouncedKept, Zenon DEF IInv, ServedInv
<1>6. UpListens' /\ Served'
  BY <1>2, <1>4, Zenon DEF ServedInv, UpListens, Served
<1>7. \A e \in Engines : e > spawned + 1 => e > spawned /\ e # spawned + 1
  BY <1>1, SMT, Z3 DEF Engines
<1>8. Unborn'
  BY <1>1, <1>2, <1>7, Zenon DEF ServedInv, Unborn
<1> QED
  BY <1>5, <1>6, <1>8, Zenon DEF ServedInv

\* The end of an engine has been waited for.
LEMMA ServedReaps ==
    ASSUME IInv, ServedInv, NEW d, proc[d] = "dead", proc' = [proc EXCEPT ![d] = "reaped"],
           UNCHANGED <<queue, spawned, listener, registered, lost>>, BeforeShutdown' => BeforeShutdown,
           srv'.pc # "check" => srv.pc # "check", Busy'
    PROVE  ServedInv'
<1>1. \A e \in Engines : proc'[e] = IF e = d THEN "reaped" ELSE proc[e]
  BY Zenon DEF IInv, Types
<1>2. Announced'
  BY <1>1, AnnouncedKept, Zenon DEF IInv, ServedInv
<1>3. UpListens' /\ Served'
  <2>1. ASSUME NEW e \in Engines PROVE (proc'[e] = "up" => proc[e] = "up") /\ (proc[e] = "told" => proc'[e] = "told")
    <3>1. CASE e = d
      <4>1. proc[e] = "dead" /\ proc'[e] = "reaped"
        BY <1>1, <3>1, Zenon
      <4> QED
        BY <4>1, Zenon
    <3>2. CASE e # d
      BY <1>1, <3>2, Zenon
    <3> QED
      BY <3>1, <3>2, Zenon
  <2>2. UpListens'
    BY <2>1, Zenon DEF ServedInv, UpListens
  <2>3. Served'
    BY <2>1, Zenon DEF ServedInv, Served
  <2> QED
    BY <2>2, <2>3, Zenon
<1>4. Unborn'
  BY <1>1, Zenon DEF ServedInv, Unborn
<1> QED
  BY <1>2, <1>3, <1>4, Zenon DEF ServedInv

\* The registry goes on: a load probes the path, and while engines are started and ended
\* nothing is registered.
LEMMA ServedRegistry == ASSUME IInv, ServedInv, Registry PROVE ServedInv'
<1> USE DEF IInv
<1>1. CASE Accept
  BY <1>1, ServedAccept, Zenon
<1>2. CASE CheckService
  <2>1. UNCHANGED <<main, queue, proc, spawned, listener, lost>> /\ registered' = (registered /\ listener # 0)
    BY <1>2, Zenon DEF CheckService, processVars, envVars
  <2>2. srv' = [srv EXCEPT !.pc = IF registered' THEN "loaded" ELSE "load"]
    BY <1>2, Zenon DEF CheckService, Goto
  <2>3. srv'.pc = IF registered' THEN "loaded" ELSE "load"
    BY <2>2, SrvAt, Zenon
  <2>4. Announced'
    BY <2>1, AnnouncedKept, Zenon DEF ServedInv
  <2>5. UpListens' /\ Served' /\ Unborn'
    BY <2>1, Zenon DEF ServedInv, UpListens, Served, Unborn, BeforeShutdown
  <2>6. Busy'
    BY <2>3, Zenon DEF Busy
  <2> QED
    BY <2>4, <2>5, <2>6, Zenon DEF ServedInv
<1>3. CASE LoadCallback
  <2>1. UNCHANGED <<main, queue, registered, listener, lost>> /\ srv.pc = "load"
    BY <1>3, Zenon DEF LoadCallback, envVars
  <2>2. ~registered /\ Busy' /\ (BeforeShutdown' => BeforeShutdown)
    BY <2>1, Zenon DEF ServedInv, Busy, BeforeShutdown
  <2> QED
    BY <1>3, <2>1, <2>2, LoadCallbackIs, ServedStart, ServedAside, Zenon
<1>4. CASE LoadSwaps \/ LoadSleeps \/ UnloadTakes
  <2>1. UNCHANGED <<main, queue, proc, spawned, registered, listener, lost>> /\ srv.pc \in {"swap", "sleep", "take"}
    BY <1>4, Zenon DEF LoadSwaps, LoadSleeps, UnloadTakes, envVars, processVars
  <2>2. ~registered /\ Busy' /\ (BeforeShutdown' => BeforeShutdown)
    BY <2>1, Zenon DEF ServedInv, Busy, BeforeShutdown
  <2> QED
    BY <2>1, <2>2, ServedAside, Zenon
<1>5. CASE Answer
  <2>1. UNCHANGED <<main, queue, proc, spawned, registered, listener, lost>> /\ srv.pc # "check" /\ srv' = IdleServer
    BY <1>5, Zenon DEF Answer, Reply, envVars, processVars
  <2>2. Busy' /\ (BeforeShutdown' => BeforeShutdown)
    BY <2>1, Zenon DEF IdleServer, Busy, BeforeShutdown
  <2> QED
    BY <2>1, <2>2, ServedAside, Zenon
<1>6. CASE RegistryWaits
  <2>1. /\ UNCHANGED <<main, queue, spawned, registered, listener, lost>> /\ srv.pc = "wait" /\ srv' = IdleServer
        /\ proc[srv.engine] = "dead" /\ proc' = [proc EXCEPT ![srv.engine] = "reaped"]
    BY <1>6, Zenon DEF RegistryWaits, Reply, envVars
  <2>2. Busy' /\ (BeforeShutdown' => BeforeShutdown)
    BY <2>1, Zenon DEF IdleServer, Busy, BeforeShutdown
  <2> QED
    BY <2>1, <2>2, ServedReaps, Zenon
<1> QED
  BY <1>1, <1>2, <1>3, <1>4, <1>5, <1>6, Zenon DEF Registry

\* Main starts the first engine and ends the last one.
LEMMA ServedMain == ASSUME IInv, ServedInv, Main PROVE ServedInv'
<1> USE DEF IInv
<1>1. CASE StartEngine
  <2>1. UNCHANGED <<queue, srv, listener, registered, lost>> /\ main = "spawn"
        /\ (SpawnEngine \/ UNCHANGED <<proc, spawned>>)
    BY <1>1, Zenon DEF StartEngine, envVars
  <2>2. Busy' /\ (BeforeShutdown' => BeforeShutdown)
    BY <2>1, Zenon DEF ServedInv, Busy, BeforeShutdown
  <2> QED
    BY <2>1, <2>2, ServedStart, ServedAside, Zenon
<1>2. CASE StartRegistry \/ StoreEngine \/ RunClient \/ ShutdownKills \/ JoinRegistry
  <2>1. UNCHANGED <<queue, srv, proc, spawned, listener, registered, lost>> /\ (BeforeShutdown' => BeforeShutdown)
    BY <1>2, Zenon DEF StartRegistry, StoreEngine, RunClient, ShutdownKills, JoinRegistry, envVars, processVars,
                       BeforeShutdown
  <2>2. Busy'
    BY <2>1, Zenon DEF ServedInv, Busy
  <2> QED
    BY <2>1, <2>2, ServedAside, Zenon
<1>3. CASE ShutdownWaits
  <2>1. /\ UNCHANGED <<queue, srv, spawned, listener, registered, lost>> /\ main' = "stop"
        /\ proc[taken] = "dead" /\ proc' = [proc EXCEPT ![taken] = "reaped"]
    BY <1>3, Zenon DEF ShutdownWaits, envVars
  <2>2. Busy' /\ ~BeforeShutdown'
    BY <2>1, Zenon DEF ServedInv, Busy, BeforeShutdown
  <2> QED
    BY <2>1, <2>2, ServedReaps, Zenon
<1>4. CASE StopRegistry
  <2>1. /\ UNCHANGED <<srv, spawned, registered>> /\ queue' = <<>> /\ main' = "join"
        /\ proc' = [e \in Engines |-> IF proc[e] = "asking" THEN "mute" ELSE proc[e]]
    BY <1>4, Zenon DEF StopRegistry
  <2>2. Announced'
    BY <2>1, SMT, Z3 DEF Announced
  <2>3. Busy' /\ UpListens' /\ Served'
    BY <2>1, Zenon DEF ServedInv, Busy, UpListens, Served, BeforeShutdown
  <2>4. Unborn'
    BY <2>1, Zenon DEF ServedInv, Unborn
  <2> QED
    BY <2>2, <2>3, <2>4, Zenon DEF ServedInv
<1> QED
  BY <1>1, <1>2, <1>3, <1>4, Zenon DEF Main

\* A connection joins the queue.
LEMMA AnnouncedMore ==
    ASSUME Types, Announced, NEW r \in Request, queue' = Append(queue, r),
           r.op = "register" => r.from \in Engines /\ proc'[r.from] \in {"asking", "told", "up", "dead", "reaped"},
           \A e \in Engines : proc[e] \in {"asking", "told", "up", "dead", "reaped"}
                                => proc'[e] \in {"asking", "told", "up", "dead", "reaped"}
    PROVE  Announced'
<1>1. queue \in Seq(Request)
  BY Zenon DEF Types
<1>2. \A i \in 1 .. Len(queue') : (i \in 1 .. Len(queue) /\ queue'[i] = queue[i]) \/ queue'[i] = r
  BY <1>1, SMT, Z3
<1> QED
  BY <1>2, Zenon DEF Announced

\* An engine registers, listens, exits or crashes.  The one that exits when it is asked to
\* is not registered any more.
LEMMA ServedEngine ==
    ASSUME IInv, Signals, ServedInv, NEW d \in Engines, EngineSteps(d) \/ EngineCrashes(d)
    PROVE  ServedInv'
<1> USE DEF IInv
<1>0. PICK x \in {"asking", "mute", "up", "dead"} : proc' = [proc EXCEPT ![d] = x]
  BY Zenon DEF EngineSteps, PublishAsks, PublishListens, EngineExits, EngineCrashes
<1>1. proc'[d] = x /\ \A e \in Engines : e # d => proc'[e] = proc[e]
  BY <1>0, Zenon DEF Types
<1>2. UNCHANGED <<main, srv, registered, spawned>> /\ Alive(d)
  BY Zenon DEF EngineSteps, PublishAsks, PublishListens, EngineExits, EngineCrashes, Alive
<1>3. Busy' /\ (BeforeShutdown' <=> BeforeShutdown)
  BY <1>2, Zenon DEF ServedInv, Busy, BeforeShutdown
<1>4. Unborn'
  BY <1>1, <1>2, Zenon DEF ServedInv, Unborn, Alive
<1>5. ASSUME BeforeShutdown, NEW e \in Engines, proc'[e] = "up", e # d PROVE FALSE
  <2>1. Alive(e)
    BY <1>1, <1>5, Zenon DEF Alive
  <2> QED
    BY <1>2, <1>5, <2>1, OnlyOne, Zenon
<1>6. CASE PublishAsks(d)
  <2>1. proc[d] = "boot" /\ UNCHANGED <<listener, lost>>
    BY <1>6, Zenon DEF PublishAsks, envVars
  <2>2. Announced'
    <3>1. CASE running
      <4> DEFINE r == [op |-> "register", from |-> d]
      <4>1. r \in Request /\ r.from = d
        BY Zenon DEF Request
      <4>2. queue' = Append(queue, r) /\ proc' = [proc EXCEPT ![d] = "asking"]
        BY <1>6, <3>1, Zenon DEF PublishAsks
      <4>3. proc'[d] = "asking"
        BY <4>2, Zenon DEF Types
      <4> HIDE DEF r
      <4> QED
        BY <1>1, <4>1, <4>2, <4>3, AnnouncedMore, Zenon DEF ServedInv
    <3>2. CASE ~running
      <4>1. queue' = queue
        BY <1>6, <3>2, Zenon DEF PublishAsks
      <4>2. \A e \in Engines : proc[e] \in {"asking", "told", "up", "dead", "reaped"}
                                 => proc'[e] \in {"asking", "told", "up", "dead", "reaped"}
        BY <1>1, <2>1, Zenon
      <4> QED
        BY <4>1, <4>2, AnnouncedKept, Zenon DEF ServedInv
    <3> QED
      BY <3>1, <3>2, Zenon
  <2>3. x \in {"asking", "mute"}
    <3>1. proc'[d] \in {"asking", "mute"}
      BY <1>6, Zenon DEF PublishAsks, Types
    <3> QED
      BY <1>1, <3>1, Zenon
  <2>4. UpListens'
    BY <1>1, <1>3, <2>1, <2>3, Zenon DEF ServedInv, UpListens
  <2>5. \A e \in Engines : proc[e] = "told" => proc'[e] = "told"
    BY <1>1, <2>1, Zenon
  <2>6. Served'
    BY <1>2, <1>3, <2>1, <2>5, Zenon DEF ServedInv, Served
  <2> QED
    BY <1>3, <1>4, <2>2, <2>4, <2>6, Zenon DEF ServedInv
<1>7. CASE PublishListens(d)
  <2>1. queue' = queue /\ listener' = d /\ d # 0 /\ proc' = [proc EXCEPT ![d] = "up"]
    <3>1. d # 0
      BY SMT, Z3 DEF Engines
    <3> QED
      BY <1>7, <3>1, Zenon DEF PublishListens
  <2>2. proc'[d] = "up"
    BY <2>1, Zenon DEF Types
  <2>3. Announced'
    BY <1>1, <2>1, <2>2, AnnouncedKept, Zenon DEF ServedInv
  <2>4. UpListens' /\ Served'
    BY <2>1, Zenon DEF UpListens, Served
  <2> QED
    BY <1>3, <1>4, <2>3, <2>4, Zenon DEF ServedInv
<1>8. CASE EngineExits(d) \/ EngineCrashes(d)
  <2>1. queue' = queue /\ proc' = [proc EXCEPT ![d] = "dead"]
    BY <1>8, Zenon DEF EngineExits, EngineCrashes
  <2>2. proc'[d] = "dead"
    BY <2>1, Zenon DEF Types
  <2>3. Announced'
    BY <1>1, <2>1, <2>2, AnnouncedKept, Zenon DEF ServedInv
  <2>4. UpListens'
    BY <1>3, <1>5, <2>2, Zenon DEF UpListens
  <2>5. Served'
    <3>1. CASE EngineCrashes(d)
      <4>1. lost'
        BY <3>1, Zenon DEF EngineCrashes
      <4> QED
        BY <4>1, Zenon DEF Served
    <3>2. CASE EngineExits(d) /\ proc[d] = "up"
      <4>1. BeforeShutdown => srv.pc = "wait"
        BY <1>2, <3>2, Zenon DEF EngineExits, Signals
      <4>2. BeforeShutdown => ~registered'
        BY <1>2, <4>1, Zenon DEF ServedInv, Busy
      <4> QED
        BY <1>3, <4>2, Zenon DEF Served
    <3>3. CASE EngineExits(d) /\ proc[d] # "up"
      <4>1. UNCHANGED <<listener, lost>> /\ proc[d] # "told"
        BY <3>3, Zenon DEF EngineExits, envVars
      <4>2. \A e \in Engines : proc[e] = "told" => proc'[e] = "told"
        BY <1>1, <4>1, Zenon
      <4>3. UNCHANGED <<listener, lost, registered, srv>>
        BY <1>2, <4>1, Zenon
      <4> QED
        BY <1>3, <4>2, <4>3, Zenon DEF ServedInv, Served
    <3> QED
      BY <1>8, <3>1, <3>2, <3>3, Zenon
  <2> QED
    BY <1>3, <1>4, <2>3, <2>4, <2>5, Zenon DEF ServedInv
<1> QED
  BY <1>6, <1>7, <1>8, Zenon DEF EngineSteps

\* What is registered is served in every state.
LEMMA ServedStep == ASSUME IInv, Signals, ServedInv, [Next]_vars PROVE ServedInv'
<1>1. CASE ClientExits \/ UNCHANGED vars
  <2>1. UNCHANGED <<main, queue, srv, proc, spawned, registered, lost, listener>>
    BY <1>1, Zenon DEF ClientExits, vars, processVars, envVars
  <2>2. Busy' /\ (BeforeShutdown' => BeforeShutdown)
    BY <2>1, Zenon DEF ServedInv, Busy, BeforeShutdown
  <2> QED
    BY <2>1, <2>2, ServedAside, Zenon DEF IInv
<1>2. ASSUME NEW op \in {"get", "load", "unload"}, Ask(op) PROVE ServedInv'
  <2> DEFINE r == [op |-> op, from |-> Client]
  <2>1. r \in Request /\ r.op # "register"
    BY Zenon DEF Request
  <2>2. UNCHANGED <<main, srv, proc, spawned, registered, lost, listener>> /\ queue' = Append(queue, r)
    BY <1>2, Zenon DEF Ask, processVars, envVars
  <2> HIDE DEF r
  <2>3. Announced'
    BY <2>1, <2>2, AnnouncedMore, Zenon DEF IInv, ServedInv
  <2>4. UpListens' /\ Busy'
    BY <2>2, Zenon DEF ServedInv, UpListens, Busy, BeforeShutdown
  <2>5. Served' /\ Unborn'
    BY <2>2, Zenon DEF ServedInv, Served, Unborn, BeforeShutdown
  <2> QED
    BY <2>3, <2>4, <2>5, Zenon DEF ServedInv
<1> QED
  BY <1>1, <1>2, ServedRegistry, ServedMain, ServedEngine, Zenon DEF Next

\* The client is answered in a state in which what is registered is served.
LEMMA AnsweredServed ==
    ASSUME IInv, ServedInv, [Next]_vars, client = "waiting", client' = "idle", registered
    PROVE  listener # 0 \/ (\E e \in Engines : proc[e] = "told") \/ lost
<1>1. BeforeShutdown
  BY Zenon DEF IInv, Phases, BeforeShutdown
<1>2. srv.pc # "check"
  <2>1. CASE Registry
    BY <2>1, Zenon DEF Registry, Accept, CheckService, LoadCallback, LoadSwaps, LoadSleeps, Answer, UnloadTakes,
                       RegistryWaits, Goto
  <2>2. CASE Main
    <3>1. client' = client \/ main = "sleep"
      BY <2>2, Zenon DEF Main, StartRegistry, StartEngine, StoreEngine, RunClient, ShutdownKills, ShutdownWaits,
                         StopRegistry, JoinRegistry, clientVars
    <3> QED
      BY <3>1, Zenon DEF IInv, Phases
  <2>3. CASE ClientExits \/ (\E op \in {"get", "load", "unload"} : Ask(op)) \/ UNCHANGED vars
    BY <2>3, Zenon DEF ClientExits, Ask, vars
  <2>4. CASE \E e \in Engines : EngineSteps(e) \/ EngineCrashes(e)
    BY <2>4, Zenon DEF EngineSteps, PublishAsks, PublishListens, EngineExits, EngineCrashes, clientVars
  <2> QED
    BY <2>1, <2>2, <2>3, <2>4, Zenon DEF Next
<1> QED
  BY <1>1, <1>2, Zenon DEF ServedInv, Served

\* Whatever path the registry answers with, an engine listens there or is about to, unless
\* one has crashed since the last load or registration was taken: an unload forgets the
\* path before it ends the engine, a load probes it, and a registration comes from an
\* engine that waits for it.
THEOREM GivenPathHasEngine == Spec => GivenPathIsServed
<1> DEFINE LInv == Numbered /\ Signals /\ ServedInv
<1>1. Init => LInv
  <2>1. Init => Numbered
    BY DEF Init, Numbered, IdleServer
  <2>2. Init => Signals
    BY Zenon DEF Init, Signals
  <2>3. Init => Announced
    BY SMT, Z3 DEF Init, Announced
  <2>4. Init => UpListens /\ Served
    BY Zenon DEF Init, UpListens, Served
  <2>5. Init => Busy /\ Unborn
    BY Zenon DEF Init, Busy, Unborn
  <2> QED
    BY <2>1, <2>2, <2>3, <2>4, <2>5, Zenon DEF ServedInv
<1>2. ASSUME IInv, LInv, [Next]_vars PROVE LInv'
  BY <1>2, SignalsStep, ServedStep, Zenon
<1>3. ASSUME IInv, LInv, [Next]_vars
      PROVE  [client = "waiting" /\ client' = "idle" /\ registered
                => listener # 0 \/ (\E e \in Engines : proc[e] = "told") \/ lost]_vars
  BY <1>3, AnsweredServed, Zenon
<1> QED
  BY <1>1, <1>2, <1>3, EveryEngineTracked, PTL DEF Spec, GivenPathIsServed

-----------------------------------------------------------------------------
(* The processes around a session.                                          *)

CONSTANTS Clients, Nobody, PidZero, MaxSessions, MaxDeaths, PidsReused
VARIABLES host, created, reused, engine, deaths, stopping, reach

Session == INSTANCE SharedSession

\* What SharedSession assumes of its constants.
SessionAssumption ==
    /\ Nobody \notin Clients /\ PidZero \notin Clients /\ Nobody # PidZero
    /\ MaxSessions \in Nat /\ MaxDeaths \in Nat /\ PidsReused \in BOOLEAN

Mapped == {"lock", "check", "pid", "unlock", "attached", "release", "clear"}
Locked == {"check", "pid", "unlock", "clear"}
Owning == {"unlock", "attached", "release", "clear"}

\* A client that is past Open has a session mapped.
MapInv == \A c \in Clients : cl[c].pc \in Mapped => cl[c].session \in Session!Sessions

\* A live process between lock and unlock holds the mutex.
MutexInv == \A c \in live : cl[c].pc \in Locked => shm[cl[c].session].mutex = c

\* While it has not written its pid, the header names nobody.
PidInv == \A c \in live : cl[c].pc = "pid" => shm[cl[c].session].attached = PidZero

\* ownsClientAttachment_ is set exactly from the pid to the end of the release.
OwnInv == \A c \in Clients : cl[c].owns <=> cl[c].pc \in Owning

AttachInv == Session!TypeOK /\ MapInv /\ MutexInv /\ PidInv /\ OwnInv /\ OneAttachedClient

\* Goto and Reset leave a client in one of its states.
LEMMA GotoType ==
    ASSUME cl \in [Clients -> Session!ClientStates], NEW c \in Clients, NEW pc, Session!Goto(c, pc),
           pc \in {"idle", "lock", "check", "pid", "unlock", "attached", "release", "clear", "bye"}
    PROVE  cl' \in [Clients -> Session!ClientStates]
BY DEF Session!Goto, Session!ClientStates

\* Session::Reset leaves a client without a session.
LEMMA ResetType ==
    ASSUME SessionAssumption, cl \in [Clients -> Session!ClientStates],
           NEW c \in Clients, NEW pc \in {"idle", "bye"}, Session!Reset(c, pc)
    PROVE  cl' \in [Clients -> Session!ClientStates]
<1>1. 0 \in 0 .. MaxSessions
  BY SMT, Z3 DEF SessionAssumption
<1> QED
  BY <1>1, SMT, Z3 DEF Session!Reset, Session!ClientStates

\* The type invariant is preserved by every step of the clients, of the session host
\* and of the processes around them.
LEMMA AttachTypeStep ==
    ASSUME SessionAssumption, Session!TypeOK, [Session!Next]_(Session!vars)
    PROVE  Session!TypeOK'
<1> USE DEF SessionAssumption, Session!TypeOK, Session!hostVars, Session!processes
<1>0. 0 \in 0 .. MaxSessions
  BY SMT, Z3 DEF SessionAssumption
<1>1. ASSUME NEW c \in Clients, Session!Open(c) PROVE Session!TypeOK'
  <2>1. host' \in 0 .. MaxSessions /\ created' \in 0 .. MaxSessions
    BY <1>1 DEF Session!Open, Session!HostOpens, Session!HostCreates
  <2>2. cl' \in [Clients -> Session!ClientStates]
    BY <1>1, <2>1, Zenon DEF Session!Open, Session!MapSession, Session!ClientStates
  <2> QED
    BY <1>1, <2>1, <2>2, SMT, Z3 DEF Session!Open, Session!HostOpens
<1>2. ASSUME NEW c \in Clients, Session!Lock(c) PROVE Session!TypeOK'
  <2>1. shm' \in [Session!Sessions -> Session!Headers]
    BY <1>2 DEF Session!Lock, Session!LockSharedMutex, Session!LockFails, Session!AfterFailedLock, Session!Headers
  <2>2. cl' \in [Clients -> Session!ClientStates]
    BY <1>2, GotoType, ResetType, SMT, Z3 DEF Session!Lock
  <2> QED
    BY <1>2, <2>1, <2>2 DEF Session!Lock
<1>3. ASSUME NEW c \in Clients, Session!CheckAttached(c) PROVE Session!TypeOK'
  <2>1. shm' \in [Session!Sessions -> Session!Headers]
    BY <1>3, SMT, Z3 DEF Session!CheckAttached, Session!Headers
  <2>2. cl' \in [Clients -> Session!ClientStates]
    BY <1>3, GotoType, ResetType, SMT, Z3 DEF Session!CheckAttached
  <2> QED
    BY <1>3, <2>1, <2>2, SMT, Z3 DEF Session!CheckAttached
<1>4. ASSUME NEW c \in Clients, Session!WritePid(c) PROVE Session!TypeOK'
  <2>1. shm' \in [Session!Sessions -> Session!Headers]
    BY <1>4, Zenon DEF Session!WritePid, Session!Headers
  <2>2. cl' \in [Clients -> Session!ClientStates]
    BY <1>4, Zenon DEF Session!WritePid, Session!ClientStates
  <2> QED
    BY <1>4, <2>1, <2>2, SMT, Z3 DEF Session!WritePid
<1>5. ASSUME NEW c \in Clients, Session!Unlock(c) \/ Session!Close(c) PROVE Session!TypeOK'
  <2>1. shm' \in [Session!Sessions -> Session!Headers]
    BY <1>5 DEF Session!Unlock, Session!Close, Session!Headers
  <2>2. cl' \in [Clients -> Session!ClientStates]
    BY <1>5, GotoType, SMT, Z3 DEF Session!Unlock, Session!Close
  <2> QED
    BY <1>5, <2>1, <2>2, SMT, Z3 DEF Session!Unlock, Session!Close
<1>6. ASSUME NEW c \in Clients, Session!Release(c) PROVE Session!TypeOK'
  <2>1. shm' \in [Session!Sessions -> Session!Headers]
    BY <1>6, SMT, Z3 DEF Session!Release, Session!LockSharedMutex, Session!LockFails, Session!AfterFailedLock, Session!Headers
  <2>2. cl' \in [Clients -> Session!ClientStates]
    BY <1>6, GotoType, ResetType, SMT, Z3 DEF Session!Release
  <2> QED
    BY <1>6, <2>1, <2>2, SMT, Z3 DEF Session!Release
<1>7. ASSUME NEW c \in Clients, Session!Clear(c) PROVE Session!TypeOK'
  <2>1. shm' \in [Session!Sessions -> Session!Headers]
    BY <1>7, Zenon DEF Session!Clear, Session!FreshShm, Session!Headers
  <2>2. Session!Reset(c, "bye") /\ UNCHANGED <<host, created, stopping, live, reused, engine, deaths, reach>>
    BY <1>7, SMT, Z3 DEF Session!Clear
  <2>3. cl' \in [Clients -> Session!ClientStates]
    BY <2>2, ResetType
  <2> QED
    BY <2>1, <2>2, <2>3
<1>8. ASSUME NEW c \in Clients, Session!Bye(c) PROVE Session!TypeOK'
  <2>1. cl' \in [Clients -> Session!ClientStates]
    BY <1>8, GotoType, SMT, Z3 DEF Session!Bye
  <2> QED
    BY <1>8, <2>1, Zenon DEF Session!Bye, Session!StopBegin
<1>9. ASSUME NEW c \in Clients, Session!Die(c) \/ Session!ReusePid(c) PROVE Session!TypeOK'
  BY <1>9, SMT, Z3 DEF Session!Die, Session!ReusePid
<1>10. ASSUME Session!CloseSession \/ Session!StopEnd \/ Session!EngineDies \/ Session!EngineStarts PROVE Session!TypeOK'
  <2>1. ASSUME Session!CloseSession PROVE Session!TypeOK'
    BY <2>1 DEF Session!CloseSession, Session!StopBegin
  <2>2. ASSUME Session!StopEnd PROVE Session!TypeOK'
    BY <1>0, <2>2, Zenon DEF Session!StopEnd
  <2>3. ASSUME Session!EngineDies PROVE Session!TypeOK'
    <3>1. deaths' \in 0 .. MaxDeaths /\ host' \in 0 .. MaxSessions
      BY <1>0, <2>3 DEF Session!EngineDies
    <3>2. engine' \in BOOLEAN /\ stopping' \in BOOLEAN
      BY <2>3, Zenon DEF Session!EngineDies
    <3> QED
      BY <2>3, <3>1, <3>2, Zenon DEF Session!EngineDies
  <2>4. ASSUME Session!EngineStarts PROVE Session!TypeOK'
    BY <2>4, SMT, Z3 DEF Session!EngineStarts
  <2> QED
    BY <1>10, <2>1, <2>2, <2>3, <2>4, SMT, Z3
<1>11. ASSUME UNCHANGED Session!vars PROVE Session!TypeOK'
  BY <1>11 DEF Session!vars
<1> QED
  BY <1>1, <1>2, <1>3, <1>4, <1>5, <1>6, <1>7, <1>8, <1>9, <1>10, <1>11, SMT, Z3 DEF Session!Next, Session!Client

\* What the other conjuncts say together.
AttachSafety == MapInv /\ MutexInv /\ PidInv /\ OwnInv /\ OneAttachedClient

\* What Goto, Reset and the writes of a header field leave behind.
LEMMA GotoEffect ==
    ASSUME cl \in [Clients -> Session!ClientStates], NEW c \in Clients, NEW pc, Session!Goto(c, pc)
    PROVE  /\ \A d \in Clients \ {c} : cl'[d] = cl[d]
           /\ cl'[c].pc = pc /\ cl'[c].session = cl[c].session /\ cl'[c].owns = cl[c].owns
BY SMT, Z3 DEF Session!Goto, Session!ClientStates

\* A client that is reset has no session and owns nothing.
LEMMA ResetEffect ==
    ASSUME cl \in [Clients -> Session!ClientStates], NEW c \in Clients, NEW pc, Session!Reset(c, pc)
    PROVE  /\ \A d \in Clients \ {c} : cl'[d] = cl[d]
           /\ cl'[c].pc = pc /\ cl'[c].owns = FALSE
BY DEF Session!Reset

\* The mutex of one header is written.
LEMMA MutexEffect ==
    ASSUME shm \in [Session!Sessions -> Session!Headers], NEW s \in Session!Sessions, NEW m,
           shm' = [shm EXCEPT ![s].mutex = m]
    PROVE  /\ \A r \in Session!Sessions \ {s} : shm'[r] = shm[r]
           /\ shm'[s].mutex = m /\ shm'[s].attached = shm[s].attached
BY DEF Session!Headers

\* The attached client of one header is written.
LEMMA AttachedEffect ==
    ASSUME shm \in [Session!Sessions -> Session!Headers], NEW s \in Session!Sessions, NEW a,
           shm' = [shm EXCEPT ![s].attached = a]
    PROVE  /\ \A r \in Session!Sessions \ {s} : shm'[r] = shm[r]
           /\ shm'[s].attached = a /\ shm'[s].mutex = shm[s].mutex
BY DEF Session!Headers

\* A step keeps what the headers say of the live clients other than c: the mutex one
\* holds, the pid it has yet to write, its name.
KeepsOthers(c) ==
    \A s \in Session!Sessions, d \in live \ {c} :
        /\ shm[s].mutex = d => shm'[s].mutex = d
        /\ shm[s].mutex = d /\ shm[s].attached = PidZero => shm'[s].attached = PidZero
        /\ shm[s].attached = d => shm'[s].attached = d

\* The client itself ends where the invariant wants it.
Placed(c) ==
    /\ cl'[c].pc \in Mapped => cl'[c].session \in Session!Sessions
    /\ cl'[c].owns <=> cl'[c].pc \in Owning
    /\ cl'[c].pc \in Locked => shm'[cl'[c].session].mutex = c
    /\ cl'[c].pc = "pid" => shm'[cl'[c].session].attached = PidZero
    /\ cl'[c].owns => shm'[cl'[c].session].attached = c

\* A step of one client that keeps the others and places the client is safe.
LEMMA AttachMove ==
    ASSUME AttachInv, NEW c \in Clients, live' = live, \A d \in Clients \ {c} : cl'[d] = cl[d],
           KeepsOthers(c), Placed(c)
    PROVE  AttachSafety'
<1>0. live \subseteq Clients /\ Locked \subseteq Mapped /\ Owning \subseteq Mapped /\ "pid" \in Locked
  BY DEF AttachInv, Session!TypeOK, Locked, Mapped, Owning
<1>1. MapInv /\ OwnInv /\ MutexInv /\ PidInv /\ OneAttachedClient
  BY Zenon DEF AttachInv
<1>2. ASSUME NEW d \in Clients
      PROVE  (cl'[d].pc \in Mapped => cl'[d].session \in Session!Sessions) /\ (cl'[d].owns <=> cl'[d].pc \in Owning)
  <2>1. CASE d = c
    BY <2>1, Zenon DEF Placed
  <2>2. CASE d # c
    BY <1>1, <2>2, Zenon DEF MapInv, OwnInv
  <2> QED
    BY <2>1, <2>2, Zenon
<1>3. ASSUME NEW d \in live
      PROVE  /\ cl'[d].pc \in Locked => shm'[cl'[d].session].mutex = d
             /\ cl'[d].pc = "pid" => shm'[cl'[d].session].attached = PidZero
             /\ cl'[d].owns => shm'[cl'[d].session].attached = d
  <2>1. CASE d = c
    BY <2>1, Zenon DEF Placed
  <2>2. CASE d # c
    <3>1. cl'[d] = cl[d] /\ d \in Clients /\ d \in live \ {c}
      BY <1>0, <2>2, Zenon
    <3>2. /\ cl[d].pc \in Locked => cl[d].session \in Session!Sessions /\ shm[cl[d].session].mutex = d
          /\ cl[d].pc = "pid" => cl[d].pc \in Locked /\ shm[cl[d].session].attached = PidZero
          /\ cl[d].owns => cl[d].session \in Session!Sessions /\ shm[cl[d].session].attached = d
      <4>1. cl[d].pc \in Locked => cl[d].session \in Session!Sessions /\ shm[cl[d].session].mutex = d
        BY <1>0, <1>1, <3>1, Zenon DEF MapInv, MutexInv
      <4>2. cl[d].pc = "pid" => cl[d].pc \in Locked /\ shm[cl[d].session].attached = PidZero
        BY <1>0, <1>1, Zenon DEF PidInv
      <4>3. cl[d].owns => cl[d].session \in Session!Sessions /\ shm[cl[d].session].attached = d
        BY <1>0, <1>1, <3>1, Zenon DEF MapInv, OwnInv, OneAttachedClient
      <4> QED
        BY <4>1, <4>2, <4>3, Zenon
    <3>3. cl[d].session \in Session!Sessions =>
              /\ shm[cl[d].session].mutex = d => shm'[cl[d].session].mutex = d
              /\ shm[cl[d].session].mutex = d /\ shm[cl[d].session].attached = PidZero => shm'[cl[d].session].attached = PidZero
              /\ shm[cl[d].session].attached = d => shm'[cl[d].session].attached = d
      BY <3>1, Zenon DEF KeepsOthers
    <3>4. cl'[d].pc = cl[d].pc /\ cl'[d].session = cl[d].session /\ cl'[d].owns = cl[d].owns
      BY <3>1, Zenon
    <3> QED
      BY <3>2, <3>3, <3>4, Zenon
  <2> QED
    BY <2>1, <2>2, Zenon
<1> QED
  BY <1>2, <1>3, Zenon DEF AttachSafety, MapInv, MutexInv, PidInv, OwnInv, OneAttachedClient

\* LockSharedMutex fails: the repair releases no mutex that a live process holds.
LEMMA LockFailsEffect ==
    ASSUME AttachInv, NEW c \in Clients, cl[c].session \in Session!Sessions, Session!LockFails(c)
    PROVE  \A s \in Session!Sessions, d \in live :
               /\ shm[s].mutex = d => shm'[s].mutex = d
               /\ shm'[s].attached = shm[s].attached
<1> DEFINE t == cl[c].session
<1>1. /\ \A r \in Session!Sessions \ {t} : shm'[r] = shm[r]
      /\ shm'[t].mutex = Session!AfterFailedLock(shm[t].mutex) /\ shm'[t].attached = shm[t].attached
  BY MutexEffect DEF AttachInv, Session!TypeOK, Session!LockFails
<1>2. \A d \in live : Session!AfterFailedLock(d) = d
  BY Zenon DEF Session!AfterFailedLock
<1> QED
  BY <1>1, <1>2, Zenon

\* A client that fails to lock, or is refused, gives up and keeps the others safe.
LEMMA GiveUp ==
    ASSUME AttachInv, NEW c \in Clients, live' = live, NEW pc \in {"idle", "bye"}, Session!Reset(c, pc),
           KeepsOthers(c)
    PROVE  AttachSafety'
<1>1. /\ \A d \in Clients \ {c} : cl'[d] = cl[d]
      /\ cl'[c].pc = pc /\ cl'[c].owns = FALSE
  BY ResetEffect, Zenon DEF AttachInv, Session!TypeOK
<1>2. pc \notin Mapped /\ pc \notin Owning /\ pc \notin Locked /\ pc # "pid"
  BY DEF Mapped, Owning, Locked
<1>3. Placed(c)
  BY <1>1, <1>2, Zenon DEF Placed
<1> QED
  BY <1>1, <1>3, AttachMove, Zenon

\* Every step of a client keeps them.  A take-over finds no live owner, because an owner
\* is named in the header; the repair of a mutex releases none that a live process holds.
LEMMA AttachClientStep ==
    ASSUME SessionAssumption, AttachInv, NEW c \in Clients, Session!Client(c) \/ Session!Close(c)
    PROVE  AttachSafety'
<1> DEFINE s == cl[c].session
<1>0. /\ cl \in [Clients -> Session!ClientStates] /\ shm \in [Session!Sessions -> Session!Headers]
      /\ live \subseteq Clients /\ Nobody \notin live /\ PidZero \notin live
  BY Zenon DEF SessionAssumption, AttachInv, Session!TypeOK
<1>a. cl[c].pc \in Mapped => s \in Session!Sessions
  BY Zenon DEF AttachInv, MapInv
<1>b. cl[c].owns <=> cl[c].pc \in Owning
  BY Zenon DEF AttachInv, OwnInv
<1>c. c \in live /\ cl[c].pc \in Locked => shm[s].mutex = c
  BY Zenon DEF AttachInv, MutexInv
<1>d. c \in live /\ cl[c].owns => shm[s].attached = c
  BY Zenon DEF AttachInv, OneAttachedClient
<1>1. ASSUME Session!Open(c) PROVE AttachSafety'
  <2>1. host' \in Session!Sessions
    BY <1>1 DEF SessionAssumption, AttachInv, Session!TypeOK, Session!Open, Session!HostOpens, Session!HostCreates,
                Session!Sessions
  <2>2. cl[c].pc = "idle" /\ live' = live /\ shm' = shm /\ Session!MapSession(c, host')
    BY <1>1, Zenon DEF Session!Open, Session!At, Session!processes
  <2>3. /\ \A d \in Clients \ {c} : cl'[d] = cl[d]
        /\ cl'[c].pc = "lock" /\ cl'[c].session = host' /\ cl'[c].owns = cl[c].owns
    BY <1>0, <2>2 DEF Session!MapSession, Session!ClientStates
  <2>4. "idle" \notin Owning /\ "lock" \notin Owning /\ "lock" \notin Locked
    BY DEF Owning, Locked
  <2>5. KeepsOthers(c)
    BY <2>2, Zenon DEF KeepsOthers
  <2>6. Placed(c)
    BY <1>b, <2>1, <2>2, <2>3, <2>4, Zenon DEF Placed
  <2> QED
    BY <2>2, <2>3, <2>5, <2>6, AttachMove, Zenon
<1>2. ASSUME Session!Lock(c) PROVE AttachSafety'
  <2>0. /\ cl[c].pc = "lock" /\ live' = live
        /\ (Session!LockSharedMutex(c) /\ Session!Goto(c, "check")) \/ (Session!LockFails(c) /\ Session!Reset(c, "idle"))
    BY <1>2, Zenon DEF Session!Lock, Session!At, Session!processes
  <2>1. s \in Session!Sessions
    BY <1>a, <2>0, Zenon DEF Mapped
  <2>2. CASE Session!LockSharedMutex(c) /\ Session!Goto(c, "check")
    <3>1. /\ \A r \in Session!Sessions \ {s} : shm'[r] = shm[r]
          /\ shm'[s].mutex = c /\ shm'[s].attached = shm[s].attached /\ shm[s].mutex = Nobody
      BY <1>0, <2>1, <2>2, MutexEffect, Zenon DEF Session!LockSharedMutex
    <3>2. /\ \A d \in Clients \ {c} : cl'[d] = cl[d]
          /\ cl'[c].pc = "check" /\ cl'[c].session = s /\ cl'[c].owns = cl[c].owns
      BY <1>0, <2>2, GotoEffect, Zenon
    <3>3. "lock" \notin Owning /\ "check" \notin Owning
      BY DEF Owning
    <3>4. KeepsOthers(c)
      BY <1>0, <3>1, Zenon DEF KeepsOthers
    <3>5. Placed(c)
      BY <1>b, <2>0, <2>1, <3>1, <3>2, <3>3, Zenon DEF Placed
    <3> QED
      BY <2>0, <3>2, <3>4, <3>5, AttachMove, Zenon
  <2>3. CASE Session!LockFails(c) /\ Session!Reset(c, "idle")
    <3>1. KeepsOthers(c)
      BY <2>1, <2>3, LockFailsEffect, Zenon DEF KeepsOthers
    <3> QED
      BY <2>0, <2>3, <3>1, GiveUp, Zenon
  <2> QED
    BY <2>0, <2>2, <2>3, Zenon
<1>3. ASSUME Session!CheckAttached(c) PROVE AttachSafety'
  <2>0. cl[c].pc = "check" /\ c \in live /\ live' = live
    BY <1>3, Zenon DEF Session!CheckAttached, Session!At, Session!processes
  <2>1. s \in Session!Sessions /\ shm[s].mutex = c
    BY <1>a, <1>c, <2>0, Zenon DEF Mapped, Locked
  <2>2. CASE /\ Session!MayTakeOver(shm[s].attached)
             /\ shm' = [shm EXCEPT ![s].attached = PidZero] /\ Session!Goto(c, "pid")
    <3>1. /\ \A r \in Session!Sessions \ {s} : shm'[r] = shm[r]
          /\ shm'[s].attached = PidZero /\ shm'[s].mutex = shm[s].mutex
      BY <1>0, <2>1, <2>2, AttachedEffect, Zenon
    <3>2. /\ \A d \in Clients \ {c} : cl'[d] = cl[d]
          /\ cl'[c].pc = "pid" /\ cl'[c].session = s /\ cl'[c].owns = cl[c].owns
      BY <1>0, <2>2, GotoEffect, Zenon
    <3>3. "check" \notin Owning /\ "pid" \notin Owning
      BY DEF Owning
    <3>4. shm[s].attached \notin live
      BY <1>0, <2>2, Zenon DEF Session!MayTakeOver, Session!ProcessIsAlive
    <3>5. KeepsOthers(c)
      BY <2>1, <3>1, <3>4, Zenon DEF KeepsOthers
    <3>6. Placed(c)
      BY <1>b, <2>0, <2>1, <3>1, <3>2, <3>3, Zenon DEF Placed
    <3> QED
      BY <2>0, <3>2, <3>5, <3>6, AttachMove, Zenon
  <2>3. CASE shm' = [shm EXCEPT ![s].mutex = Nobody] /\ Session!Reset(c, "idle")
    <3>1. /\ \A r \in Session!Sessions \ {s} : shm'[r] = shm[r]
          /\ shm'[s].attached = shm[s].attached
      BY <1>0, <2>1, <2>3, MutexEffect, Zenon
    <3>2. KeepsOthers(c)
      BY <2>1, <3>1, Zenon DEF KeepsOthers
    <3> QED
      BY <2>0, <2>3, <3>2, GiveUp, Zenon
  <2> QED
    BY <1>3, <2>2, <2>3, Zenon DEF Session!CheckAttached
<1>4. ASSUME Session!WritePid(c) PROVE AttachSafety'
  <2>0. /\ cl[c].pc = "pid" /\ c \in live /\ live' = live /\ shm' = [shm EXCEPT ![s].attached = c]
        /\ cl' = [cl EXCEPT ![c] = [@ EXCEPT !.owns = TRUE, !.pc = "unlock"]]
    BY <1>4, Zenon DEF Session!WritePid, Session!At, Session!processes
  <2>1. s \in Session!Sessions /\ shm[s].mutex = c /\ shm[s].attached = PidZero
    BY <1>a, <1>c, <2>0, Zenon DEF Mapped, Locked, AttachInv, PidInv
  <2>2. /\ \A r \in Session!Sessions \ {s} : shm'[r] = shm[r]
        /\ shm'[s].attached = c /\ shm'[s].mutex = shm[s].mutex
    BY <1>0, <2>0, <2>1, AttachedEffect, Zenon
  <2>3. /\ \A d \in Clients \ {c} : cl'[d] = cl[d]
        /\ cl'[c].pc = "unlock" /\ cl'[c].session = s /\ cl'[c].owns = TRUE
    BY <1>0, <2>0 DEF Session!ClientStates
  <2>4. KeepsOthers(c)
    BY <1>0, <2>1, <2>2, Zenon DEF KeepsOthers
  <2>5. "unlock" \in Owning /\ "unlock" # "pid"
    BY DEF Owning
  <2>6. Placed(c)
    BY <2>1, <2>2, <2>3, <2>5, Zenon DEF Placed
  <2> QED
    BY <2>0, <2>3, <2>4, <2>6, AttachMove, Zenon
<1>5. ASSUME Session!Unlock(c) PROVE AttachSafety'
  <2>0. cl[c].pc = "unlock" /\ c \in live /\ live' = live /\ shm' = [shm EXCEPT ![s].mutex = Nobody] /\ Session!Goto(c, "attached")
    BY <1>5, Zenon DEF Session!Unlock, Session!At, Session!processes
  <2>1. s \in Session!Sessions /\ shm[s].mutex = c
    BY <1>a, <1>c, <2>0, Zenon DEF Mapped, Locked
  <2>2. /\ \A r \in Session!Sessions \ {s} : shm'[r] = shm[r]
        /\ shm'[s].attached = shm[s].attached
    BY <1>0, <2>0, <2>1, MutexEffect, Zenon
  <2>3. /\ \A d \in Clients \ {c} : cl'[d] = cl[d]
        /\ cl'[c].pc = "attached" /\ cl'[c].session = s /\ cl'[c].owns = cl[c].owns
    BY <1>0, <2>0, GotoEffect, Zenon
  <2>4. KeepsOthers(c)
    BY <2>1, <2>2, Zenon DEF KeepsOthers
  <2>5. "unlock" \in Owning /\ "attached" \in Owning /\ "attached" \notin Locked /\ "attached" # "pid"
    BY DEF Owning, Locked
  <2>6. Placed(c)
    BY <1>b, <1>d, <2>0, <2>1, <2>2, <2>3, <2>5, Zenon DEF Placed
  <2> QED
    BY <2>0, <2>3, <2>4, <2>6, AttachMove, Zenon
<1>6. ASSUME Session!Close(c) PROVE AttachSafety'
  <2>1. cl[c].pc = "attached" /\ c \in live /\ live' = live /\ shm' = shm /\ Session!Goto(c, "release")
    BY <1>6, Zenon DEF Session!Close, Session!At, Session!processes
  <2>2. /\ \A d \in Clients \ {c} : cl'[d] = cl[d]
        /\ cl'[c].pc = "release" /\ cl'[c].session = s /\ cl'[c].owns = cl[c].owns
    BY <1>0, <2>1, GotoEffect, Zenon
  <2>3. /\ "attached" \in Owning /\ "release" \in Owning /\ "release" \notin Locked /\ "release" # "pid"
        /\ "attached" \in Mapped
    BY DEF Owning, Locked, Mapped
  <2>4. KeepsOthers(c)
    BY <2>1, Zenon DEF KeepsOthers
  <2>5. Placed(c)
    BY <1>a, <1>b, <1>d, <2>1, <2>2, <2>3, Zenon DEF Placed
  <2> QED
    BY <2>1, <2>2, <2>4, <2>5, AttachMove, Zenon
<1>7. ASSUME Session!Release(c) PROVE AttachSafety'
  <2>0. /\ cl[c].pc = "release" /\ c \in live /\ live' = live
        /\ (Session!LockSharedMutex(c) /\ Session!Goto(c, "clear")) \/ (Session!LockFails(c) /\ Session!Reset(c, "bye"))
    BY <1>7, Zenon DEF Session!Release, Session!At, Session!processes
  <2>1. s \in Session!Sessions /\ "release" \in Owning
    BY <1>a, <2>0, Zenon DEF Mapped, Owning
  <2>2. CASE Session!LockSharedMutex(c) /\ Session!Goto(c, "clear")
    <3>1. /\ \A r \in Session!Sessions \ {s} : shm'[r] = shm[r]
          /\ shm'[s].mutex = c /\ shm'[s].attached = shm[s].attached /\ shm[s].mutex = Nobody
      BY <1>0, <2>1, <2>2, MutexEffect, Zenon DEF Session!LockSharedMutex
    <3>2. /\ \A d \in Clients \ {c} : cl'[d] = cl[d]
          /\ cl'[c].pc = "clear" /\ cl'[c].session = s /\ cl'[c].owns = cl[c].owns
      BY <1>0, <2>2, GotoEffect, Zenon
    <3>3. KeepsOthers(c)
      BY <1>0, <3>1, Zenon DEF KeepsOthers
    <3>4. "clear" \in Owning /\ "clear" # "pid"
      BY DEF Owning
    <3>5. Placed(c)
      BY <1>b, <1>d, <2>0, <2>1, <3>1, <3>2, <3>4, Zenon DEF Placed
    <3> QED
      BY <2>0, <3>2, <3>3, <3>5, AttachMove, Zenon
  <2>3. CASE Session!LockFails(c) /\ Session!Reset(c, "bye")
    <3>1. KeepsOthers(c)
      BY <2>1, <2>3, LockFailsEffect, Zenon DEF KeepsOthers
    <3> QED
      BY <2>0, <2>3, <3>1, GiveUp, Zenon
  <2> QED
    BY <2>0, <2>2, <2>3, Zenon
<1>8. ASSUME Session!Clear(c) PROVE AttachSafety'
  <2>0. cl[c].pc = "clear" /\ c \in live /\ live' = live /\ shm' = [shm EXCEPT ![s] = Session!FreshShm] /\ Session!Reset(c, "bye")
    BY <1>8, Zenon DEF Session!Clear, Session!At, Session!processes
  <2>1. s \in Session!Sessions /\ shm[s].mutex = c /\ shm[s].attached = c
    BY <1>a, <1>b, <1>c, <1>d, <2>0, Zenon DEF Mapped, Locked, Owning
  <2>2. \A r \in Session!Sessions \ {s} : shm'[r] = shm[r]
    BY <1>0, <2>0, Zenon
  <2>3. KeepsOthers(c)
    BY <2>1, <2>2, Zenon DEF KeepsOthers
  <2> QED
    BY <2>0, <2>3, GiveUp, Zenon
<1>9. ASSUME Session!Bye(c) PROVE AttachSafety'
  <2>1. cl[c].pc = "bye" /\ live' = live /\ shm' = shm /\ Session!Goto(c, "idle")
    BY <1>9, Zenon DEF Session!Bye, Session!At, Session!processes
  <2>2. /\ \A d \in Clients \ {c} : cl'[d] = cl[d]
        /\ cl'[c].pc = "idle" /\ cl'[c].owns = cl[c].owns
    BY <1>0, <2>1, GotoEffect, Zenon
  <2>3. "bye" \notin Owning /\ "idle" \notin Owning /\ "idle" \notin Mapped /\ "idle" \notin Locked /\ "idle" # "pid"
    BY DEF Owning, Locked, Mapped
  <2>4. KeepsOthers(c)
    BY <2>1, Zenon DEF KeepsOthers
  <2>5. Placed(c)
    BY <1>b, <2>1, <2>2, <2>3, Zenon DEF Placed
  <2> QED
    BY <2>1, <2>2, <2>4, <2>5, AttachMove, Zenon
<1> QED
  BY <1>1, <1>2, <1>3, <1>4, <1>5, <1>6, <1>7, <1>8, <1>9, Zenon DEF Session!Client

\* The steps of the engine and the deaths keep them: a death only takes processes away
\* from what they speak of, and the engine writes nothing of a header.
LEMMA AttachSystemStep ==
    ASSUME AttachInv,
           \/ \E c \in Clients : Session!Die(c) \/ Session!ReusePid(c)
           \/ Session!CloseSession \/ Session!StopEnd \/ Session!EngineDies \/ Session!EngineStarts
           \/ UNCHANGED Session!vars
    PROVE  AttachSafety'
<1>1. shm' = shm /\ cl' = cl /\ live' \subseteq live
  BY SMT, Z3 DEF Session!Die, Session!ReusePid, Session!CloseSession, Session!StopEnd, Session!EngineDies, Session!EngineStarts, Session!vars, Session!processes
<1> QED
  BY <1>1, Zenon DEF AttachInv, AttachSafety, MapInv, MutexInv, PidInv, OwnInv, OneAttachedClient

\* Initially nobody is attached and every mutex is free.
LEMMA AttachInit == ASSUME SessionAssumption PROVE Session!Init => AttachInv
<1> SUFFICES ASSUME Session!Init PROVE AttachInv
  OBVIOUS
<1>1. 0 \in 0 .. MaxSessions /\ 0 \in 0 .. MaxDeaths
  BY SMT, Z3 DEF SessionAssumption
<1>2. shm \in [Session!Sessions -> Session!Headers] /\ cl \in [Clients -> Session!ClientStates]
  BY <1>1 DEF Session!Init, Session!FreshShm, Session!IdleClient, Session!Headers, Session!ClientStates
<1>3. Session!TypeOK
  BY <1>1, <1>2, Zenon DEF Session!Init, Session!TypeOK
<1>4. \A c \in Clients : cl[c].pc = "idle" /\ cl[c].owns = FALSE
  BY Zenon DEF Session!Init, Session!IdleClient
<1>5. live = Clients
  BY DEF Session!Init
<1> QED
  BY <1>3, <1>4, <1>5, SMT, Z3 DEF AttachInv, MapInv, MutexInv, PidInv, OwnInv, OneAttachedClient, Mapped, Locked, Owning

\* The invariant is inductive.
LEMMA AttachNext ==
    ASSUME SessionAssumption
    PROVE  AttachInv /\ [Session!Next]_(Session!vars) => AttachInv'
<1> SUFFICES ASSUME AttachInv, [Session!Next]_(Session!vars) PROVE AttachInv'
  OBVIOUS
<1>1. Session!TypeOK'
  BY AttachTypeStep, SMT, Z3 DEF AttachInv
<1>2. AttachSafety'
  BY <1>1, AttachClientStep, AttachSystemStep DEF Session!Next
<1> QED
  BY <1>1, <1>2 DEF AttachInv, AttachSafety

\* Every state of the attach protocol has its type: pids only in the header's pid,
\* holders only in its mutex, for any number of clients, sessions and deaths.
THEOREM AttachTypeCorrect == ASSUME SessionAssumption PROVE Session!Spec => []Session!TypeOK
<1>1. AttachInv => Session!TypeOK
  BY DEF AttachInv
<1> QED
  BY AttachInit, AttachNext, <1>1, PTL DEF Session!Spec

\* TryAcquireClientAttachment and LockSharedMutex let no two live processes be attached
\* to one session: whoever owns an attachment is the process the header names.
THEOREM OneAttached == ASSUME SessionAssumption PROVE Session!Spec => []OneAttachedClient
<1>1. AttachInv => OneAttachedClient
  BY DEF AttachInv
<1> QED
  BY AttachInit, AttachNext, <1>1, PTL DEF Session!Spec

=============================================================================
