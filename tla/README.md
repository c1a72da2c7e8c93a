# Verification of memrpc and the virus executor service

`memrpc` is a shared-memory RPC framework: a client process pushes requests into
rings of a shared mapping, a server process runs them and pushes responses back,
and eventfds wake the other side. `virus_executor_service` (VES) is a service
built on it. This directory models both in TLA+, checks the models with TLC and
proves the central facts with TLAPS. Paths below are relative to the source tree.

## 1. The system

### Parts and their state

| Part | Source | State | Operations that change it |
|---|---|---|---|
| Client | `memrpc/src/client/rpc_client.cpp` | API state, lifecycle state and cooldown, session snapshot, submit queue, pending store, futures, three workers | Init, InvokeAsync, RequestExternalRecovery, Shutdown, death callback, submit / response / watchdog loops |
| Server | `memrpc/src/server/rpc_server.cpp` | running flags, executors, submitted-task count, completion queue and count | Start, Stop, PublishEvent, dispatcher / executor / writer loops |
| Rings | `memrpc/src/core/session.cpp`, `shm_layout.h` | head, tail, slots | push, pop |
| Session | `memrpc/src/core/session.cpp` | mapping, Alive/Broken, client attachment under a process-shared mutex | Attach, Reset, SetState |
| Session host | `memrpc/src/bootstrap/shared_memory_session_host.cpp` | the open session | OpenSession, CloseSession |
| File payloads | `memrpc/src/core/file_payload.cpp` | files of oversized payloads | write, resolve, remove, clear |
| VES client | `virus_executor_service/src/client/ves_client.cpp` | restart budget, process ownership | Init, InvokeApi, Shutdown, recovery policy |
| Control channel | `transport/ves_control_proxy.cpp` | cached control, session id, death recipients | OpenSession, CloseSession, CheckHealth, remote death |
| VES service | `service/ves_session_service.cpp`, `virus_executor_service.cpp`, `ves_engine_service.cpp` | initialised / closing flags, session id, event publisher, engine configuration | OpenSession, CloseSession, AnyCall, Heartbeat, OnStart, OnStop |
| Registry, supervisor, engine process | `transport/registry_*.cpp`, `app/*.cpp` | engine pid, registered path, processes | register, get, load, unload, spawn, kill |
| SA mock, codecs, logging | `third_party/ohos_sa_mock`, `byte_*.cpp`, `codec.h`, `log.cpp` | the service socket; otherwise none of interest | publish, unlink |

### How they interact

A request goes InvokeAsync → submit queue → submit worker → pending store and
request ring → dispatcher → executor → handler → completion queue → response
writer → response ring → response worker → future. Four eventfds carry wakeups
(request, response) and credits (a full request or response ring got room). A
payload that does not fit travels as the name of a file.

Beside that path runs recovery. A death notice, a failed reply, a timeout, a
failed health check, idleness and an explicit request all lead into sections of
one mutex (`lifecycleMutex_`). These sections close the session, decide what
happens to the pending requests, set a cooldown, and open the next session through
the control channel. The engine process creates a session on demand, together with
its server and its event publisher, and reuses it until it is closed. A supervisor
process starts the engine and runs the registry through which clients find it.

### What makes it hard

- Three client workers, callbacks and API callers race for the same pending
  request, the same session and the same lifecycle state.
- A death notice may be early, late, or delivered twice, and it carries no identity.
- Every wakeup is conditional: a signal is sent only on an empty-to-nonempty or
  full-to-nonfull edge, and the edge is computed next to a moving ring.
- Limits are met: full rings, full executors, full completion queue, a spent
  restart budget.
- Stop, OnStop and Shutdown run against threads in any wait.
- A process can die at any step: attached, holding the process-shared mutex, with a
  file written and not published.
- Two places start engines and two places kill them.
- Cursors wrap, and entries are copied without a lock.

`PROJECT.json` lists each of these as a hazard, at the line where it bites.

## 2. Modules

| Module | Models | Checked by | Proofs |
|---|---|---|---|
| `RpcClient` | the client, with engine and bootstrap channel as environment | `MCRpcClient` | `RpcClientProofs` |
| `RpcServer` | the server, with the client's two ring users as environment | `MCRpcServer` | `RpcServerProofs`, `RpcServerFlow` |
| `SpscRing`, `BoundedFifo` | one ring, load by load; what a ring promises | `MCSpscRing` | `SpscRingProofs` |
| `SharedSession`, `Attachment` | attachment of client processes to a session, and their deaths; what an attachment promises | `MCSharedSession` | `ProcessProofs` |
| `PayloadFiles` | client, server and session together, as far as payload files go | `MCPayloadFiles` | `PayloadFilesProofs` |
| `EngineSession` | the engine process behind its control interface | `MCEngineSession` | `EngineSessionProofs` |
| `ControlChannel` | several VesClients, their channels, and the engine they share | `MCControlChannel` | `ControlChannelProofs` |
| `Supervisor` | supervisor, registry, engine processes and a client process | `MCSupervisor` | `ProcessProofs` |

The modules meet at interfaces. `SpscRing` justifies that `RpcServer` and `PayloadFiles`
keep a ring as a sequence with atomic push and pop, and `RpcClient` as a set.
`SharedSession` justifies that `PayloadFiles` attaches in one step. `EngineSession` uses
of `RpcServer` that no request is handled after Stop has returned. `ControlChannel` uses
`RpcClient` as a session id with the actions it takes under `lifecycleMutex_`, and
`EngineSession` as the session that is served. The events that `ControlChannel`
produces (a failed open, a death notice, an unhealthy check) are the environment events
of `RpcClient`.

Operators with an underscore in their name (`PushTest_OffByOne`) are mutants:
the definition they are named after with a plausible mistake. They are used by no
specification; replacing the original by its mutant makes the named property
fail, which shows that the property looks at that code.

### RpcClient

Each critical section of `lifecycleMutex_` is a run of one small machine: `sec.owner`
is the thread inside, `sec.step` its place, the other fields the locals of the
function there. Threads are records with a program counter (`sub`, `rsp`, `wd`,
`dth`, `ext`, `ini`, `shut`). A change that another thread can see in the middle of
a section is a step of its own. A policy callback (`onFailure`, `onIdle`,
`onEngineDeath`) may return any decision. Time is abstract: a cooldown or a deadline
may end at any moment after it was set.

The environment is an engine with at most one session. A behaviour starts by choosing
one of the `FaultFamilies` (the variable `faults`), the events that may happen in it:
`invoke` (the application calls), `pair` (for every one of `Requests`, not just for one),
`shutdown`, `die`, `break` (session marked Broken), `bad` (unreadable entry),
`pollFail`, `openFail`, `closeFail`, `tooLarge`, `unhealthy`, `idle`, `expire`, `external`,
`reinit` (Init called again), `twice` (a notice delivered twice).

Data is reduced to what the properties distinguish. A request is a model value. A
pending entry is the id of its session. A ring is a set, because the order of
entries matters to `SpscRing` only.

### RpcServer

One session from `Start` to `Stop`. A test of a ring count and the pop next to it are
two steps; the test of a condition variable's predicate and the wait are two steps.
The client side (`cli`, `crs`) is the push of the submit worker and the drain of the
response worker; a client that meets a Broken session leaves. Timeouts of polls and
retry budgets may pass at any moment. A behaviour starts by choosing one of the
`Workloads` (the variable `load`): the requests, their priorities, the capacities, how
many events are published and whether Stop is called.

Left out: payload contents, custom `TaskExecutor`s, spurious wakeups, a second
concurrent caller of `PublishEvent`, a failing `Start`, the statistics. A local that will
be written before it is read again is kept at its initial value.

### SpscRing and BoundedFifo

`PushRingEntry` and `PopRingEntry` with every load and store of a cursor a step. The
copy of an entry is two steps, and a copy that overlaps another writes or reads
`Torn`. The acquire and release orders in the code justify interleaving
semantics for these accesses. Cursors wrap at `Modulus` (2^32 in the code).

`ModulusAssumption` asks that the capacity divides the modulus. The default sizes do
(8 slots). `ValidateLayoutConfig` accepts any size from 1 to its maximum; a ring of,
say, 3 slots would misnumber its slots when a cursor wraps.

### SharedSession

The session's header (attached client, process-shared mutex), the host in the engine
and the client processes. `Attach` and `Reset` go store by store: take the mutex, test
the attachment, write `clientAttached`, write `activeClientPid`, unlock. A client may
die between any two of them; the mutex is robust, so the next one to lock it finds the
owner dead and repairs it. `PidZero` is the state between the two header stores.
`reused` are dead clients whose pid has gone to an unrelated process, which
`ProcessIsAlive` cannot tell apart. `reach` is chosen at the start: whether a client's
CloseSession reaches the engine.

### PayloadFiles

Every place that writes, reads or unlinks a payload file, in one module, because the
question is about all of them: a client that prepares, pushes and takes back, a worker
that resolves the request and writes the reply, a writer that takes the reply back, the
scan of the rings in `MarkSessionBroken`, and `ClearFilePayloads` in the next `OnStart`.
`Session::PushRequest` is three steps (`PushCheck`, `PushRequest`, `PushRecheck`), since the
session may break between the two tests of its state.

A file is named by the client, the direction and the session. Requests are numbered from
1 in every client process, so the model gives every client the same number; who sent a
request is known to the model only. `adrift` and `served` are history. The accesses to
the session state interleave as if sequentially consistent; the code uses acquire and
release.

### EngineSession

The engine behind its control interface. A step is a critical section of `initMutex_`,
`lifecycleMutex_` or `engineConfigMutex_`, an access to an atomic, or the end of a wait.
`thr` are the control threads and the main thread with their locals; `svc` the
`EngineSessionService` objects, which are shared pointers: whoever drops the last
reference (`Holders`) runs the destructor and with it `CloseSession`. `pub` and `srv` are
the publisher thread and the `RpcServer` of each session.

### ControlChannel

Several `VesClient` instances of one process, in the order of their generation, and the
engine they share. `chan` is the `VesBootstrapChannelState`, `op` what the thread that holds
the RpcClient's `lifecycleMutex_` is doing, `dog` a health check and `notice` a death
notice in progress. A control object belongs to an incarnation of the engine, yet its
calls connect to the service path and reach whichever incarnation listens there.
`replied` are the instances with a call that is answered and has not reset the restart budget
yet: the caller's thread does that when it runs again. `unsent` are those whose push failed and
whose submit worker has not closed the session yet; it closes whatever session it finds when it
gets `lifecycleMutex_`. `Scenarios` bounds the clients and troubles of a behaviour.

`CloseSession` is asynchronous in the code and is taken to happen at once. The
platform's service manager starts a dead engine again (`LoaderLoads`); the supervisor
in this tree does not, see `CrashedEngineIsReplaced` in section 4.

### Supervisor

`main()` of the supervisor, the registry's accept thread, the engine processes and one
client. The registry has one service, so it is one flag. Engines register through the
thread that starts and kills them, which is where a deadlock may hide. `prompt` and
`hasty` are chosen at the start: whether an engine registers within the 500 ms its
parent sleeps, and whether the client may end in the middle of a request. Every fork may
fail: a load is then answered without a path, and without its first engine or its client
the supervisor stops. A `get` is answered from the registry as it stands
(registry_server.cpp:226); only a `load` probes the path. The history variable `lost` says
that an engine has crashed since the last load or registration was taken.

## 3. Runs

| Run | Instance | Checks | States |
|---|---|---|---|
| `client_safety` | 2 requests, 2 sessions, rings of 1 slot, five fault families, Shutdown in four of them | OneOwner, LiveSessionIsActive, NoLostNotification, NoNestedRecovery, ShutdownComplete, DeathClosesOnlyTheDead, NoOpenDuringCooldown | 2.77 M |
| `client_fair` | the same sizes, three fault families | NeverOrphaned, ShutdownTerminates, RequestsAreAnswered | 296 k |
| `server_safety` | 1 to 3 requests, rings of 1 and 2 slots, 1 thread per executor, six workloads | RequestsAreConserved, CompletionsAreCounted, NoMissedSignal, NoLostRequestCredit, NoStrandedCompletion, ResetAfterLastUse | 2.42 M |
| `server_fair` | 2 requests for 1 slot; 1 request and Stop | RequestsComplete, StopReturns | 363 k |
| `ring` | 4 slots, cursors modulo 8, 2 values | IsFifo (refinement of `BoundedFifo`) | 46 k |
| `engine_session` | 2 callers (1 and 2 calls), 2 starts, 3 sessions, 1 failure | SessionIsServed, ReopenWaitsForStop, PublishersAreJoined, StopLeavesNothing, CallsReturn | 468 k |
| `shared_session` | 2 clients, 2 sessions, 2 deaths, pids reused | OneAttachedClient, DeadClientIsReplaced, LeftSessionIsDropped | 80 k |
| `payload_files` | 2 clients (one with big payloads, one without handler), 2 sessions, 1 trouble | NoFileIsLeft, FileIsThere | 3.29 M |
| `control_channel` | 1 client and 3 troubles, 2 and 1, 3 and 0; budget 2, 3 engines | TypeOK, RecipientFollowsControl, SessionIsKnown, SpentBudgetIsFinal, StaleSessionIsLeft, LostAccessEndsSession, OwnerIsServed | 573 k |
| `supervisor` | 6 requests, 2 crashes, prompt and slow, patient and hasty | OneEngine, NoEngineLeft, GivenPathIsServed, SupervisorEnds | 32 k |
| `doc_death_fails_waiting` | 2 requests, deaths | DeathFailsWaiting, **violated** | |
| `doc_response_credit` | 2 requests, rings of 1 slot | ResponseCreditArrives, **violated** | |

### Bounds

Two requests and two sessions are the least for which a request of one session meets the
other, and a ring of one slot is full and empty in turn, so that every push crosses both
edges. Three sessions in `engine_session` are two reopened by a caller and one by the
second start. Cursors modulo 8 over 4 slots wrap after two rounds. Six requests of the
supervisor's client are two rounds of get, load and unload. Fault families keep the client's
state space small: a fault of one family never meets one of another. Each bound is a
constant, and each theorem of section 5 holds for every value of it.

Deadlock is checked for the client, the server and the ring. In the other
modules the work is bounded, and a behaviour ends when it is done.

### Fairness

Weak fairness of every thread: a thread that can go on does. Beyond that:

- Client: the engine answers what is in its ring, and the deadline of a pending timed
  request is found expired by one of the scans that keep coming (strong fairness, because
  the watchdog is elsewhere in between). Nothing is assumed of the order in which threads
  get `lifecycleMutex_`, nor of death notices, opens or the health check.
- Server: handlers return. Nothing is assumed of when `PublishEvent` and `Stop` are called, nor
  that `STOP_TIMEOUT` passes.
- EngineSession: handlers return, so that `RpcServer::Stop` does.
- SharedSession: the service manager starts a dead engine again. The mutex is waited for
  with a timeout, so a client never blocks in it.
- ControlChannel: the application keeps calling, a submit worker that failed to push closes the
  session, and the watchdog repeats its check. Replies, notices and troubles need not come.
- Supervisor: its client ends some time.

### What the properties except, and why

- `OneOwner` is checked where no deadline can pass between `Put` and a push that fails.
  `PushRequestToSession` ignores that its `Take` found nothing, so the submit worker then goes
  on with a request that another thread owns. `NeverOrphaned` is what remains in that case.
- `RequestsAreAnswered` is about requests with a deadline. A failure policy that answers
  IdleClose closes the session and leaves an untimed pending request waiting for ever. It
  also excepts `WaitsForNewSession` (section 4, `CreditIsOwed`).
- `StopReturns` excepts `WriterMissedStop`: `StopResponseWriter` clears its flag without the
  writer's mutex, so the wakeup may come between the writer's test and its wait.
- `SessionIsServed`, `PublishersAreJoined` and `StopLeavesNothing` except a service whose
  session host failed to open: the empty host it keeps lets an `OpenSession` in progress
  hand out a session without a server, and its publisher is never joined.
- `NoFileIsLeft` excepts the request of an opcode without handler (answered without a look at
  its payload) and sessions adrift: the engine died (its files wait for the next `OnStart`),
  or a client that attached late set the session Alive again after it was marked broken.
  A file in the hand of a client counts as accounted for only while that client runs; the one
  it had in its hand when it died (`DiedWith`) is excepted by name, and waits for the next
  `OnStart` as well.
- `SpentBudgetIsFinal` is about an instance without an answered call that still has to reset the
  budget: such a caller, when it runs again, revives a client that had stopped.
- `GivenPathIsServed` excepts an engine that crashed after the last load or registration was
  taken (`lost`): a `get` does not probe the path. A load forgets earlier crashes.
- `NoEngineLeft` is about a client that ends between its requests: a load that outlives its
  client starts an engine after the supervisor has emptied the slot. `SupervisorEnds` is about
  prompt engines: one that is unloaded before it registers waits for the thread that
  waits for its end.

## 4. Where code and documents disagree

Two runs show it by a counterexample.

- `doc_death_fails_waiting`: "子进程死亡后，旧 session 上的等待请求立即失败"
  (docs/porting_guide.md:116). A death notice between `OpenSession` and `Attach` is compared
  with a snapshot that is still 0 and dropped (rpc_client.cpp:1818). The client attaches
  the dead session, and an untimed request on it waits for ever.
- `doc_response_credit`: "Server响应队列满时阻塞，Client消费后通知Server继续写入"
  (docs/document.md:193). `DrainResponseRing` tests for a full ring before its pop
  (rpc_client.cpp:1285), so a response published in between fills the ring unnoticed, and
  no credit is sent.

The modules state these other claims of documents, comments and tests as formulas. TLC finds
each violated on the instance named; no run repeats it.

| Formula | Claim | What the code does |
|---|---|---|
| `RpcClient!ActiveHasSession` | docs/state_machine.md:8, Active has a live session | a transport failure closes the session and leaves Active (rpc_client.cpp:1912; `pair`, `break`) |
| `RpcClient!ClosedIsTerminal` | docs/state_machine.md:110 | Init stores the state without the lock Shutdown holds (rpc_client.cpp:550; `ConcurrentInit = TRUE`) |
| `RpcClient!IdleSampledWhenIdle` | rpc_client.h:128 | idleness is sampled before the lock and used after it (rpc_client.cpp:2205; `idle`) |
| `RpcClient!ExecTimeoutAfterPublish` | rpc_client.h:19 | the deadline runs from `Put`, before the push (rpc_client.cpp:2125; `expire`) |
| `RpcClient!CreditIsOwed` | docs/document.md:192 | the credit wait has no timeout and takes whatever session is current: full ring of session 1, recovery, wait for a credit of the empty session 2 (rpc_client.cpp:933–968). The admission timeout of docs/architecture.md:275 does not exist |
| `RpcServer!StopWakesWriter` | material.md:456 | the lost wakeup of `StopReturns` (rpc_server.cpp:375) |
| `RpcServer!RefusedOnlyWhenFull` | rpc_server.h:19 | a finished completion is counted until the writer accounts for it (rpc_server.cpp:403) |
| `EngineSession!EnginesResetAfterDrain`, `StoppedMeansUnconfigured` | tests/dt/ves_shutdown_lifecycle_test.cpp:272 | a call that still holds the session service opens a session again after OnStop has closed it, and the engines are reset under its requests; an OpenSession that passed the stopping test configures them after OnStop |
| `PayloadFiles!NoReplay` | docs/porting_guide.md:118 "框架不会自动重放可能已经被旧服务端看到的请求" | a push whose second test fails has published its entry (session.cpp:484), and the request is sent again |
| `PayloadFiles!ReplyIsForThisClient` | docs/document.md:1500, a RequestId is unique | every process counts from 1; the next client of a session pops the dead one's reply as its own (rpc_client.cpp:1216, 1370) |
| `ControlChannel!DeathNamesOldSession` | docs/recovery_ownership.md, docs/sa_integration.md:36 | a late notice carries no identity and takes the new control away |
| `Supervisor!CrashedEngineIsReplaced` | docs/html/service-lifecycle.html:112 "引擎死亡后自动拉起新进程" | the pid of a crashed engine stays in the slot, and load takes it for a running engine (ves_supervisor_main.cpp:97) |
| `Supervisor!ListenerIsRegistered` | registry_server.cpp:194 | a load between registration and bind finds the path unreachable and removes it |

## 5. Proofs

Every statement below is checked by TLAPS to the last leaf and holds for every value of the
constants that satisfies the named assumptions of the module. In each case TLC checked the
inductive invariant on the instance of section 3 first.

| Theorem | States | Invariant it rests on |
|---|---|---|
| `RpcClientProofs!TypeCorrect` | TypeOK | `TypeInv`: a busy worker has a request, replies name requests |
| `RpcClientProofs!RecoveryNeverNests` | NoNestedRecovery | `StoreInv` (pending ids are of sessions created so far), `SectionInv` and `OutsideSection` (what the section has closed before it fails the pending) |
| `RpcClientProofs!CooldownIsRespected` | NoOpenDuringCooldown | `SectionInv`: a section that opens has tested the cooldown under the mutex |
| `RpcClientProofs!LiveIsActive` | LiveSessionIsActive, if Shutdown does not overlap Init | `ControlInv`, `QuietInv`, `ActiveInv` |
| `RpcClientProofs!NotificationsAreSeen` | NoLostNotification | the property itself, step by step: only the response worker forgets a notification, and only before it looks at the session |
| `RpcClientProofs!LateNoticesAreHarmless` | DeathClosesOnlyTheDead | `NoticeInv`, `DeathInv`: what the death callback holds inside the section; `LocksForItself` |
| `RpcClientProofs!NoFutureIsLost` | NeverOrphaned, also when Shutdown overlaps Init | `OwnedInv`, with `LocalsInv`: a thread that resolves no request has none in hand |
| `RpcClientProofs!ShutdownIsComplete` | ShutdownComplete, if Shutdown does not overlap Init | `CloseInv`, `StopInv`, `DrainInv`: what Shutdown has closed, joined and emptied so far stays so; `OwnedInv`, `ControlInv` |
| `RpcServerProofs!TypeCorrect` | TypeOK | `TokensAreTasks`: the submitted-task count is the number of queued and running tasks |
| `RpcServerProofs!CompletionsCounted` | CompletionsAreCounted | the count itself, step by step |
| `RpcServerProofs!ResetComesLast` | ResetAfterLastUse | `StopOrder`: what each step of Stop has joined and emptied |
| `RpcServerProofs!NoSignalIsMissed` | NoMissedSignal | `RequestSignal`, `ResponseSignal`: who still looks at a ring that is not empty |
| `RpcServerProofs!CreditIsNotLost` | NoLostRequestCredit | `RingsFit`, `CreditKept` |
| `RpcServerFlow!RequestsConserved` | RequestsAreConserved | `OnceInv`, `PlaceInv`, `KnownInv`: a published request is in one place of the pipeline, once; `SubmitInv`, `KindInv`, `WriterInv` |
| `RpcServerFlow!CompletionsServed` | NoStrandedCompletion | `ServedInv`, with `OnceInv`: no two threads wait for the same completion; `WriterInv`: the writer leaves only an empty queue behind |
| `SpscRingProofs!RingIsWhole`, `RingIsFifo` | whole entries between the cursors; refinement of `BoundedFifo` | `RingInv`, `ProducerInv`, `ConsumerInv`: the distance of the cursors modulo the range |
| `ProcessProofs!OneAttached` | OneAttachedClient | `MapInv`, `MutexInv`, `PidInv`, `OwnInv`: what the holder of the mutex knows of the header |
| `ProcessProofs!EnginesExclude`, `SupervisorLeavesNone`, `TypeCorrect` | OneEngine, NoEngineLeft, TypeOK | `Phases`, `OneRequest`, `Tracked`: every living engine is in the slot, taken, or being started; `Budget`: starts and requests |
| `ProcessProofs!GivenPathHasEngine` | GivenPathIsServed | `Served`: what is registered is served; `Busy`: nothing is registered while the registry starts or ends an engine; `Announced`: who may have a registration waiting; `Signals`: until the shutdown, the only living engine that was sent SIGTERM is the one the registry waits for; `Numbered` |
| `EngineSessionProofs!TypeCorrect`, `SessionsAreServed`, `ReopenWaits`, `PublishersJoined`, `StopIsComplete` | TypeOK, SessionIsServed, ReopenWaitsForStop, PublishersAreJoined, StopLeavesNothing | `Core` (what a service that is open, closing or closed holds, and what each thread inside it has taken from it) and `Ending` (what a service without holders has left) |
| `ControlChannelProofs!TypeCorrect`, `RecipientIsBound`, `ChannelKnowsSession`, `BudgetIsFinal` | TypeOK, RecipientFollowsControl, SessionIsKnown, SpentBudgetIsFinal | `Holding`: whoever opens or closes has no session, and attaches to the session that was stored; `AttachedUse`: an attached client uses its session; `WithinBudget`: whoever is opening a session has restarts left |
| `PayloadFilesProofs!NothingIsLeft` | NoFileIsLeft | `FileNames`, `Ends`, `HandOver`, `Swept` |
| `PayloadFilesProofs!FilesAreThere` | FileIsThere | `Alone`: in an unbroken session a request or its reply is in one place only; `SentOnce`: its client is not about to push it again; `Present`, `Ordered` |

`NothingIsLeft` shows why strengthening is needed. That no file is lost when a push lets go
of it rests on what the second test of the session state has seen: `HandOver` says that a
push that finds the session unbroken has handed its file over, because whoever swept the
rings since would have broken the session before. That no file is lost when Stop ends rests
on `Swept`: after the scan the rings hold only files whose push has not made that second
test, and it will find the session broken (`Ends`) and take the file back. Both need that
a file name tells its session (`FileNames`).

`FilesAreThere` is about the opposite mistake, a file that is removed while somebody still
needs it. Whoever removes a file looks only at its own entry, so the invariant says that
there is no other: the request of a client is in the request ring, with the server, in the
response ring or with the client that popped the reply, and nowhere else (`Alone`). A client
sends a request again only after it has seen its session broken (`SentOnce`), so this holds
for a session as long as it is unbroken. The places are followed by `PlaceStep`, one step of the journey
at a time.

`RequestsConserved` is the same kind of argument for the server. `StepMoves` says that a step moves
at most one request, one place further along the pipeline (`Along`), into the request ring from
outside, or out of a handler or the writer's hands on a session that is then broken. That a move never
meets a second copy needs `OnceInv` (a queue has a request once, two threads never have the
same one), and that the request the client pushes is new: it numbers its requests
(`RequestIdsAssumption`) and pushes them in order (`SubmitInv`). That `DrainQueue` never pops a
request it cannot hand over is in `KindInv`: the executor it found with capacity still has it,
because only the dispatcher fills it and only Stop, after joining the dispatcher, closes it. The
thread that waits for its reply to be written still has the request in its hands; `PlaceInv` says
that the request itself is then behind it, so that the end of the wait takes nothing away.

`ShutdownIsComplete` rests on the other theorems of the client. That every future is resolved
after Shutdown is not a matter of Shutdown alone: a request may be in the queue, in the store, or in
the hands of one of four threads. `NoFutureIsLost` says that a waiting future has an owner; the
proof then shows that none of the owners is left. `StopInv` says that the workers are joined, and
`LocalsInv` that a thread that has stopped has nothing in hand; `DrainInv` says that the store
and the queue, emptied after the join, are not filled again, because `InvokeAsync` is refused as
soon as the API is closed. That the session stays closed (`CloseInv`) needs what the other threads
may still do with `lifecycleMutex_` then: `ClosedThreads` shows that they can only find that there
is nothing to do, or close once more. All this needs that Init is not running beside
Shutdown: `ClosedIsTerminal` (section 4) is violated when it is.

`GivenPathHasEngine` and `BudgetIsFinal` are about a value that is tested at one moment and relied
on at a later one. The registry's thread forgets the path before it ends an engine and
probes it before it keeps it (`Busy`, `Served`), and until the shutdown nobody else ends engines
(`Signals`). An open that has passed the access check is not overtaken by a restart that is
counted, because both happen under `lifecycleMutex_` (`WithinBudget`).

A proof has one lemma per action that says which fields it changes, one per conjunct of the
invariant that says which actions disturb it, and a theorem that puts them together.
`ProcessProofs` extends `Supervisor` and takes `SharedSession` as an instance, so the two theorems
about it have the assumptions of that module as their hypothesis (`SessionAssumption`). The set of
executor threads of `RpcServer` is any finite set (`WorkersAssumption`).
Most leaves name Zenon, which needs no translation of the context; the leaves with arithmetic or
sequences are left to SMT.

That `ControlChannel` always finds an unused session id is not induction over data: the
clients' memory is mapped onto the ids, and the surjection theorems of the library
bound their number (`FreshSessionExists`; hence `MaxSessions > 6 * Generations`).

### Only model-checked

- Liveness: fairness and ENABLED are beyond the prover.
- `OneOwner`: it does not hold for every value of the constants (section 3, what the properties
  except), so no theorem can state it as it is. `NoFutureIsLost` proves the half that always holds.

## 6. Not modelled

- Client: the runtime statistics, and the retry loop `RetryUntilRecoverySettles`
  (rpc_client.cpp:2337). The loop recomputes its deadline from the remaining cooldown before it
  tests it, so a call is retried for as long as the client stays in Cooldown or Recovering.
- Server: a failing `Start`, custom executors, `GetRuntimeStats` (whose difference of two
  counters read apart may wrap, rpc_server.cpp:837), concurrent publishers.
- Engine: `InvokeAnyCall` reads `anyCallHandlers_` without a lock; the handlers are registered
  before the service is published. `VesEngineService::PublishEvent`, which would
  call the publisher that `OnStart` sets, has no caller.
- Control channel: `CurrentControl` (used by tests only), the proxy's monitor thread (nobody
  sets its callback), the reset of `bootstrapChannel_` in Shutdown beside an InvokeApi
  (ves_client.cpp:305). Ownership of the process is never released.
- Supervisor: SIGTERM to it (`g_stop` is never read), the text protocol of the registry. The mock
  socket keeps one descriptor per OpenSession. The failing compare-and-swap of the load
  callback cannot happen, because one thread runs the callbacks.
- Ring sizes that do not divide 2^32 (session.cpp:96, see SpscRing above).
- Contents of payloads, codecs, scanning rules, logging, the demonstration clients: they hold
  no shared state.
