---------------------------- MODULE EngineSession ----------------------------
(***************************************************************************)
(* The engine process behind its control interface: VirusExecutorService   *)
(* (OnStart, OnStop, OpenSession, CloseSession, Heartbeat, AnyCall), the   *)
(* engine configuration of VesEngineService, and EngineSessionService with *)
(* its session host, its RpcServer and its event publisher thread.         *)
(*                                                                         *)
(* A step is a critical section of initMutex_, lifecycleMutex_ or          *)
(* engineConfigMutex_, an access to an atomic, or the end of a wait.  An   *)
(* EngineSessionService is held by std::shared_ptr: whoever drops the last *)
(* reference runs its destructor, which closes the session.  The RpcServer *)
(* is taken from module RpcServer by what its Stop promises: no request is *)
(* handled any more when it returns.                                       *)
(***************************************************************************)
EXTENDS Naturals, FiniteSets

CONSTANTS
    Callers,      \* threads that serve requests of the control interface
    Main,         \* the thread that calls OnStart and OnStop
    Kinds,        \* engine lists an OpenSession request may carry
    NoKinds,      \* no engine list: not configured, or an invalid request
    MaxStarts,    \* bound: how often OnStart is called
    MaxCalls,     \* bound: control requests of each caller
    MaxWork,      \* bound: calls of OnStart and control requests together
    MaxSessions,  \* bound: sessions created
    MaxFailures   \* bound: failures of the session host or of RpcServer::Start

ASSUME ThreadsAssumption == IsFiniteSet(Callers) /\ Main \notin Callers
ASSUME KindsAssumption == NoKinds \notin Kinds
ASSUME BoundsAssumption ==
    /\ MaxStarts \in Nat /\ MaxCalls \in [Callers -> Nat] /\ MaxWork \in Nat
    /\ MaxSessions \in Nat /\ MaxFailures \in Nat

Threads == Callers \cup {Main}
Services == 1 .. MaxStarts
Sessions == 1 .. MaxSessions

VARIABLES
    stopping,    \* stopping_
    current,     \* session_service_, 0 when null
    starts,      \* how often OnStart has run
    configured,  \* configuredEngineKinds_, NoKinds while not enginesConfigured_
    ready,       \* VesEngineService::initialized_
    svc,         \* the EngineSessionService objects
    thr,         \* the threads
    pub,         \* EventPublisherLoop of the publisher started for a session
    srv,         \* the RpcServer started for a session
    owner,       \* the service that created a session
    busy,        \* sessions with a request inside a handler
    created,     \* sessions created so far
    failures,    \* failures so far
    failed,      \* history: services whose session host failed to open
    work,        \* calls of OnStart and control requests so far
    terminated   \* std::terminate was called: a joinable std::thread destroyed

services == <<svc, pub, srv, owner, created, failures, failed>>
lifecycle == <<stopping, current, starts, configured, ready, work>>
vars == <<lifecycle, services, thr, busy, terminated>>

FreshService == [closing |-> FALSE, initialized |-> FALSE, host |-> "none", session |-> 0,
                 server |-> 0, sessionId |-> 0, running |-> FALSE, thread |-> 0]
IdleThread == [pc |-> "idle", op |-> "none", kinds |-> NoKinds, svc |-> 0, session |-> 0,
               join |-> 0, dtor |-> FALSE, calls |-> 0]

Init ==
    /\ stopping = FALSE /\ current = 0 /\ starts = 0 /\ work = 0
    /\ configured = NoKinds /\ ready = FALSE
    /\ svc = [g \in Services |-> FreshService]
    /\ thr = [t \in Threads |-> IdleThread]
    /\ pub = [s \in Sessions |-> [pc |-> "none", server |-> 0]] /\ srv = [s \in Sessions |-> "none"]
    /\ owner = [s \in Sessions |-> 0] /\ busy = {} /\ created = 0
    /\ failures = 0 /\ failed = {} /\ terminated = FALSE

Goto(t, next) == thr' = [thr EXCEPT ![t].pc = next]

-----------------------------------------------------------------------------
(* VirusExecutorService: the steps before the session service is entered.   *)

\* A control request arrives.  CloseSession does not look at stopping_.
Call(t) ==
    /\ t \in Callers /\ thr[t].pc = "idle" /\ thr[t].calls < MaxCalls[t] /\ starts > 0
    /\ work < MaxWork /\ work' = work + 1
    /\ \E op \in {"open", "close", "any", "beat"} :
         \E k \in IF op = "open" THEN Kinds \cup {NoKinds} ELSE {NoKinds} :
            LET calls == thr[t].calls + 1
                next == IF op = "close" THEN "copy" ELSE "gate"
            IN thr' = [thr EXCEPT ![t] = [@ EXCEPT !.op = op, !.kinds = k, !.calls = calls, !.pc = next]]
    /\ UNCHANGED <<stopping, current, starts, configured, ready, services, busy, terminated>>

\* The tests of stopping_ and, in AnyCall, of initialized(), which is never reset.
Gate(t) ==
    /\ thr[t].pc = "gate"
    /\ Goto(t, IF stopping \/ (thr[t].op = "any" /\ ~ready) THEN "return"
               ELSE IF thr[t].op = "open" THEN "configure" ELSE "copy")
    /\ UNCHANGED <<lifecycle, services, busy, terminated>>

\* VesEngineService::ConfigureEngines: the first request fixes the engine list.
ConfigureEngines(t) ==
    /\ thr[t].pc = "configure"
    /\ \/ /\ configured = NoKinds /\ thr[t].kinds # NoKinds
          /\ configured' = thr[t].kinds /\ Goto(t, "copy")
       \/ /\ configured # NoKinds /\ configured = thr[t].kinds
          /\ Goto(t, "copy") /\ UNCHANGED configured
       \/ /\ thr[t].kinds = NoKinds \/ (configured # NoKinds /\ configured # thr[t].kinds)
          /\ Goto(t, "return") /\ UNCHANGED configured
    /\ UNCHANGED <<stopping, current, starts, ready, work, services, busy, terminated>>

\* session_service_ is copied under lifecycleMutex_.
CopyService(t) ==
    /\ thr[t].pc = "copy"
    /\ LET next == IF current = 0 THEN "return"
                   ELSE IF thr[t].op = "close" THEN "close"
                   ELSE IF thr[t].op = "beat" THEN "sample" ELSE "ensure"
       IN thr' = [thr EXCEPT ![t] = [@ EXCEPT !.svc = current, !.pc = next]]
    /\ UNCHANGED <<lifecycle, services, busy, terminated>>

\* Heartbeat: session_id() first, the statistics of whatever server there is later.
HeartbeatSample(t) ==
    /\ thr[t].pc = "sample"
    /\ LET id == IF ready THEN svc[thr[t].svc].sessionId ELSE 0
           next == IF id # 0 THEN "stats" ELSE "return"
       IN thr' = [thr EXCEPT ![t] = [@ EXCEPT !.session = id, !.pc = next]]
    /\ UNCHANGED <<lifecycle, services, busy, terminated>>

HeartbeatStats(t) ==
    /\ thr[t].pc = "stats" /\ Goto(t, "return")
    /\ UNCHANGED <<lifecycle, services, busy, terminated>>

-----------------------------------------------------------------------------
(* EngineSessionService.                                                    *)

\* SharedMemorySessionHost::EnsureInitialized on the host of s: an existing
\* session is kept, otherwise one is created.
HostOpen(g, s) ==
    IF s.host = "open" THEN s ELSE [s EXCEPT !.host = "open", !.session = created + 1]

HostCreates(g, s) ==
    IF s.host = "open" THEN UNCHANGED <<created, owner>>
    ELSE created < MaxSessions /\ created' = created + 1 /\ owner' = [owner EXCEPT ![created + 1] = g]

\* The session host cannot create the session: EnsureInitialized leaves a host
\* without a session behind.
HostFails(g) ==
    /\ svc[g].host # "open" /\ failures < MaxFailures
    /\ svc' = [svc EXCEPT ![g].host = "empty"]
    /\ failures' = failures + 1 /\ failed' = failed \cup {g}
    /\ UNCHANGED <<pub, srv, owner, created>>

\* Mutant: EnsureInitialized does not look at closing_.
EnsureRefused_IgnoresClosing(s) == FALSE

EnsureRefused(s) == s.closing

EnsureInitialized(t) ==
    LET g == thr[t].svc
        s == svc[g]
        opened == HostOpen(g, s)
        onward == IF thr[t].op = "open" THEN "handout" ELSE "invoke"
    IN
    /\ thr[t].pc = "ensure"
    /\ \/ /\ EnsureRefused(s)
          /\ Goto(t, "return") /\ UNCHANGED services
       \/ /\ ~EnsureRefused(s) /\ s.initialized
          /\ Goto(t, onward) /\ UNCHANGED services
       \/ /\ ~EnsureRefused(s) /\ ~s.initialized
          /\ HostFails(g) /\ Goto(t, "return")
       \/ /\ ~EnsureRefused(s) /\ ~s.initialized          \* RpcServer::Start fails
          /\ failures < MaxFailures /\ failures' = failures + 1
          /\ HostCreates(g, s)
          /\ svc' = [svc EXCEPT ![g] = [@ EXCEPT !.host = "none", !.session = 0]]
          /\ Goto(t, "return") /\ UNCHANGED <<pub, srv, failed>>
       \/ /\ ~EnsureRefused(s) /\ ~s.initialized
          /\ HostCreates(g, s)
          /\ svc' = [svc EXCEPT ![g] = [opened EXCEPT !.server = opened.session, !.initialized = TRUE]]
          /\ srv' = [srv EXCEPT ![opened.session] = "running"]
          /\ Goto(t, onward) /\ UNCHANGED <<pub, failures, failed>>
    /\ UNCHANGED <<lifecycle, busy, terminated>>

\* StartEventPublisherLocked.
PublisherNeeded(s) == ~s.running

\* The second critical section of OpenSession: the handles of whatever session
\* the host has, and the event publisher.
HandOut(t) ==
    LET g == thr[t].svc
        s == svc[g]
        opened == HostOpen(g, s)
        thread == IF PublisherNeeded(s) THEN opened.session ELSE s.thread
    IN
    /\ thr[t].pc = "handout"
    /\ \/ /\ s.host = "none"
          /\ Goto(t, "return") /\ UNCHANGED <<services, terminated>>
       \/ /\ s.host # "none" /\ HostFails(g)
          /\ Goto(t, "return") /\ UNCHANGED terminated
       \/ /\ s.host # "none"
          /\ HostCreates(g, s)
          /\ svc' = [svc EXCEPT ![g] = [opened EXCEPT !.sessionId = opened.session, !.running = TRUE,
                                                     !.thread = thread]]
          /\ pub' = IF PublisherNeeded(s) THEN [pub EXCEPT ![opened.session].pc = "test"] ELSE pub
          /\ terminated' = (terminated \/ (PublisherNeeded(s) /\ s.thread # 0))
          /\ thr' = [thr EXCEPT ![t] = [@ EXCEPT !.session = opened.session, !.pc = "return"]]
          /\ UNCHANGED <<srv, failures, failed>>
    /\ UNCHANGED <<lifecycle, busy>>

\* InvokeAnyCallHandler, outside of initMutex_.
InvokeAnyCall(t) ==
    /\ thr[t].pc = "invoke" /\ Goto(t, "return")
    /\ UNCHANGED <<lifecycle, services, busy, terminated>>

\* Mutants: the publisher is not told to stop; the session id survives.
MarkClosing_PublisherRuns(s) == [FreshService EXCEPT !.closing = TRUE, !.running = s.running]
MarkClosing_KeepsSessionId(s) == [FreshService EXCEPT !.closing = TRUE, !.sessionId = s.sessionId]

\* What CloseSession leaves behind: publisher, server and host are moved out.
MarkClosing(s) == [FreshService EXCEPT !.closing = TRUE]

\* CloseSession, first critical section.
CloseSession(t) ==
    LET g == thr[t].svc
        s == svc[g]
        after == IF t = Main /\ ~thr[t].dtor THEN "unpublish" ELSE "return"
    IN
    /\ thr[t].pc = "close"
    /\ \/ /\ s.closing \/ ~s.initialized
          /\ Goto(t, after) /\ UNCHANGED svc
       \/ /\ ~s.closing /\ s.initialized
          /\ svc' = [svc EXCEPT ![g] = MarkClosing(s)]
          /\ thr' = [thr EXCEPT ![t] = [@ EXCEPT !.session = s.server, !.join = s.thread, !.pc = "join"]]
    /\ UNCHANGED <<lifecycle, pub, srv, owner, created, failures, failed, busy, terminated>>

\* Mutant: the server is stopped first.
CloseJoin_Later(t) ==
    /\ thr[t].pc = "join" /\ Goto(t, "stop")
    /\ UNCHANGED <<lifecycle, services, busy, terminated>>

\* eventPublisherThread is not joinable, or join() returns.
CloseJoin(t) ==
    /\ thr[t].pc = "join"
    /\ thr[t].join # 0 => pub[thr[t].join].pc = "exited"
    /\ thr' = [thr EXCEPT ![t] = [@ EXCEPT !.join = 0, !.pc = "stop"]]
    /\ UNCHANGED <<lifecycle, services, busy, terminated>>

\* rpcServer->Stop() and, when it has returned, sessionHost->CloseSession().
CloseStop(t) ==
    /\ thr[t].pc = "stop"
    /\ srv' = [srv EXCEPT ![thr[t].session] = "stopping"]
    /\ Goto(t, "drain")
    /\ UNCHANGED <<lifecycle, svc, pub, owner, created, failures, failed, busy, terminated>>

CloseDrain(t) ==
    /\ thr[t].pc = "drain" /\ thr[t].session \notin busy
    /\ srv' = [srv EXCEPT ![thr[t].session] = "stopped"]
    /\ Goto(t, "closed")
    /\ UNCHANGED <<lifecycle, svc, pub, owner, created, failures, failed, busy, terminated>>

CloseDone(t) ==
    /\ thr[t].pc = "closed"
    /\ svc' = [svc EXCEPT ![thr[t].svc].closing = FALSE]
    /\ LET after == IF t = Main /\ ~thr[t].dtor THEN "unpublish" ELSE "return"
       IN thr' = [thr EXCEPT ![t] = [@ EXCEPT !.session = 0, !.pc = after]]
    /\ UNCHANGED <<lifecycle, pub, srv, owner, created, failures, failed, busy, terminated>>
-----------------------------------------------------------------------------
(* References.                                                              *)

Holders(g) == {t \in Threads : thr[t].svc = g}

\* Mutant: a destructor that does not close the session.
Return_NoClose(t) ==
    /\ thr[t].pc = "return"
    /\ thr' = [thr EXCEPT ![t] = [IdleThread EXCEPT !.calls = thr[t].calls]]
    /\ UNCHANGED <<lifecycle, services, busy, terminated>>

\* The call returns and drops its reference.  The last one runs the destructor,
\* which closes the session and then destroys the members.
Return(t) ==
    LET g == thr[t].svc
        back == [IdleThread EXCEPT !.calls = thr[t].calls]
    IN
    /\ thr[t].pc = "return"
    /\ \/ /\ g = 0 \/ g = current \/ Holders(g) # {t}
          /\ thr' = [thr EXCEPT ![t] = back] /\ UNCHANGED terminated
       \/ /\ g # 0 /\ g # current /\ Holders(g) = {t} /\ ~thr[t].dtor
          /\ thr' = [thr EXCEPT ![t] = [@ EXCEPT !.dtor = TRUE, !.pc = "close"]] /\ UNCHANGED terminated
       \/ /\ thr[t].dtor
          /\ thr' = [thr EXCEPT ![t] = back]
          /\ terminated' = (terminated \/ svc[g].thread # 0)
    /\ UNCHANGED <<lifecycle, services, busy>>

-----------------------------------------------------------------------------
(* EventPublisherLoop of the publisher thread p, and the RpcServer.         *)

PublisherGoto(p, next) ==
    /\ pub' = [pub EXCEPT ![p].pc = next]
    /\ UNCHANGED <<lifecycle, svc, srv, owner, created, failures, failed, thr, busy, terminated>>

\* The wait ends, by the notification or after its random period.
PublisherTest(p) ==
    /\ pub[p].pc = "test"
    /\ PublisherGoto(p, IF svc[owner[p]].running THEN "check" ELSE "exited")

CanPublish(s) == s.initialized /\ s.server # 0 /\ s.sessionId # 0

PublisherCheck(p) ==
    /\ pub[p].pc = "check"
    /\ PublisherGoto(p, IF CanPublish(svc[owner[p]]) THEN "take" ELSE "test")

\* PublishEventBlocking copies rpcServer_ and publishes outside of the lock.
PublishEventBlocking(p) ==
    /\ pub[p].pc = "take"
    /\ pub' = IF CanPublish(svc[owner[p]])
              THEN [pub EXCEPT ![p] = [pc |-> "publish", server |-> svc[owner[p]].server]]
              ELSE [pub EXCEPT ![p].pc = "test"]
    /\ UNCHANGED <<lifecycle, svc, srv, owner, created, failures, failed, thr, busy, terminated>>

Published(p) ==
    /\ pub[p].pc = "publish"
    /\ pub' = [pub EXCEPT ![p] = [pc |-> "test", server |-> 0]]
    /\ UNCHANGED <<lifecycle, svc, srv, owner, created, failures, failed, thr, busy, terminated>>

Handle(s) ==
    /\ srv[s] = "running" /\ s \notin busy /\ busy' = busy \cup {s}
    /\ UNCHANGED <<lifecycle, services, thr, terminated>>

Handled(s) ==
    /\ s \in busy /\ busy' = busy \ {s}
    /\ UNCHANGED <<lifecycle, services, thr, terminated>>

-----------------------------------------------------------------------------
(* OnStart and OnStop.                                                      *)

OnStart ==
    /\ thr[Main].pc = "idle" /\ current = 0 /\ starts < MaxStarts
    /\ work < MaxWork /\ work' = work + 1
    /\ stopping' = FALSE /\ Goto(Main, "make")
    /\ UNCHANGED <<current, starts, configured, ready, services, busy, terminated>>

\* A new EngineSessionService under lifecycleMutex_.
OnStartMake ==
    /\ thr[Main].pc = "make"
    /\ current' = starts + 1 /\ starts' = starts + 1 /\ Goto(Main, "initialize")
    /\ UNCHANGED <<stopping, configured, ready, work, services, busy, terminated>>

OnStartInitialize ==
    /\ thr[Main].pc = "initialize"
    /\ ready' = TRUE /\ Goto(Main, "idle")
    /\ UNCHANGED <<stopping, current, starts, configured, work, services, busy, terminated>>

OnStop ==
    /\ thr[Main].pc = "idle" /\ current # 0
    /\ stopping' = TRUE /\ Goto(Main, "move")
    /\ UNCHANGED <<current, starts, configured, ready, work, services, busy, terminated>>

\* session_service_ is moved out under lifecycleMutex_, then closed.
OnStopMove ==
    /\ thr[Main].pc = "move"
    /\ current' = 0 /\ thr' = [thr EXCEPT ![Main] = [@ EXCEPT !.svc = current, !.pc = "close"]]
    /\ UNCHANGED <<stopping, starts, configured, ready, work, services, busy, terminated>>

\* ResetEngines; the local reference goes out of scope when OnStop returns.
OnStopReset ==
    /\ thr[Main].pc = "unpublish"
    /\ configured' = NoKinds /\ Goto(Main, "return")
    /\ UNCHANGED <<stopping, current, starts, ready, work, services, busy, terminated>>

-----------------------------------------------------------------------------
Control(t) ==
    \/ Gate(t) \/ ConfigureEngines(t) \/ CopyService(t) \/ HeartbeatSample(t) \/ HeartbeatStats(t)
    \/ EnsureInitialized(t) \/ HandOut(t) \/ InvokeAnyCall(t)
    \/ CloseSession(t) \/ CloseJoin(t) \/ CloseStop(t) \/ CloseDrain(t) \/ CloseDone(t) \/ Return(t)

Publisher(p) == PublisherTest(p) \/ PublisherCheck(p) \/ PublishEventBlocking(p) \/ Published(p)

Lifecycle == OnStart \/ OnStartMake \/ OnStartInitialize \/ OnStop \/ OnStopMove \/ OnStopReset

Next ==
    \/ \E t \in Threads : Call(t) \/ Control(t)
    \/ \E p \in Sessions : Publisher(p) \/ Handle(p) \/ Handled(p)
    \/ Lifecycle

\* Every thread that can run runs; a handler returns, and so does PublishEvent
\* (module RpcServer: RequestsComplete, StopReturns).  Nobody has to call.
Fairness ==
    /\ \A t \in Threads : WF_vars(Control(t))
    /\ \A p \in Sessions : WF_vars(Publisher(p)) /\ WF_vars(Handled(p))
    /\ WF_vars(OnStartMake) /\ WF_vars(OnStartInitialize) /\ WF_vars(OnStopMove) /\ WF_vars(OnStopReset)

Spec == Init /\ [][Next]_vars
FairSpec == Spec /\ Fairness
-----------------------------------------------------------------------------
(* Properties.                                                              *)

Pcs == {"idle", "gate", "configure", "copy", "sample", "stats", "ensure", "handout", "invoke",
        "close", "join", "stop", "drain", "closed", "return",
        "make", "initialize", "move", "unpublish"}
SomeSession == Sessions \cup {0}

\* Type invariant.
TypeOK ==
    /\ stopping \in BOOLEAN /\ ready \in BOOLEAN /\ terminated \in BOOLEAN
    /\ current \in Services \cup {0} /\ starts \in Services \cup {0} /\ configured \in Kinds \cup {NoKinds}
    /\ svc \in [Services -> [closing : BOOLEAN, initialized : BOOLEAN, host : {"none", "empty", "open"},
                              session : SomeSession, server : SomeSession, sessionId : SomeSession,
                              running : BOOLEAN, thread : SomeSession]]
    /\ thr \in [Threads -> [pc : Pcs, op : {"none", "open", "close", "any", "beat"},
                             kinds : Kinds \cup {NoKinds}, svc : Services \cup {0}, session : SomeSession,
                             join : SomeSession, dtor : BOOLEAN, calls : Nat]]
    /\ pub \in [Sessions -> [pc : {"none", "test", "check", "take", "publish", "exited"}, server : SomeSession]]
    /\ srv \in [Sessions -> {"none", "running", "stopping", "stopped"}]
    /\ owner \in [Sessions -> Services \cup {0}] /\ busy \subseteq Sessions
    /\ created \in SomeSession /\ work \in 0 .. MaxWork /\ failures \in 0 .. MaxFailures /\ failed \subseteq Services

\* The session id a heartbeat reports and OpenSession hands out is served by a
\* running RpcServer, although OpenSession initializes and hands out in two
\* critical sections and CloseSession may come in between.  The exception is a
\* service whose session host has failed to open: the host it keeps lets the
\* second section of an OpenSession in progress hand out a session that has no
\* server.
SessionIsServed ==
    \A g \in Services : svc[g].sessionId # 0 /\ g \notin failed =>
        /\ svc[g].initialized /\ svc[g].server = svc[g].sessionId
        /\ srv[svc[g].sessionId] = "running"

\* A session is not reopened before the RpcServer of the last one has stopped:
\* of the sessions of a service at most one has a server that is not stopped.
ReopenWaitsForStop ==
    \A r, s \in Sessions :
        /\ owner[r] = owner[s]
        /\ srv[r] \in {"running", "stopping"} /\ srv[s] \in {"running", "stopping"}
        => r = s

PublisherLives(p) == pub[p].pc \notin {"none", "exited"}

\* A publisher thread that runs belongs to its service or to the CloseSession
\* that is about to join it, and no joinable std::thread is ever overwritten or
\* destroyed (unless the session host has failed: see SessionIsServed).  It is
\* inside RpcServer::PublishEvent only while that server runs: CloseSession joins
\* it before it stops the server, whose Stop does not wait for publishers.
PublishersAreJoined ==
    /\ \A p \in Sessions : PublisherLives(p) /\ ~terminated =>
          svc[owner[p]].thread = p \/ \E t \in Threads : thr[t].join = p
    /\ terminated => failed # {}
    /\ \A p \in Sessions : pub[p].pc = "publish" => srv[pub[p].server] = "running"

\* When OnStop has taken a session service away and the last call that still
\* held it has returned, none of its servers and publishers runs, also when that
\* call opened the session again after OnStop had closed it.
StopLeavesNothing ==
    \A g \in 1 .. starts : g # current /\ Holders(g) = {} /\ g \notin failed =>
        \A s \in Sessions : owner[s] = g => srv[s] \in {"none", "stopped"} /\ ~PublisherLives(s)

\* Every control request and OnStop return: the publisher that CloseSession joins
\* leaves its loop although it takes initMutex_ in every round, and nobody waits
\* for a server that someone else is stopping.
\* The calls are bounded, so this says that the threads come to rest.
CallsReturn == <>[](\A t \in Threads : thr[t].pc = "idle")

\* ves_shutdown_lifecycle_test.cpp: "OnStopDefersEngineResetUntilSessionDrainCompletes".
\* The engines are reset when no request of a session is inside a handler.
EnginesResetAfterDrain ==
    [][configured # NoKinds /\ configured' = NoKinds => busy = {}]_vars

\* The same test: after OnStop "configuredEngineKinds().empty()".
StoppedMeansUnconfigured ==
    starts > 0 /\ current = 0 /\ thr[Main].pc \in {"idle", "return"} => configured = NoKinds

=============================================================================
