------------------------------ MODULE RpcClient ------------------------------
(***************************************************************************)
(* The client half of the memrpc framework                                 *)
(* (memrpc/src/client/rpc_client.cpp): the public API (Init, InvokeAsync,  *)
(* RequestExternalRecovery, Shutdown), the three worker threads (submit,   *)
(* response, watchdog), the engine-death callback, and the recovery        *)
(* lifecycle they share.                                                   *)
(*                                                                         *)
(* Every critical section of lifecycleMutex_ is a run of one small section *)
(* machine: sec.owner is the thread inside, sec.step is where it is, and   *)
(* the other fields are the locals of the function running there.  A       *)
(* thread that needs the mutex waits for sec.owner = "none".  Everything   *)
(* another thread can observe in the middle of a section (the session      *)
(* snapshot, the lifecycle state, the pending store, the host's session)   *)
(* changes in a step of its own; a test of clientControlState_ and the     *)
(* transition it guards are one step, because the only concurrent writer   *)
(* of that flag commutes with the transition.                              *)
(*                                                                         *)
(* The engine and the bootstrap channel are the environment: a host that   *)
(* has at most one session, two rings, and that may serve, fail, break     *)
(* the session or die.                                                     *)
(***************************************************************************)
EXTENDS Integers, FiniteSets

CONSTANTS
    Requests,          \* the requests the application will ever invoke
    TimedRequests,     \* those with execTimeoutMs # 0
    MaxSession,        \* bound: how many sessions the host can create
    RingCapacity,      \* slots of a request ring and of the response ring
    FaultFamilies,     \* bound: which environment events may happen together
    ConcurrentInit,    \* may Shutdown() overlap Init()?
    NoRequest          \* model value: no request

AllEvents == {"invoke", "die", "break", "external", "unhealthy", "idle", "expire",
              "bad", "pollFail", "openFail", "closeFail", "tooLarge", "reinit",
              "twice", "pair", "shutdown"}

ASSUME RequestsAssumption == NoRequest \notin Requests /\ TimedRequests \subseteq Requests
ASSUME MaxSessionAssumption == MaxSession \in Nat \ {0}
ASSUME RingCapacityAssumption == RingCapacity \in Nat \ {0}
ASSUME EventsAssumption == FaultFamilies \subseteq SUBSET AllEvents
ASSUME FlagsAssumption == ConcurrentInit \in BOOLEAN

None == 0                      \* session id 0: no live session
SessionIds == 0 .. MaxSession
Absent == -1                   \* not in a request store
Infos == -1 .. MaxSession      \* PendingInfo::sessionId, or Absent
EmptyStore == [r \in Requests |-> Absent]
In(batch) == {r \in Requests : batch[r] # Absent}

VARIABLES
    faults,     \* the environment events that may happen in this behaviour
    control,    \* clientControlState_
    running,    \* workersRunning_ (its negation is also the two stop requests)
    lifecycle,  \* recoveryState_.lifecycleState_
    cooldown,   \* MonotonicNowMs() < recoveryState_.cooldownUntilMs_
    notified,   \* notificationGeneration_ differs from the one the response worker read
    session,    \* snapshot_: the attached session, None when closed
    host,       \* the session the engine has open, None when it has none
    created,    \* how many sessions the engine has created
    notices,    \* dead sessions the bootstrap channel still has to report
    broken,     \* SessionState::Broken in the header of the attached session
    reqRing,    \* requests in its request ring
    reqCredit,  \* its reqCreditEventFd counter is not zero
    respRing,   \* entries in its response ring
    admitting,  \* the request whose InvokeAsync holds submitMutex_
    queued,     \* submitQueue_
    store,      \* requestStore_: request -> info.sessionId
    result,     \* RpcFuture::State of each request
    published,  \* history: requests pushed to a ring with status Ok
    sec,        \* the lifecycleMutex_ section
    sub,        \* SubmitWorker
    rsp,        \* ResponseWorker
    wd,         \* WatchdogLoop
    dth,        \* the engine-death callback
    ext,        \* a caller of RequestExternalRecovery
    ini,        \* a caller of Init
    shut        \* the caller of Shutdown that won BeginShutdown

api == <<faults, control, running>>
recovery == <<lifecycle, cooldown, notified>>
rings == <<broken, reqRing, reqCredit, respRing>>
engine == <<host, created, notices, rings>>
requests == <<admitting, queued, store, result, published>>
threads == <<sub, rsp, wd, dth, ext, ini, shut>>
vars == <<api, recovery, session, engine, requests, sec, threads>>

NoSection == [owner |-> "none", step |-> "none", observed |-> None, delay |-> 0,
              action |-> "none", opened |-> None, ret |-> "Ok"]
IdleSubmit == [pc |-> "idle", req |-> NoRequest, info |-> None, status |-> "Ok", credit |-> None]
IdleResponse == [pc |-> "check", req |-> NoRequest, status |-> "Ok", info |-> Absent, polled |-> None]
IdleWatchdog == [pc |-> "scan", taken |-> EmptyStore, req |-> NoRequest, observed |-> None]
IdleDeath == [pc |-> "idle", observed |-> None, dead |-> None]
IdleExternal == [pc |-> "idle", observed |-> None, request |-> None, delay |-> 0]

Init ==
    /\ faults \in FaultFamilies
    /\ control = "Uninitialized" /\ running = FALSE
    /\ lifecycle = "Uninitialized" /\ cooldown = FALSE /\ notified = FALSE
    /\ session = None /\ host = None /\ created = 0 /\ notices = {}
    /\ broken = FALSE /\ reqRing = {} /\ reqCredit = FALSE /\ respRing = {}
    /\ admitting = NoRequest /\ queued = {} /\ store = EmptyStore
    /\ result = [r \in Requests |-> "idle"] /\ published = {}
    /\ sec = NoSection
    /\ sub = [IdleSubmit EXCEPT !.pc = "stopped"]
    /\ rsp = [IdleResponse EXCEPT !.pc = "stopped"]
    /\ wd = [IdleWatchdog EXCEPT !.pc = "stopped"]
    /\ dth = IdleDeath /\ ext = IdleExternal
    /\ ini = [pc |-> "idle", eager |-> FALSE]
    /\ shut = [pc |-> "idle", taken |-> EmptyStore]

-----------------------------------------------------------------------------
(* Helpers.                                                                 *)

IsApiOpen == control = "Open"
RuntimeStopStatus == IF IsApiOpen THEN "PeerDisconnected" ELSE "ClientClosed"

\* sessionMutex_ is held across Put() and the push; every other holder of it
\* is a single step of this model.
SessionLocked == sub.pc \in {"pushing", "pushed"}

\* ResolveState: the first status a future is given is the one it keeps.
ResolveState(S, status) ==
    result' = [r \in Requests |-> IF r \in S /\ result[r] = "waiting" THEN status ELSE result[r]]

ClearRings == broken' = FALSE /\ reqRing' = {} /\ reqCredit' = FALSE /\ respRing' = {}

\* bootstrap->CloseSession().  When the call fails the engine keeps its
\* session and its rings.
HostCloseSession ==
    \/ host' = None /\ ClearRings
    \/ "closeFail" \in faults /\ host # None /\ UNCHANGED <<host, rings>>

Transition(state, cool) == lifecycle' = state /\ cooldown' = cool /\ notified' = TRUE

-----------------------------------------------------------------------------
(* The lifecycleMutex_ section: how it is entered.                          *)

Enter(t, next) ==
    /\ sec.owner = "none"
    /\ sec' = [NoSection EXCEPT !.owner = t, !.step = next]
    /\ UNCHANGED recovery

Returned(t) == sec.owner = t /\ sec.step = "done"
Leave(t) == Returned(t) /\ sec' = NoSection

\* Mutant: the pending requests are handled before the session is closed.
ScheduleRecovery_PendingFirst(s, observed, delay, action) ==
    /\ Transition(IF delay = 0 THEN "Recovering" ELSE "Cooldown", delay # 0)
    /\ sec' = [s EXCEPT !.step = "pending", !.observed = observed, !.delay = delay, !.action = action]

\* ScheduleRecoveryLocked up to StartRecovery.
ScheduleRecovery(s, observed, delay, action) ==
    /\ Transition(IF delay = 0 THEN "Recovering" ELSE "Cooldown", delay # 0)
    /\ sec' = [s EXCEPT !.step = "close", !.observed = observed, !.delay = delay, !.action = action]

\* The section ends at once: the API is closed, the observed session is stale,
\* or the policy is absent or answers Ignore or ManualShutdown.
NothingToDo(s) == sec' = [s EXCEPT !.step = "done"] /\ UNCHANGED recovery

\* CloseSessionAndEnterIdleClosedLocked.
IdleClose(s, observed) ==
    sec' = [s EXCEPT !.step = "idleClose", !.observed = observed] /\ UNCHANGED recovery

\* ApplyFailureRecoveryDecision(info, status), entered by thread t: the policy
\* may answer anything.
ApplyFailureRecoveryDecision(t, info) ==
    LET s == [NoSection EXCEPT !.owner = t] IN
    /\ sec.owner = "none"
    /\ \/ NothingToDo(s)
       \/ IsApiOpen /\ info = session /\ IdleClose(s, info)
       \/ /\ IsApiOpen /\ info = session
          /\ \E delay \in {0, 1} : ScheduleRecovery(s, info, delay, "FailWithRecoveryPolicy")

\* HandleExternalRecovery(observed, {requested, delay}).
ApplyExternalRecovery(t, observed, requested, delay) ==
    LET s == [NoSection EXCEPT !.owner = t] IN
    /\ sec.owner = "none"
    /\ IF IsApiOpen /\ observed = session /\ requested \in {None, observed}
         THEN ScheduleRecovery(s, observed, delay, "ResolvePeerDisconnected")
         ELSE NothingToDo(s)

\* Mutant: the notice is not compared with the observed session.
ApplyEngineDeath_AnyNotice(t, observed, dead) ==
    LET s == [NoSection EXCEPT !.owner = t] IN
    /\ sec.owner = "none"
    /\ IF IsApiOpen /\ observed = session /\ observed # None
         THEN /\ sec' = [s EXCEPT !.step = "close", !.observed = observed, !.action = "Crashed"]
              /\ UNCHANGED recovery
         ELSE NothingToDo(s)

\* Mutant: the dead session is not closed.
ApplyEngineDeath_NoClose(t, observed, dead) ==
    LET s == [NoSection EXCEPT !.owner = t] IN
    /\ sec.owner = "none"
    /\ IF IsApiOpen /\ observed = session /\ observed # None /\ dead \in {None, observed}
         THEN /\ sec' = [s EXCEPT !.step = "pending", !.observed = observed, !.action = "Crashed"]
              /\ UNCHANGED recovery
         ELSE NothingToDo(s)

\* HandleEngineDeath(observed, dead) up to the close.
ApplyEngineDeath(t, observed, dead) ==
    LET s == [NoSection EXCEPT !.owner = t] IN
    /\ sec.owner = "none"
    /\ IF IsApiOpen /\ observed = session /\ observed # None /\ dead \in {None, observed}
         THEN /\ sec' = [s EXCEPT !.step = "close", !.observed = observed, !.action = "Crashed"]
              /\ UNCHANGED recovery
         ELSE NothingToDo(s)

-----------------------------------------------------------------------------
(* The lifecycleMutex_ section: its steps.                                  *)

Goto(next) == sec' = [sec EXCEPT !.step = next]
Return(status) == sec' = [sec EXCEPT !.step = "done", !.ret = status]
SectionFrame == UNCHANGED <<api, threads, admitting, queued, published, created, notices>>

\* CloseLiveSessionIfSnapshotMatches(observed): a mismatch, or no session at
\* all, leaves everything alone.
CloseLiveSessionIfSnapshotMatches ==
    /\ sec.step \in {"close", "idleClose"} /\ ~SessionLocked
    /\ IF session = sec.observed /\ session # None
         THEN session' = None /\ HostCloseSession
         ELSE UNCHANGED <<session, host, rings>>
    /\ Goto(IF sec.step = "close" THEN "pending" ELSE "idleEnter")
    /\ SectionFrame /\ UNCHANGED <<recovery, store, result>>

EnterIdleClosed ==
    /\ sec.step = "idleEnter" /\ Transition("IdleClosed", FALSE) /\ Goto("done")
    /\ SectionFrame /\ UNCHANGED <<session, host, rings, store, result>>

\* HandlePendingRequestsForRecoveryLocked (in the death path: ResolveAllPending),
\* then MaybeReconnectImmediatelyLocked.
HandlePendingRequestsForRecovery ==
    /\ sec.step = "pending"
    /\ IF sec.action = "KeepCurrentState"
         THEN UNCHANGED <<store, result>>
         ELSE /\ store' = EmptyStore
              /\ ResolveState(In(store), IF sec.action = "Crashed" THEN "Crashed"
                                                                   ELSE "PeerDisconnected")
    /\ Goto(IF sec.action = "Crashed" THEN "deathPolicy"
            ELSE IF sec.delay = 0 THEN "ensure" ELSE "done")
    /\ SectionFrame /\ UNCHANGED <<recovery, session, host, rings>>

\* The decision of onEngineDeath.  Ignore, or no policy, enters NoSession;
\* ManualShutdown does nothing.
HandleEngineDeathPolicy ==
    /\ sec.step = "deathPolicy"
    /\ \/ NothingToDo(sec)
       \/ IsApiOpen /\ Transition("NoSession", FALSE) /\ Goto("done")
       \/ IsApiOpen /\ IdleClose(sec, sec.observed)
       \/ IsApiOpen /\ \E delay \in {0, 1} :
                         ScheduleRecovery(sec, sec.observed, delay, "KeepCurrentState")
    /\ SectionFrame /\ UNCHANGED <<session, host, rings, store, result>>

\* Mutant: the cooldown window is not tested.
EnsureLiveSession_NoCooldown ==
    /\ sec.step = "ensure"
    /\ CASE control \notin {"Uninitialized", "Open"} -> Return("ClientClosed") /\ UNCHANGED lifecycle
         [] control \in {"Uninitialized", "Open"} /\ session # None -> Return("Ok") /\ UNCHANGED lifecycle
         [] OTHER ->
              /\ lifecycle' = IF lifecycle = "Uninitialized" THEN lifecycle ELSE "Recovering"
              /\ Goto("open")
    /\ SectionFrame /\ UNCHANGED <<cooldown, notified, session, host, rings, store, result>>

\* EnsureLiveSessionLocked up to the call of OpenSession.
EnsureLiveSession ==
    /\ sec.step = "ensure"
    /\ CASE control \notin {"Uninitialized", "Open"} -> Return("ClientClosed") /\ UNCHANGED lifecycle
         [] control \in {"Uninitialized", "Open"} /\ cooldown ->
              Return("CooldownActive") /\ UNCHANGED lifecycle
         [] control \in {"Uninitialized", "Open"} /\ ~cooldown /\ session # None ->
              Return("Ok") /\ UNCHANGED lifecycle
         [] OTHER -> \* BeginSessionOpen
              /\ lifecycle' = IF lifecycle = "Uninitialized" THEN lifecycle ELSE "Recovering"
              /\ Goto("open")
    /\ SectionFrame /\ UNCHANGED <<cooldown, notified, session, host, rings, store, result>>

OpenFailed == \E status \in {"PeerDisconnected", "Other"} :
                 sec' = [sec EXCEPT !.step = "openFailed", !.ret = status]

\* bootstrap->OpenSession(): an engine that still has a session returns it
\* again.  Creating one more than MaxSession fails (a bound of the model).
OpenSession ==
    /\ sec.step = "open"
    /\ \/ /\ host # None
          /\ sec' = [sec EXCEPT !.step = "attach", !.opened = host]
          /\ UNCHANGED <<host, created>>
       \/ /\ host = None /\ created < MaxSession
          /\ host' = created + 1 /\ created' = created + 1
          /\ sec' = [sec EXCEPT !.step = "attach", !.opened = created + 1]
       \/ /\ "openFail" \in faults \/ (host = None /\ created = MaxSession)
          /\ OpenFailed /\ UNCHANGED <<host, created>>
    /\ UNCHANGED <<api, recovery, session, notices, rings, requests, threads>>

\* session_.Attach, SetState(Alive) and PublishSessionIdLocked.
AttachSession ==
    /\ sec.step = "attach"
    /\ \/ session' = sec.opened /\ broken' = FALSE /\ Goto("finalize")
       \/ "openFail" \in faults /\ OpenFailed /\ UNCHANGED <<session, broken>>
    /\ SectionFrame
    /\ UNCHANGED <<recovery, host, reqRing, reqCredit, respRing, store, result>>

\* Mutant: nobody is notified of the new session.
FinalizeSessionOpen_NoNotify ==
    /\ sec.step = "finalize" /\ lifecycle' = "Active" /\ cooldown' = FALSE /\ Return("Ok")
    /\ SectionFrame /\ UNCHANGED <<notified, session, host, rings, store, result>>

FinalizeSessionOpen ==
    /\ sec.step = "finalize" /\ Transition("Active", FALSE) /\ Return("Ok")
    /\ SectionFrame /\ UNCHANGED <<session, host, rings, store, result>>

HandleSessionOpenFailure ==
    /\ sec.step = "openFailed"
    /\ IF lifecycle \in {"Recovering", "Cooldown"} THEN Transition("NoSession", FALSE)
                                                  ELSE UNCHANGED recovery
    /\ Goto("done")
    /\ SectionFrame /\ UNCHANGED <<session, host, rings, store, result>>

\* CloseLiveSessionLocked(): closes whatever session is live now.
CloseLiveSession ==
    /\ sec.step \in {"transportClose", "terminalClose"} /\ ~SessionLocked
    /\ session' = None /\ HostCloseSession
    /\ notified' = TRUE
    /\ Goto(IF sec.step = "terminalClose" THEN "terminalEnter" ELSE "done")
    /\ SectionFrame /\ UNCHANGED <<lifecycle, cooldown, store, result>>

EnterTerminalClosed ==
    /\ sec.step = "terminalEnter" /\ Transition("Closed", FALSE) /\ Goto("done")
    /\ SectionFrame /\ UNCHANGED <<session, host, rings, store, result>>

Section ==
    \/ CloseLiveSessionIfSnapshotMatches \/ EnterIdleClosed
    \/ HandlePendingRequestsForRecovery \/ HandleEngineDeathPolicy
    \/ EnsureLiveSession \/ OpenSession \/ AttachSession
    \/ FinalizeSessionOpen \/ HandleSessionOpenFailure
    \/ CloseLiveSession \/ EnterTerminalClosed

\* Time reaches cooldownUntilMs_.
CooldownExpires ==
    /\ cooldown /\ cooldown' = FALSE
    /\ UNCHANGED <<api, lifecycle, notified, session, engine, requests, sec, threads>>

-----------------------------------------------------------------------------
(* InvokeAsync: the admission check and the enqueue under submitMutex_.     *)

\* Bound: one request with a deadline, or every one of Requests.
MayInvoke(r) ==
    /\ "invoke" \in faults /\ result[r] = "idle"
    /\ "pair" \in faults \/ (r \in TimedRequests /\ \A q \in Requests : result[q] = "idle")

InvokeAsync(r) ==
    /\ MayInvoke(r) /\ admitting = NoRequest
    /\ IF IsApiOpen
         THEN admitting' = r /\ result' = [result EXCEPT ![r] = "waiting"]
         ELSE result' = [result EXCEPT ![r] = "ClientClosed"] /\ UNCHANGED admitting \* RejectInvoke
    /\ UNCHANGED <<api, recovery, session, engine, queued, store, published, sec, threads>>

EnqueueSubmit ==
    /\ admitting # NoRequest
    /\ queued' = queued \cup {admitting} /\ admitting' = NoRequest
    /\ UNCHANGED <<api, recovery, session, engine, store, result, published, sec, threads>>

-----------------------------------------------------------------------------
(* SubmitWorker.                                                            *)

SubmitFrame == UNCHANGED <<api, session, host, created, notices, rsp, wd, dth, ext, ini, shut>>
SubmitOnly == SubmitFrame /\ UNCHANGED <<recovery, rings, requests, sec>>

SubmitGoto(next) == sub' = [sub EXCEPT !.pc = next]
SubmitGiveUp(status) == sub' = [sub EXCEPT !.pc = "fail", !.status = status]

\* Run(): take the next submission; MakePendingInfo reads the snapshot.
SubmitPop ==
    /\ sub.pc = "idle" /\ admitting = NoRequest
    /\ \E r \in queued :
          /\ queued' = queued \ {r}
          /\ sub' = [sub EXCEPT !.pc = "loop", !.req = r, !.info = session]
    /\ SubmitFrame /\ UNCHANGED <<recovery, rings, admitting, store, result, published, sec>>

SubmitExit ==
    /\ sub.pc = "idle" /\ admitting = NoRequest /\ queued = {} /\ ~running
    /\ SubmitGoto("stopped") /\ SubmitOnly

\* SubmitOne and WaitUntilSessionReadyForSubmit test workersRunning_ first.
SubmitEnsure ==
    /\ sub.pc = "loop" /\ running
    /\ Enter("submit", "ensure") /\ SubmitGoto("ensuring")
    /\ SubmitFrame /\ UNCHANGED <<rings, requests>>

\* Mutant: a recovery wait does not look at workersRunning_.
SubmitStopped_NotWhileWaiting ==
    /\ sub.pc = "loop" /\ ~running
    /\ SubmitGiveUp(RuntimeStopStatus) /\ SubmitOnly

SubmitStopped ==
    /\ sub.pc \in {"loop", "cooldown", "retry"} /\ ~running
    /\ SubmitGiveUp(RuntimeStopStatus) /\ SubmitOnly

SubmitEnsured ==
    /\ sub.pc = "ensuring" /\ Leave("submit")
    /\ CASE sec.ret = "Ok" -> SubmitGoto("push")
         [] sec.ret = "CooldownActive" -> SubmitGoto("cooldown")
         [] sec.ret = "PeerDisconnected" -> SubmitGoto("retry")
         [] OTHER -> SubmitGiveUp(sec.ret)
    /\ SubmitFrame /\ UNCHANGED <<recovery, rings, requests>>

\* RecoveryStateWaitResultLocked.
RecoveryStateWaitResult ==
    CASE lifecycle \in {"Active", "Cooldown", "Recovering"} -> "Ok"
      [] lifecycle = "Closed" -> "ClientClosed"
      [] OTHER -> "PeerDisconnected"

\* Mutant: the wait only ends in Active.
WaitForRecoveryState_UntilActive ==
    /\ sub.pc \in {"cooldown", "retry"} /\ running
    /\ \/ ~IsApiOpen /\ SubmitGiveUp("ClientClosed")
       \/ IsApiOpen /\ lifecycle = "Active" /\ SubmitGoto("loop")
    /\ SubmitOnly

\* WaitForRecoveryState in both of its modes: a cooldown that ended, a retry
\* tick that passed, or a lifecycle that moved on wakes the worker.
WaitForRecoveryState ==
    /\ sub.pc \in {"cooldown", "retry"} /\ running
    /\ \/ ~IsApiOpen /\ SubmitGiveUp("ClientClosed")
       \/ /\ IsApiOpen
          /\ sub.pc = "cooldown" => ~cooldown \/ lifecycle # "Cooldown"
          /\ IF RecoveryStateWaitResult = "Ok" THEN SubmitGoto("loop")
                                               ELSE SubmitGiveUp(RecoveryStateWaitResult)
    /\ SubmitOnly

\* TryPushRequest up to requestStore_.Put, inside sessionMutex_.
TryPushRequest ==
    /\ sub.pc = "push"
    /\ \/ session = None /\ SubmitGoto("disconnected") /\ UNCHANGED store
       \/ /\ session # None /\ "tooLarge" \in faults
          /\ SubmitGiveUp("PayloadTooLarge") /\ UNCHANGED store
       \/ /\ session # None
          /\ store' = [store EXCEPT ![sub.req] = session]
          /\ SubmitGoto("pushing")
    /\ SubmitFrame /\ UNCHANGED <<recovery, rings, admitting, queued, result, published, sec>>

TakeBack == store' = [store EXCEPT ![sub.req] = Absent]

\* Mutant: a full ring leaves the pending record in the store.
PushRequest_KeepOnFull ==
    /\ sub.pc = "pushing"
    /\ \/ broken /\ TakeBack /\ SubmitGoto("disconnected") /\ UNCHANGED reqRing
       \/ /\ ~broken /\ Cardinality(reqRing) >= RingCapacity
          /\ SubmitGoto("credit") /\ UNCHANGED <<reqRing, store>>
       \/ /\ ~broken /\ Cardinality(reqRing) < RingCapacity
          /\ reqRing' = reqRing \cup {sub.req} /\ SubmitGoto("pushed") /\ UNCHANGED store
    /\ SubmitFrame
    /\ UNCHANGED <<recovery, broken, reqCredit, respRing, admitting, queued, result, published, sec>>

\* Mutant: a request that finds the ring full is forgotten.
PushRequest_DropOnFull ==
    /\ sub.pc = "pushing"
    /\ \/ broken /\ TakeBack /\ SubmitGoto("disconnected") /\ UNCHANGED reqRing
       \/ /\ ~broken /\ Cardinality(reqRing) >= RingCapacity
          /\ TakeBack /\ sub' = IdleSubmit /\ UNCHANGED reqRing
       \/ /\ ~broken /\ Cardinality(reqRing) < RingCapacity
          /\ reqRing' = reqRing \cup {sub.req} /\ SubmitGoto("pushed") /\ UNCHANGED store
    /\ SubmitFrame
    /\ UNCHANGED <<recovery, broken, reqCredit, respRing, admitting, queued, result, published, sec>>

\* PushRequestToSession: the entry goes in, or the pending record comes out.
PushRequest ==
    /\ sub.pc = "pushing"
    /\ \/ broken /\ TakeBack /\ SubmitGoto("disconnected") /\ UNCHANGED reqRing
       \/ /\ ~broken /\ Cardinality(reqRing) >= RingCapacity
          /\ TakeBack /\ SubmitGoto("credit") /\ UNCHANGED reqRing
       \/ /\ ~broken /\ Cardinality(reqRing) < RingCapacity
          /\ reqRing' = reqRing \cup {sub.req} /\ SubmitGoto("pushed") /\ UNCHANGED store
    /\ SubmitFrame
    /\ UNCHANGED <<recovery, broken, reqCredit, respRing, admitting, queued, result, published, sec>>

\* Session::PushRequest looks at the session state once more after the push.
PushRequestRecheck ==
    /\ sub.pc = "pushed"
    /\ \/ broken /\ TakeBack /\ SubmitGoto("disconnected") /\ UNCHANGED published
       \/ /\ ~broken /\ published' = published \cup {sub.req}
          /\ sub' = IdleSubmit /\ UNCHANGED store
    /\ SubmitFrame /\ UNCHANGED <<recovery, rings, admitting, queued, result, sec>>

\* Mutant: the credit eventfd is drained before the wait.
SyncActiveRequestCreditWait_DrainFirst ==
    /\ sub.pc = "credit"
    /\ sub' = [sub EXCEPT !.credit = session, !.pc = IF session = None THEN "creditNone" ELSE "creditWait"]
    /\ reqCredit' = FALSE
    /\ SubmitFrame /\ UNCHANGED <<recovery, broken, reqRing, respRing, requests, sec>>

\* WaitForRequestCredit: the duplicated eventfd follows the live session.
SyncActiveRequestCreditWait ==
    /\ sub.pc = "credit"
    /\ sub' = [sub EXCEPT !.credit = session, !.pc = IF session = None THEN "creditNone" ELSE "creditWait"]
    /\ SubmitOnly

\* Without a descriptor the snapshot is read once more: a session that has
\* appeared since counts as a failed wait.
NoRequestCreditHandle ==
    /\ sub.pc = "creditNone" /\ SubmitGoto(IF session = None THEN "loop" ELSE "disconnected")
    /\ SubmitOnly

WaitForRequestCredit ==
    /\ sub.pc = "creditWait"
    /\ \E next \in {"loop", "disconnected"} :
          /\ sub' = [sub EXCEPT !.pc = next, !.credit = None]
          /\ \/ /\ next = "loop" /\ running /\ session # sub.credit
                /\ UNCHANGED reqCredit
             \/ /\ next = "loop" /\ running /\ session = sub.credit
                /\ reqCredit /\ reqCredit' = FALSE
             \/ /\ next = "disconnected"
                /\ ~running \/ ("pollFail" \in faults /\ session = sub.credit)
                /\ UNCHANGED reqCredit
    /\ SubmitFrame /\ UNCHANGED <<recovery, broken, reqRing, respRing, requests, sec>>

\* CloseLiveSessionForTransportFailure.
SubmitClose ==
    /\ sub.pc = "disconnected"
    /\ Enter("submit", "transportClose") /\ SubmitGoto("closing")
    /\ SubmitFrame /\ UNCHANGED <<rings, requests>>

SubmitClosed ==
    /\ sub.pc = "closing" /\ Leave("submit") /\ SubmitGoto("loop")
    /\ SubmitFrame /\ UNCHANGED <<recovery, rings, requests>>

\* ResolveSubmitFailure: recovery policy first, then the future.
SubmitFail ==
    /\ sub.pc = "fail"
    /\ ApplyFailureRecoveryDecision("submit", sub.info) /\ SubmitGoto("failing")
    /\ SubmitFrame /\ UNCHANGED <<rings, requests>>

SubmitFailed ==
    /\ sub.pc = "failing" /\ Leave("submit")
    /\ ResolveState({sub.req}, sub.status) /\ sub' = IdleSubmit
    /\ SubmitFrame /\ UNCHANGED <<recovery, rings, admitting, queued, store, published>>

SubmitWorker ==
    \/ SubmitPop \/ SubmitExit \/ SubmitEnsure \/ SubmitStopped \/ SubmitEnsured
    \/ WaitForRecoveryState \/ TryPushRequest \/ PushRequest \/ PushRequestRecheck
    \/ SyncActiveRequestCreditWait \/ NoRequestCreditHandle \/ WaitForRequestCredit
    \/ SubmitClose \/ SubmitClosed \/ SubmitFail \/ SubmitFailed

-----------------------------------------------------------------------------
(* ResponseWorker.                                                          *)

ResponseFrame == UNCHANGED <<api, session, host, created, notices, sub, wd, dth, ext, ini, shut>>
ResponseOnly == ResponseFrame /\ UNCHANGED <<recovery, rings, requests, sec>>

ResponseGoto(next) == rsp' = [rsp EXCEPT !.pc = next]

ResponseCheckRunning ==
    /\ rsp.pc = "check"
    /\ IF running THEN ResponseGoto("drain") ELSE rsp' = [IdleResponse EXCEPT !.pc = "stopped"]
    /\ ResponseOnly

\* DrainResponseRing: pop one entry inside sessionMutex_ ...
PopResponse ==
    /\ rsp.pc = "drain" /\ ~SessionLocked
    /\ session # None /\ ~broken
    /\ \E e \in respRing :
          /\ respRing' = respRing \ {e}
          /\ rsp' = [rsp EXCEPT !.pc = "entry", !.req = e.req, !.status = e.status]
    /\ ResponseFrame /\ UNCHANGED <<recovery, broken, reqRing, reqCredit, requests, sec>>

\* ... or find nothing to pop.
ResponseRingDrained ==
    /\ rsp.pc = "drain" /\ ~SessionLocked
    /\ session = None \/ broken \/ respRing = {}
    /\ ResponseGoto("ready") /\ ResponseOnly

\* WaitUntilResponsePollReady reads the notification generation first ...
ReadNotificationGeneration ==
    /\ rsp.pc = "ready"
    /\ IF running THEN ResponseGoto("sync") /\ notified' = FALSE
                  ELSE ResponseGoto("check") /\ UNCHANGED notified
    /\ ResponseFrame /\ UNCHANGED <<lifecycle, cooldown, rings, requests, sec>>

\* ... then looks for a live session to poll (SyncActivePollSession; duplicating
\* the eventfd of a session not polled yet takes sessionMutex_) ...
SyncActivePollSession ==
    /\ rsp.pc = "sync"
    /\ SessionLocked => rsp.polled = session
    /\ rsp' = [rsp EXCEPT !.polled = session, !.pc = IF session = None THEN "await" ELSE "poll"]
    /\ ResponseOnly

\* ... and without one sleeps until the generation moves.
WaitForNotification ==
    /\ rsp.pc = "await" /\ (notified \/ ~running)
    /\ ResponseGoto("ready") /\ ResponseOnly

\* WaitForResponseSignal: poll with a 100 ms timeout; a failing fd counts as
\* the death of the polled session.
WaitForResponseSignal ==
    /\ rsp.pc = "poll"
    /\ \/ ResponseGoto("check")
       \/ /\ "pollFail" \in faults
          /\ rsp' = [rsp EXCEPT !.pc = "death", !.info = rsp.polled, !.polled = None]
    /\ ResponseOnly

\* An oversized reply, or an event whose payload cannot be read: the session
\* current by now is declared dead.
ResponseBadEntry ==
    /\ rsp.pc = "entry" /\ rsp.status = "Bad"
    /\ rsp' = [rsp EXCEPT !.pc = "death", !.info = session, !.status = "Ok"]
    /\ ResponseOnly

ResponseDeath ==
    /\ rsp.pc = "death"
    /\ ApplyEngineDeath("response", rsp.info, rsp.info) /\ ResponseGoto("dying")
    /\ ResponseFrame /\ UNCHANGED <<rings, requests>>

ResponseDeathHandled ==
    /\ rsp.pc = "dying" /\ Leave("response")
    /\ rsp' = [rsp EXCEPT !.pc = "check", !.info = Absent]
    /\ ResponseFrame /\ UNCHANGED <<recovery, rings, requests>>

Drained == [rsp EXCEPT !.pc = "drain", !.req = NoRequest, !.status = "Ok", !.info = Absent]

\* Mutant: a failed reply reads the pending record without taking it.
ResolveCompletedRequest_Peek ==
    /\ rsp.pc = "entry" /\ rsp.status # "Bad"
    /\ IF store[rsp.req] # Absent /\ rsp.status # "Ok"
         THEN /\ rsp' = [rsp EXCEPT !.pc = "taken", !.info = store[rsp.req]]
              /\ UNCHANGED <<store, result>>
         ELSE /\ rsp' = Drained /\ store' = [store EXCEPT ![rsp.req] = Absent]
              /\ ResolveState({r \in {rsp.req} : store[r] # Absent}, "Ok")
    /\ ResponseFrame /\ UNCHANGED <<recovery, rings, admitting, queued, published, sec>>

\* ResolveCompletedRequest: a reply nobody waits for is dropped; a failed one
\* goes through the recovery policy before its future is resolved.
ResolveCompletedRequest ==
    /\ rsp.pc = "entry" /\ rsp.status # "Bad"
    /\ store' = [store EXCEPT ![rsp.req] = Absent]
    /\ IF store[rsp.req] # Absent /\ rsp.status # "Ok"
         THEN /\ rsp' = [rsp EXCEPT !.pc = "taken", !.info = store[rsp.req]]
              /\ UNCHANGED result
         ELSE /\ rsp' = Drained
              /\ ResolveState({r \in {rsp.req} : store[r] # Absent}, "Ok")
    /\ ResponseFrame /\ UNCHANGED <<recovery, rings, admitting, queued, published, sec>>

ResponseFail ==
    /\ rsp.pc = "taken"
    /\ ApplyFailureRecoveryDecision("response", rsp.info) /\ ResponseGoto("failing")
    /\ ResponseFrame /\ UNCHANGED <<rings, requests>>

ResponseFailed ==
    /\ rsp.pc = "failing" /\ Leave("response")
    /\ ResolveState({rsp.req}, rsp.status) /\ rsp' = Drained
    /\ ResponseFrame /\ UNCHANGED <<recovery, rings, admitting, queued, store, published>>

ResponseWorker ==
    \/ ResponseCheckRunning \/ PopResponse \/ ResponseRingDrained
    \/ ReadNotificationGeneration \/ SyncActivePollSession \/ WaitForNotification
    \/ WaitForResponseSignal \/ ResponseBadEntry \/ ResponseDeath \/ ResponseDeathHandled
    \/ ResolveCompletedRequest \/ ResponseFail \/ ResponseFailed

-----------------------------------------------------------------------------
(* WatchdogLoop.                                                            *)

WatchdogFrame == UNCHANGED <<api, session, engine, sub, rsp, dth, ext, ini, shut>>
WatchdogGoto(next, observed) == wd' = [wd EXCEPT !.pc = next, !.observed = observed]

Expirable == {r \in TimedRequests : "expire" \in faults /\ store[r] # Absent}

\* MaybeRunPendingTimeouts: TakeExpired ...
TakeExpired ==
    /\ wd.pc = "scan"
    /\ \E E \in SUBSET Expirable :
          /\ wd' = [wd EXCEPT !.pc = "expired",
                       !.taken = [r \in Requests |-> IF r \in E THEN store[r] ELSE Absent]]
          /\ store' = [r \in Requests |-> IF r \in E THEN Absent ELSE store[r]]
    /\ WatchdogFrame /\ UNCHANGED <<recovery, admitting, queued, result, published, sec>>

\* ... and FailAndResolve for one after the other.
WatchdogFail ==
    /\ wd.pc = "expired"
    /\ \E r \in In(wd.taken) :
          /\ ApplyFailureRecoveryDecision("watchdog", wd.taken[r])
          /\ wd' = [wd EXCEPT !.pc = "failing", !.req = r]
    /\ WatchdogFrame /\ UNCHANGED requests

WatchdogFailed ==
    /\ wd.pc = "failing" /\ Leave("watchdog")
    /\ ResolveState({wd.req}, "ExecTimeout")
    /\ wd' = [wd EXCEPT !.pc = "expired", !.taken[wd.req] = Absent, !.req = NoRequest]
    /\ WatchdogFrame /\ UNCHANGED <<recovery, admitting, queued, store, published>>

\* MaybeRunHealthCheck: CheckHealth runs outside every lock.
MaybeRunHealthCheck ==
    /\ wd.pc = "expired" /\ In(wd.taken) = {}
    /\ \/ WatchdogGoto("idle", None)
       \/ /\ "unhealthy" \in faults /\ IsApiOpen /\ session # None
          /\ WatchdogGoto("unhealthy", session)
    /\ WatchdogFrame /\ UNCHANGED <<recovery, requests, sec>>

RequestHealthCheckRecovery ==
    /\ wd.pc = "unhealthy"
    /\ ApplyExternalRecovery("watchdog", wd.observed, wd.observed, 0)
    /\ WatchdogGoto("recovering", wd.observed)
    /\ WatchdogFrame /\ UNCHANGED requests

HealthCheckRecovered ==
    /\ wd.pc = "recovering" /\ Leave("watchdog") /\ WatchdogGoto("idle", None)
    /\ WatchdogFrame /\ UNCHANGED <<recovery, requests>>

\* MaybeRunIdlePolicy: the idle test is made before lifecycleMutex_ is taken.
MaybeRunIdlePolicy ==
    /\ wd.pc = "idle" /\ admitting = NoRequest
    /\ IF /\ "idle" \in faults /\ IsApiOpen
          /\ In(store) = {} /\ queued = {} /\ session # None
         THEN WatchdogGoto("idleLock", session)
         ELSE WatchdogGoto("wait", None)
    /\ WatchdogFrame /\ UNCHANGED <<recovery, requests, sec>>

\* The onIdle decision is applied exactly as an onFailure decision is.
HandleIdleRecovery ==
    /\ wd.pc = "idleLock"
    /\ ApplyFailureRecoveryDecision("watchdog", wd.observed)
    /\ WatchdogGoto("idling", wd.observed)
    /\ WatchdogFrame /\ UNCHANGED requests

IdleRecoveryHandled ==
    /\ wd.pc = "idling" /\ Leave("watchdog") /\ WatchdogGoto("wait", None)
    /\ WatchdogFrame /\ UNCHANGED <<recovery, requests>>

WatchdogWait ==
    /\ wd.pc = "wait" /\ WatchdogGoto(IF running THEN "scan" ELSE "stopped", None)
    /\ WatchdogFrame /\ UNCHANGED <<recovery, requests, sec>>

Watchdog ==
    \/ TakeExpired \/ WatchdogFail \/ WatchdogFailed
    \/ MaybeRunHealthCheck \/ RequestHealthCheckRecovery \/ HealthCheckRecovered
    \/ MaybeRunIdlePolicy \/ HandleIdleRecovery \/ IdleRecoveryHandled \/ WatchdogWait

-----------------------------------------------------------------------------
(* The engine-death callback the bootstrap channel invokes, and             *)
(* RequestExternalRecovery: both read the snapshot before the mutex.        *)

CallbackFrame == UNCHANGED <<api, session, host, created, rings, requests, sub, rsp, wd, ini, shut>>

\* MakeBootstrapDeathCallback's body.  A notice may be delivered again.
BootstrapDeathCallback ==
    /\ dth.pc = "idle"
    /\ \E d \in notices :
          /\ notices' \in {notices \ {d}} \cup {notices : e \in faults \cap {"twice"}}
          /\ dth' = [pc |-> "lock", observed |-> session, dead |-> d]
    /\ CallbackFrame /\ UNCHANGED <<recovery, sec, ext>>

HandleEngineDeath ==
    /\ dth.pc = "lock"
    /\ ApplyEngineDeath("death", dth.observed, dth.dead) /\ dth' = [dth EXCEPT !.pc = "section"]
    /\ CallbackFrame /\ UNCHANGED <<notices, ext>>

EngineDeathHandled ==
    /\ dth.pc = "section" /\ Leave("death") /\ dth' = IdleDeath
    /\ CallbackFrame /\ UNCHANGED <<recovery, notices, ext>>

\* The caller names a session it has seen, or 0 for whichever is live.
RequestExternalRecovery ==
    /\ "external" \in faults /\ ext.pc = "idle" /\ IsApiOpen
    /\ \E request \in {s \in SessionIds : s <= created}, delay \in {0, 1} :
          ext' = [pc |-> "lock", observed |-> session, request |-> request, delay |-> delay]
    /\ CallbackFrame /\ UNCHANGED <<recovery, notices, sec, dth>>

HandleExternalRecovery ==
    /\ ext.pc = "lock"
    /\ ApplyExternalRecovery("external", ext.observed, ext.request, ext.delay)
    /\ ext' = [ext EXCEPT !.pc = "section"]
    /\ CallbackFrame /\ UNCHANGED <<notices, dth>>

ExternalRecoveryHandled ==
    /\ ext.pc = "section" /\ Leave("external") /\ ext' = IdleExternal
    /\ CallbackFrame /\ UNCHANGED <<recovery, notices, dth>>

Callbacks ==
    \/ BootstrapDeathCallback \/ HandleEngineDeath \/ EngineDeathHandled
    \/ RequestExternalRecovery \/ HandleExternalRecovery \/ ExternalRecoveryHandled

-----------------------------------------------------------------------------
(* RpcClient::Init.                                                         *)

InitFrame == UNCHANGED <<faults, session, engine, requests, dth, ext>>
InitOnly == InitFrame /\ UNCHANGED <<api, recovery, sec, sub, rsp, wd, shut>>
InitDone == [pc |-> "done", eager |-> FALSE]
InitGoto(next) == ini' = IF next = "done" THEN InitDone ELSE [ini EXCEPT !.pc = next]

InitCall ==
    /\ ini.pc = "idle" \/ (ini.pc = "done" /\ "reinit" \in faults)
    /\ ConcurrentInit \/ shut.pc \in {"idle", "done"}
    /\ \E eager \in BOOLEAN :
          ini' = IF control = "Closed" \/ (running /\ ~eager)
                   THEN InitDone
                   ELSE [pc |-> IF running THEN "again" ELSE "prepare", eager |-> eager]
    /\ InitOnly

\* PrepareForInitOpen does not take lifecycleMutex_.
PrepareForInitOpen ==
    /\ ini.pc = "prepare" /\ InitGoto("start")
    /\ lifecycle' = IF ini.eager THEN "Uninitialized" ELSE "IdleClosed"
    /\ cooldown' = FALSE
    /\ InitFrame /\ UNCHANGED <<api, notified, sec, sub, rsp, wd, shut>>

WorkersStopped == sub.pc = "stopped" /\ rsp.pc = "stopped" /\ wd.pc = "stopped"

StartThreads ==
    /\ ini.pc = "start" /\ InitGoto(IF ini.eager THEN "ensure" ELSE "finish")
    /\ \/ running /\ UNCHANGED <<running, sub, rsp, wd>>
       \/ /\ ~running /\ WorkersStopped /\ running' = TRUE
          /\ sub' = IdleSubmit /\ rsp' = IdleResponse /\ wd' = IdleWatchdog
    /\ InitFrame /\ UNCHANGED <<control, recovery, sec, shut>>

InitEnsure ==
    /\ ini.pc \in {"ensure", "again"} /\ Enter("init", "ensure")
    /\ InitGoto(IF ini.pc = "again" THEN "ensuringAgain" ELSE "ensuring")
    /\ InitFrame /\ UNCHANGED <<api, sub, rsp, wd, shut>>

InitEnsured ==
    /\ ini.pc \in {"ensuring", "ensuringAgain"} /\ Leave("init")
    /\ InitGoto(IF ini.pc = "ensuringAgain" THEN "done"
                ELSE IF sec.ret = "Ok" THEN "finish" ELSE "failed")
    /\ InitFrame /\ UNCHANGED <<api, recovery, sub, rsp, wd, shut>>

\* An eager Init that cannot open a session calls Shutdown() itself.
InitFailed ==
    /\ ini.pc = "failed"
    /\ IF control \in {"Closing", "Closed"}
         THEN InitGoto("done") /\ UNCHANGED <<control, shut>>
         ELSE /\ InitGoto("inShutdown") /\ control' = "Closing"
              /\ shut' = [shut EXCEPT !.pc = "terminal"]
    /\ InitFrame /\ UNCHANGED <<running, recovery, sec, sub, rsp, wd>>

InitShutdownReturned ==
    /\ ini.pc = "inShutdown" /\ shut.pc = "done" /\ InitGoto("done") /\ InitOnly

FinishInit ==
    /\ ini.pc = "finish" /\ InitGoto("done")
    /\ control' = IF control = "Uninitialized" THEN "Open" ELSE control
    /\ InitFrame /\ UNCHANGED <<running, recovery, sec, sub, rsp, wd, shut>>

InitThread ==
    \/ InitCall \/ PrepareForInitOpen \/ StartThreads \/ InitEnsure \/ InitEnsured
    \/ InitFailed \/ InitShutdownReturned \/ FinishInit

-----------------------------------------------------------------------------
(* Impl::Shutdown.  ClearCallbacks has no effect of its own here: once      *)
(* control has left "Open" no policy and no death callback gets past its    *)
(* first test.                                                              *)

ShutdownFrame == UNCHANGED <<faults, engine, sub, rsp, wd, dth, ext, ini>>
ShutdownGoto(next) == shut' = [shut EXCEPT !.pc = next]

BeginShutdown ==
    /\ "shutdown" \in faults /\ shut.pc = "idle" /\ control \notin {"Closing", "Closed"}
    /\ ConcurrentInit \/ ini.pc \in {"idle", "done"}
    /\ control' = "Closing" /\ ShutdownGoto("terminal")
    /\ ShutdownFrame /\ UNCHANGED <<running, recovery, session, requests, sec>>

ShutdownClose ==
    /\ shut.pc = "terminal" /\ Enter("shutdown", "terminalClose") /\ ShutdownGoto("closing")
    /\ ShutdownFrame /\ UNCHANGED <<api, session, requests>>

ShutdownClosed ==
    /\ shut.pc = "closing" /\ Leave("shutdown") /\ ShutdownGoto("stop")
    /\ ShutdownFrame /\ UNCHANGED <<api, recovery, session, requests>>

\* Mutant: the workers are told to stop but not joined.
StopThreads_NoJoin ==
    /\ shut.pc = "stop" /\ running' = FALSE /\ notified' = TRUE /\ ShutdownGoto("take")
    /\ ShutdownFrame /\ UNCHANGED <<control, lifecycle, cooldown, session, requests, sec>>

StopThreads ==
    /\ shut.pc = "stop"
    /\ IF running THEN running' = FALSE /\ notified' = TRUE /\ ShutdownGoto("join")
                  ELSE ShutdownGoto("take") /\ UNCHANGED <<running, notified>>
    /\ ShutdownFrame /\ UNCHANGED <<control, lifecycle, cooldown, session, requests, sec>>

JoinThreads ==
    /\ shut.pc = "join" /\ WorkersStopped /\ ShutdownGoto("take")
    /\ ShutdownFrame /\ UNCHANGED <<api, recovery, session, requests, sec>>

\* FailOutstandingWork: TakeAll of the store ...
ShutdownTakeAll ==
    /\ shut.pc = "take"
    /\ shut' = [pc |-> "fail", taken |-> store] /\ store' = EmptyStore
    /\ ShutdownFrame
    /\ UNCHANGED <<api, recovery, session, admitting, queued, result, published, sec>>

\* ... FailAndResolve for each (the mutex is taken, and given back at once) ...
ShutdownFailPending ==
    /\ shut.pc = "fail" /\ (In(shut.taken) = {} \/ sec.owner = "none")
    /\ ResolveState(In(shut.taken), "ClientClosed")
    /\ shut' = [pc |-> "queue", taken |-> EmptyStore]
    /\ ShutdownFrame
    /\ UNCHANGED <<api, recovery, session, admitting, queued, store, published, sec>>

\* ... and FailQueuedSubmissions, which takes submitMutex_.
FailQueuedSubmissions ==
    /\ shut.pc = "queue" /\ admitting = NoRequest
    /\ ResolveState(queued, "ClientClosed") /\ queued' = {} /\ ShutdownGoto("finish")
    /\ ShutdownFrame
    /\ UNCHANGED <<api, recovery, session, admitting, store, published, sec>>

FinishShutdown ==
    /\ shut.pc = "finish" /\ control' = "Closed" /\ ShutdownGoto("done")
    /\ ShutdownFrame /\ UNCHANGED <<running, recovery, session, requests, sec>>

ShutdownSteps ==
    \/ ShutdownClose \/ ShutdownClosed \/ StopThreads \/ JoinThreads \/ ShutdownTakeAll
    \/ ShutdownFailPending \/ FailQueuedSubmissions \/ FinishShutdown

-----------------------------------------------------------------------------
(* The engine: what RpcServer and the bootstrap host do to the session.     *)

EngineFrame == UNCHANGED <<api, recovery, session, created, requests, sec, threads>>

EngineReply ==
    /\ host # None /\ ~broken /\ Cardinality(respRing) < RingCapacity
    /\ \E r \in reqRing, status \in {"Ok", "Failed"} :
          /\ reqRing' = reqRing \ {r}
          /\ respRing' = respRing \cup {[req |-> r, status |-> status]}
    /\ reqCredit' = (reqCredit \/ Cardinality(reqRing) = RingCapacity)
    /\ EngineFrame /\ UNCHANGED <<host, notices, broken>>

EngineBadEntry ==
    /\ "bad" \in faults /\ host # None /\ ~broken /\ Cardinality(respRing) < RingCapacity
    /\ respRing' = respRing \cup {[req |-> NoRequest, status |-> "Bad"]}
    /\ EngineFrame /\ UNCHANGED <<host, notices, broken, reqRing, reqCredit>>

EngineBreakSession ==
    /\ "break" \in faults /\ host # None /\ ~broken
    /\ broken' = TRUE
    /\ EngineFrame /\ UNCHANGED <<host, notices, reqRing, reqCredit, respRing>>

\* The process goes away.  A client still attached keeps the mapping.
EngineDies ==
    /\ "die" \in faults /\ host # None
    /\ host' = None /\ notices' = notices \cup {host}
    /\ IF session = None THEN ClearRings ELSE UNCHANGED rings
    /\ EngineFrame

Engine == EngineReply \/ EngineBadEntry \/ EngineBreakSession \/ EngineDies

-----------------------------------------------------------------------------

Terminated ==
    /\ control = "Closed" /\ shut.pc = "done" /\ ini.pc \in {"idle", "done"}
    /\ sec.owner = "none" /\ WorkersStopped
    /\ UNCHANGED vars

Next ==
    \/ Section \/ CooldownExpires
    \/ \E r \in Requests : InvokeAsync(r)
    \/ EnqueueSubmit
    \/ SubmitWorker \/ ResponseWorker \/ Watchdog \/ Callbacks
    \/ InitThread \/ BeginShutdown \/ ShutdownSteps
    \/ Engine \/ Terminated

Spec == Init /\ [][Next]_vars

-----------------------------------------------------------------------------
(* Properties.                                                              *)

Threads == {"none", "submit", "response", "watchdog", "death", "external", "init", "shutdown"}
Statuses == {"Ok", "Failed", "PeerDisconnected", "Crashed", "ExecTimeout", "ClientClosed",
             "PayloadTooLarge", "CooldownActive", "Other"}
Results == {"idle", "waiting"} \cup Statuses
ReplyStatuses == {"Ok", "Failed", "Bad"}
Steps == {"none", "done", "close", "idleClose", "idleEnter", "pending", "deathPolicy", "ensure",
          "open", "attach", "finalize", "openFailed", "transportClose", "terminalClose",
          "terminalEnter"}
PendingRequestRecoveryAction ==
    {"none", "FailWithRecoveryPolicy", "ResolvePeerDisconnected", "KeepCurrentState", "Crashed"}
ApiLifecycleState == {"Uninitialized", "Open", "Closing", "Closed"}
ClientLifecycleState ==
    {"Uninitialized", "Active", "NoSession", "Cooldown", "IdleClosed", "Recovering", "Closed"}
MaybeRequest == Requests \cup {NoRequest}
Stores == [Requests -> Infos]
Entries == [req : MaybeRequest, status : ReplyStatuses]
Sections == [owner : Threads, step : Steps, observed : SessionIds, delay : {0, 1},
             action : PendingRequestRecoveryAction, opened : SessionIds, ret : Statuses]
SubmitPcs == {"stopped", "idle", "loop", "ensuring", "cooldown", "retry", "push", "pushing", "pushed",
              "credit", "creditNone", "creditWait", "disconnected", "closing", "fail", "failing"}
SubmitStates == [pc : SubmitPcs, req : MaybeRequest, info : SessionIds, status : Statuses,
                 credit : SessionIds]
ResponsePcs == {"stopped", "check", "drain", "ready", "sync", "await", "poll", "entry", "death",
                "dying", "taken", "failing"}
ResponseStates == [pc : ResponsePcs, req : MaybeRequest, status : ReplyStatuses, info : Infos,
                   polled : SessionIds]
WatchdogPcs == {"stopped", "scan", "expired", "failing", "unhealthy", "recovering", "idle",
                "idleLock", "idling", "wait"}
WatchdogStates == [pc : WatchdogPcs, taken : Stores, req : MaybeRequest, observed : SessionIds]
CallbackPcs == {"idle", "lock", "section"}
DeathStates == [pc : CallbackPcs, observed : SessionIds, dead : SessionIds]
ExternalStates == [pc : CallbackPcs, observed : SessionIds, request : SessionIds, delay : {0, 1}]
InitPcs == {"idle", "prepare", "start", "ensure", "again", "ensuring", "ensuringAgain", "failed",
            "inShutdown", "finish", "done"}
InitStates == [pc : InitPcs, eager : BOOLEAN]
ShutdownPcs == {"idle", "terminal", "closing", "stop", "join", "take", "fail", "queue", "finish", "done"}
ShutdownStates == [pc : ShutdownPcs, taken : Stores]

\* Every variable has the shape its C++ counterpart has.
TypeOK ==
    /\ faults \in FaultFamilies
    /\ control \in ApiLifecycleState /\ running \in BOOLEAN
    /\ lifecycle \in ClientLifecycleState /\ cooldown \in BOOLEAN /\ notified \in BOOLEAN
    /\ session \in SessionIds /\ host \in SessionIds /\ created \in SessionIds
    /\ notices \subseteq SessionIds
    /\ broken \in BOOLEAN /\ reqRing \subseteq Requests /\ reqCredit \in BOOLEAN
    /\ respRing \subseteq Entries
    /\ admitting \in MaybeRequest /\ queued \subseteq Requests /\ store \in Stores
    /\ result \in [Requests -> Results] /\ published \subseteq Requests
    /\ sec \in Sections /\ sub \in SubmitStates /\ rsp \in ResponseStates
    /\ wd \in WatchdogStates /\ dth \in DeathStates /\ ext \in ExternalStates
    /\ ini \in InitStates /\ shut \in ShutdownStates

\* Where the responsibility for resolving the future of r lies.  While the
\* submit worker pushes under sessionMutex_ the store has it.
Owners(r) ==
    {o \in {"caller", "queue", "submit", "store", "response", "watchdog", "shutdown"} :
        CASE o = "caller" -> admitting = r
          [] o = "queue" -> r \in queued
          [] o = "submit" -> sub.req = r /\ ~SessionLocked
          [] o = "store" -> store[r] # Absent
          [] o = "response" -> rsp.req = r /\ rsp.pc \in {"taken", "failing"}
          [] o = "watchdog" -> wd.taken[r] # Absent
          [] o = "shutdown" -> shut.taken[r] # Absent}

\* At any moment exactly one thread or container is responsible for a future
\* that is still waiting, and nobody for one that is not: no reply, timeout,
\* recovery or Shutdown loses a request or completes it twice.
OneOwner ==
    \A r \in Requests : Cardinality(Owners(r)) = IF result[r] = "waiting" THEN 1 ELSE 0

\* What is left of OneOwner when the pending record is taken between Put() and a
\* push that then fails, by its deadline: PushRequestToSession ignores that Take()
\* found nothing, so the submit worker goes on with a request another thread owns
\* or has answered.  Even then no waiting future is left without somebody
\* responsible for it.
NeverOrphaned == \A r \in Requests : result[r] = "waiting" => Owners(r) # {}

\* Once Shutdown() has finished nothing is left: no session, no worker, no
\* pending or queued request, no future that nobody will resolve.
ShutdownComplete ==
    control = "Closed" =>
        /\ session = None /\ lifecycle = "Closed" /\ ~running /\ WorkersStopped
        /\ queued = {} /\ admitting = NoRequest /\ In(store) = {}
        /\ \A r \in Requests : result[r] # "waiting"

\* Outside a lifecycleMutex_ section a live session means the lifecycle state
\* is Active and no cooldown window is open.
LiveSessionIsActive ==
    sec.owner = "none" /\ session # None => lifecycle = "Active" /\ ~cooldown

\* FailAllPendingWithRecoveryPolicyLocked consults the failure policy for every
\* pending request while lifecycleMutex_ is held: none of them may belong to the
\* current session, or the recovery would start a second one inside itself.
NoNestedRecovery ==
    sec.step = "pending" /\ sec.action = "FailWithRecoveryPolicy" =>
        \A r \in In(store) : store[r] # session

\* The response worker never sleeps on a notification that has already been
\* given: with a published session there is always one still to come or to see.
NoLostNotification ==
    rsp.pc = "await" /\ session # None => notified \/ sec.step = "finalize"

\* No session is attached while a cooldown window set by a recovery is open.
NoOpenDuringCooldown ==
    [][session = None /\ session' # None => ~cooldown]_vars

\* A late death notice of an old session never closes a newer one: what the
\* death callback closes is the session the notice is about.
DeathClosesOnlyTheDead ==
    [][sec.owner = "death" /\ session' # session /\ session # None => session = dth.dead]_vars

-----------------------------------------------------------------------------
(* Liveness.  Every thread that can go on does: the threads, the timers     *)
(* they wait with, and the engine, which answers what is in its ring.  The  *)
(* deadline of a pending timed request passes, so that one of the scans     *)
(* that keep coming finds it expired.                                       *)
(* Nothing is assumed of the order in which threads get lifecycleMutex_.    *)

Fairness ==
    /\ WF_vars(Section) /\ WF_vars(CooldownExpires) /\ WF_vars(EnqueueSubmit)
    /\ WF_vars(SubmitWorker) /\ WF_vars(ResponseWorker) /\ WF_vars(Watchdog)
    /\ WF_vars(BootstrapDeathCallback)
    /\ WF_vars(HandleEngineDeath \/ EngineDeathHandled)
    /\ WF_vars(HandleExternalRecovery \/ ExternalRecoveryHandled)
    /\ WF_vars(ini.pc # "idle" /\ InitThread) /\ WF_vars(ShutdownSteps)
    /\ WF_vars(EngineReply)
    /\ \A r \in TimedRequests : SF_vars(TakeExpired /\ wd'.taken[r] # Absent)

FairSpec == Spec /\ Fairness

\* Shutdown() returns: the workers it joins all stop, whatever they wait for.
ShutdownTerminates == control = "Closing" ~> control = "Closed"

\* The submit worker found the ring of one session full and waits for a credit of
\* the next one, whose ring is empty: nothing will be popped, so none will come.
WaitsForNewSession ==
    sub.pc = "creditWait" /\ sub.credit = session /\ sub.credit # sub.info /\ reqRing = {} /\ ~reqCredit

\* Every admitted request with a deadline is answered, with a reply or with a
\* failure, as long as the engine serves its ring: the submit worker gets its
\* credit, also when sessions are replaced.  The one exception is a session
\* replaced between a push that found its ring full and the wait for the credit.
RequestsAreAnswered ==
    \A r \in TimedRequests : result[r] = "waiting" ~> result[r] # "waiting" \/ WaitsForNewSession

-----------------------------------------------------------------------------
(* What the repository's documents and comments say.                        *)

\* docs/state_machine.md: Active is the state with a live session.
ActiveHasSession == sec.owner = "none" /\ lifecycle = "Active" => session # None

\* docs/state_machine.md: no event leaves Closed.
ClosedIsTerminal == [][lifecycle = "Closed" => lifecycle' = "Closed"]_vars

\* RecoveryPolicy::onIdle: sampled with nothing pending and nothing queued.
IdleSampledWhenIdle ==
    [][wd.pc = "idleLock" /\ wd'.pc = "idling" /\ IsApiOpen /\ wd.observed = session
          => In(store) = {} /\ queued = {}]_vars

\* RpcCall::execTimeoutMs: the clock starts when the request has been published
\* to the request ring.
ExecTimeoutAfterPublish ==
    \A r \in Requests : result[r] = "ExecTimeout" => r \in published

\* docs/document.md, 2.3: the client waits while the queue is full, and is told to go
\* on when the server has consumed.  A worker that waits is owed a credit: there is
\* one, or an entry whose consumption gives one.
CreditIsOwed == sub.pc = "creditWait" /\ sub.credit = session => reqCredit \/ reqRing # {}

\* docs/porting_guide.md: when the engine process has died the requests waiting
\* on its session fail.
DeathFailsWaiting ==
    \A r \in Requests :
       (store[r] # Absent /\ store[r] = session /\ host # session) ~> (store[r] = Absent)

=============================================================================
