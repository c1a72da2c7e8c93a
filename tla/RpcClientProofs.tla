--------------------------- MODULE RpcClientProofs ---------------------------
(***************************************************************************)
(* Type correctness, the recovery properties, the hand-over of futures and *)
(* what Shutdown leaves, for any set of requests, any number of sessions,  *)
(* any ring capacity and any faults.  An inductive invariant says what the *)
(* thread inside lifecycleMutex_ may rely on at each step of its section;  *)
(* every other thread can only enter a free section, and enters it at a    *)
(* step whose conditions it has just tested.  On top of it stand what the  *)
(* death callback holds while it is inside, who is responsible for each    *)
(* future, and what Shutdown has closed, stopped and emptied so far.       *)
(***************************************************************************)
EXTENDS RpcClient, TLAPS

USE DEF api, recovery, rings, engine, requests, threads

-----------------------------------------------------------------------------
(* What each group of actions leaves alone.                                 *)

\* A step inside lifecycleMutex_ changes no thread, no API flag and no queue.
LEMMA SectionLeaves == Section => UNCHANGED <<api, threads, admitting, queued, published, notices>>
BY ZenonT(30) DEF Section, SectionFrame, CloseLiveSessionIfSnapshotMatches, EnterIdleClosed,
   HandlePendingRequestsForRecovery, HandleEngineDeathPolicy, EnsureLiveSession, OpenSession,
   AttachSession, FinalizeSessionOpen, HandleSessionOpenFailure, CloseLiveSession,
   EnterTerminalClosed

Caller == CooldownExpires \/ (\E r \in Requests : InvokeAsync(r)) \/ EnqueueSubmit

\* InvokeAsync, and the end of a cooldown, touch only the queue, the future and the window.
LEMMA CallerLeaves ==
    Caller => UNCHANGED <<api, lifecycle, notified, session, engine, store, published, sec, threads>>
BY SMTT(60) DEF Caller, CooldownExpires, InvokeAsync, EnqueueSubmit

\* SubmitWorker changes neither the session, nor the host, nor another thread.
LEMMA SubmitLeaves ==
    SubmitWorker => UNCHANGED <<api, session, host, created, notices, broken, respRing, rsp, wd,
                                dth, ext, ini, shut>>
BY Zenon DEF SubmitWorker, SubmitFrame, SubmitOnly, SubmitPop, SubmitExit, SubmitEnsure, SubmitStopped,
   SubmitEnsured, WaitForRecoveryState, TryPushRequest, PushRequest, PushRequestRecheck,
   SyncActiveRequestCreditWait, NoRequestCreditHandle, WaitForRequestCredit, SubmitClose,
   SubmitClosed, SubmitFail, SubmitFailed

\* ResponseWorker changes neither the session, nor the host, nor another thread.
LEMMA ResponseLeaves ==
    ResponseWorker => UNCHANGED <<api, session, host, created, notices, broken, reqRing, reqCredit,
                                  admitting, queued, published, sub, wd, dth, ext, ini, shut>>
BY Zenon DEF ResponseWorker, ResponseFrame, ResponseOnly, ResponseCheckRunning, PopResponse,
   ResponseRingDrained, ReadNotificationGeneration, SyncActivePollSession, WaitForNotification,
   WaitForResponseSignal, ResponseBadEntry, ResponseDeath, ResponseDeathHandled,
   ResolveCompletedRequest, ResponseFail, ResponseFailed

\* WatchdogLoop changes neither the session, nor the engine, nor another thread.
LEMMA WatchdogLeaves ==
    Watchdog => UNCHANGED <<api, session, engine, admitting, queued, published, sub, rsp, dth, ext,
                            ini, shut>>
BY Zenon DEF Watchdog, WatchdogFrame, TakeExpired, WatchdogFail, WatchdogFailed, MaybeRunHealthCheck,
   RequestHealthCheckRecovery, HealthCheckRecovered, MaybeRunIdlePolicy, HandleIdleRecovery,
   IdleRecoveryHandled, WatchdogWait

\* The death callback and RequestExternalRecovery change no session, request or worker.
LEMMA CallbacksLeave ==
    Callbacks => UNCHANGED <<api, session, host, created, rings, requests, sub, rsp, wd, ini, shut>>
BY Zenon DEF Callbacks, CallbackFrame, BootstrapDeathCallback, HandleEngineDeath, EngineDeathHandled,
   RequestExternalRecovery, HandleExternalRecovery, ExternalRecoveryHandled

\* Init starts the workers when they are stopped and otherwise leaves them alone.
LEMMA InitThreadLeaves ==
    InitThread =>
        /\ UNCHANGED <<session, engine, requests, dth, ext>>
        /\ \/ UNCHANGED <<running, sub, rsp, wd>>
           \/ WorkersStopped /\ sub' = IdleSubmit /\ rsp' = IdleResponse /\ wd' = IdleWatchdog
BY Zenon DEF InitThread, InitFrame, InitOnly, InitCall, PrepareForInitOpen, StartThreads, InitEnsure,
   InitEnsured, InitFailed, InitShutdownReturned, FinishInit

\* Shutdown changes no worker: it stops them through the flags they read.
LEMMA ShutdownLeaves ==
    BeginShutdown \/ ShutdownSteps =>
        UNCHANGED <<session, engine, lifecycle, cooldown, admitting, published,
                    sub, rsp, wd, dth, ext, ini>>
BY Zenon DEF BeginShutdown, ShutdownSteps, ShutdownFrame, ShutdownClose, ShutdownClosed, StopThreads,
   JoinThreads, ShutdownTakeAll, ShutdownFailPending, FailQueuedSubmissions, FinishShutdown, Enter

\* The engine changes only its session and the rings.
LEMMA EngineLeaves == Engine => UNCHANGED <<api, recovery, session, created, requests, sec, threads>>
BY DEF Engine, EngineFrame, EngineReply, EngineBadEntry, EngineBreakSession, EngineDies

\* The groups the proofs below split a step into.
LEMMA StepCases ==
    [Next]_vars => \/ Section \/ Caller \/ SubmitWorker \/ ResponseWorker \/ Watchdog \/ Callbacks
                   \/ InitThread \/ (BeginShutdown \/ ShutdownSteps) \/ Engine \/ UNCHANGED vars
BY DEF Next, Caller, Terminated

-----------------------------------------------------------------------------
(* Type correctness.                                                        *)

\* The values that stand for "no session" and "no record" are of their types.
LEMMA ConstantTypes ==
    /\ None \in SessionIds /\ EmptyStore \in Stores /\ NoRequest \in MaybeRequest
    /\ Absent \in Infos /\ SessionIds \subseteq Infos /\ Requests \subseteq MaybeRequest
BY RequestsAssumption, MaxSessionAssumption
   DEF None, SessionIds, Absent, Infos, EmptyStore, MaybeRequest, Stores

\* The values the thread records are reset to have the types of the records.
LEMMA ResetTypes ==
    /\ NoSection \in Sections /\ IdleSubmit \in SubmitStates /\ IdleResponse \in ResponseStates
    /\ IdleWatchdog \in WatchdogStates /\ IdleDeath \in DeathStates
    /\ IdleExternal \in ExternalStates /\ InitDone \in InitStates
<1>1. NoSection \in Sections
  BY ConstantTypes, Zenon DEF NoSection, Sections, Threads, Steps, PendingRequestRecoveryAction, Statuses
<1>2. IdleSubmit \in SubmitStates
  BY ConstantTypes, Zenon DEF IdleSubmit, SubmitStates, SubmitPcs, Statuses
<1>3. IdleResponse \in ResponseStates
  BY ConstantTypes, Zenon DEF IdleResponse, ResponseStates, ResponsePcs, ReplyStatuses
<1>4. IdleWatchdog \in WatchdogStates
  BY ConstantTypes, Zenon DEF IdleWatchdog, WatchdogStates, WatchdogPcs
<1>5. IdleDeath \in DeathStates /\ IdleExternal \in ExternalStates
  BY ConstantTypes, Zenon DEF IdleDeath, IdleExternal, DeathStates, ExternalStates, CallbackPcs
<1>6. InitDone \in InitStates BY DEF InitDone, InitStates, InitPcs
<1> QED BY <1>1, <1>2, <1>3, <1>4, <1>5, <1>6, Zenon

\* The client before Init() is well typed.
LEMMA InitType == Init => TypeOK
<1> SUFFICES ASSUME Init PROVE TypeOK OBVIOUS
<1>1. sec \in Sections BY ResetTypes, SMT, Z3 DEF Init
<1>2. sub \in SubmitStates BY ResetTypes, SMT, Z3 DEF Init, SubmitStates, SubmitPcs
<1>3. rsp \in ResponseStates BY ResetTypes, SMT, Z3 DEF Init, ResponseStates, ResponsePcs
<1>4. wd \in WatchdogStates BY ResetTypes, SMT, Z3 DEF Init, WatchdogStates, WatchdogPcs
<1>5. dth \in DeathStates /\ ext \in ExternalStates BY ResetTypes DEF Init
<1>6. ini \in InitStates /\ shut \in ShutdownStates
  BY ConstantTypes, Zenon DEF Init, InitStates, InitPcs, ShutdownStates, ShutdownPcs
<1>7. result \in [Requests -> Results] BY DEF Init, Results
<1>8. control \in ApiLifecycleState /\ lifecycle \in ClientLifecycleState
  BY Zenon DEF Init, ApiLifecycleState, ClientLifecycleState
<1>9. created \in SessionIds BY ConstantTypes, Zenon DEF Init, None
<1> QED BY <1>1, <1>2, <1>3, <1>4, <1>5, <1>6, <1>7, <1>8, <1>9, ConstantTypes, Zenon DEF Init, TypeOK

\* Resolving futures keeps the type of the result function.
LEMMA ResolveType ==
    ASSUME TypeOK, NEW S, NEW status \in Statuses, ResolveState(S, status)
    PROVE  result' \in [Requests -> Results]
BY DEF TypeOK, ResolveState, Results

\* The closing of a session by the host keeps the types of its memory.
LEMMA HostCloseType ==
    ASSUME TypeOK, HostCloseSession
    PROVE  /\ host' \in SessionIds /\ broken' \in BOOLEAN /\ reqRing' \subseteq Requests
           /\ reqCredit' \in BOOLEAN /\ respRing' \subseteq Entries
BY ConstantTypes, Zenon DEF TypeOK, HostCloseSession, ClearRings

\* A transition of the lifecycle state keeps the types of the recovery state.
LEMMA TransitionType ==
    ASSUME NEW state \in ClientLifecycleState, NEW cool \in BOOLEAN, Transition(state, cool)
    PROVE  lifecycle' \in ClientLifecycleState /\ cooldown' \in BOOLEAN /\ notified' \in BOOLEAN
BY DEF Transition

SectionTyped ==
    /\ sec \in Sections /\ lifecycle \in ClientLifecycleState
    /\ cooldown \in BOOLEAN /\ notified \in BOOLEAN

\* Taking lifecycleMutex_ leaves a well-typed section.
LEMMA EnterType ==
    ASSUME TypeOK, NEW t \in Threads, NEW next \in Steps, Enter(t, next)
    PROVE  SectionTyped'
BY ResetTypes, Zenon DEF TypeOK, SectionTyped, Enter, Sections

\* Releasing lifecycleMutex_ leaves the empty section.
LEMMA LeaveType == ASSUME NEW t, Leave(t) PROVE sec' \in Sections
BY ResetTypes DEF Leave

\* Going on inside a section keeps its type.
LEMMA GotoType == ASSUME TypeOK, NEW next \in Steps, Goto(next) PROVE sec' \in Sections
BY DEF TypeOK, Goto, Sections

\* Returning a status from a section keeps its type.
LEMMA ReturnType == ASSUME TypeOK, NEW status \in Statuses, Return(status) PROVE sec' \in Sections
BY Zenon DEF TypeOK, Return, Sections, Steps

\* A decision that changes nothing keeps the types of the section.
LEMMA NothingToDoType ==
    ASSUME TypeOK, NEW s \in Sections, NothingToDo(s) PROVE SectionTyped'
BY DEF TypeOK, SectionTyped, NothingToDo, Sections, Steps

\* An IdleClose decision keeps the types of the section.
LEMMA IdleCloseType ==
    ASSUME TypeOK, NEW s \in Sections, NEW observed \in SessionIds, IdleClose(s, observed)
    PROVE  SectionTyped'
BY Zenon DEF TypeOK, SectionTyped, IdleClose, Sections, Steps

\* A Restart decision keeps the types of the section.
LEMMA ScheduleRecoveryType ==
    ASSUME TypeOK, NEW s \in Sections, NEW observed \in SessionIds, NEW delay \in {0, 1},
           NEW action \in PendingRequestRecoveryAction, ScheduleRecovery(s, observed, delay, action)
    PROVE  SectionTyped'
<1>1. sec' \in Sections BY Zenon DEF ScheduleRecovery, Sections, Steps
<1>2. lifecycle' \in ClientLifecycleState /\ cooldown' \in BOOLEAN /\ notified' \in BOOLEAN
  BY Zenon DEF ScheduleRecovery, Transition, ClientLifecycleState
<1> QED BY <1>1, <1>2 DEF SectionTyped

\* ApplyFailureRecoveryDecision keeps the types, whatever the policy answers.
LEMMA FailureType ==
    ASSUME TypeOK, NEW t \in Threads, NEW info, ApplyFailureRecoveryDecision(t, info)
    PROVE  SectionTyped'
<1> DEFINE s == [NoSection EXCEPT !.owner = t]
<1>1. s \in Sections BY ResetTypes DEF Sections
<1>2. CASE NothingToDo(s) BY <1>1, <1>2, NothingToDoType, Zenon
<1>3. CASE info = session /\ IdleClose(s, info) BY <1>1, <1>3, IdleCloseType, Zenon DEF TypeOK
<1>4. CASE info = session /\ \E delay \in {0, 1} : ScheduleRecovery(s, info, delay, "FailWithRecoveryPolicy")
  BY <1>1, <1>4, ScheduleRecoveryType, Zenon DEF TypeOK, PendingRequestRecoveryAction
<1> QED BY <1>2, <1>3, <1>4, Zenon DEF ApplyFailureRecoveryDecision

\* A request for external recovery keeps the types, stale or not.
LEMMA ExternalType ==
    ASSUME TypeOK, NEW t \in Threads, NEW observed \in SessionIds, NEW requested,
           NEW delay \in {0, 1}, ApplyExternalRecovery(t, observed, requested, delay)
    PROVE  SectionTyped'
<1> DEFINE s == [NoSection EXCEPT !.owner = t]
<1>1. s \in Sections BY ResetTypes DEF Sections
<1>2. CASE NothingToDo(s) BY <1>1, <1>2, NothingToDoType, Zenon
<1>3. CASE ScheduleRecovery(s, observed, delay, "ResolvePeerDisconnected")
  BY <1>1, <1>3, ScheduleRecoveryType, Zenon DEF PendingRequestRecoveryAction
<1> QED BY <1>2, <1>3, Zenon DEF ApplyExternalRecovery

\* HandleEngineDeathLocked keeps the types, stale notice or not.
LEMMA DeathType ==
    ASSUME TypeOK, NEW t \in Threads, NEW observed, NEW dead, ApplyEngineDeath(t, observed, dead)
    PROVE  SectionTyped'
<1> DEFINE s == [NoSection EXCEPT !.owner = t]
<1>1. s \in Sections BY ResetTypes DEF Sections
<1>2. CASE NothingToDo(s) BY <1>1, <1>2, NothingToDoType, Zenon
<1>3. CASE /\ observed = session /\ UNCHANGED recovery
           /\ sec' = [s EXCEPT !.step = "close", !.observed = observed, !.action = "Crashed"]
  <2>1. sec' \in Sections BY <1>1, <1>3, Zenon DEF TypeOK, Sections, Steps, PendingRequestRecoveryAction
  <2> QED BY <1>3, <2>1, Zenon DEF TypeOK, SectionTyped
<1> QED BY <1>2, <1>3, Zenon DEF ApplyEngineDeath

\* Every step of a lifecycleMutex_ section preserves the types.
LEMMA SectionType == TypeOK /\ Section => TypeOK'
<1> SUFFICES ASSUME TypeOK, Section PROVE TypeOK' BY Zenon
<1> USE DEF SectionFrame
<1>1. CASE CloseLiveSessionIfSnapshotMatches
  <2>1. sec' \in Sections BY <1>1, GotoType, SMT, Z3 DEF CloseLiveSessionIfSnapshotMatches, Steps
  <2>2. session' \in SessionIds
    BY <1>1, ConstantTypes, Zenon DEF CloseLiveSessionIfSnapshotMatches, TypeOK
  <2>3. CASE HostCloseSession
    BY <1>1, <2>1, <2>2, <2>3, HostCloseType, Zenon DEF CloseLiveSessionIfSnapshotMatches, TypeOK
  <2>4. CASE UNCHANGED <<session, host, rings>>
    BY <1>1, <2>1, <2>4, Zenon DEF CloseLiveSessionIfSnapshotMatches, TypeOK
  <2> QED BY <1>1, <2>3, <2>4, Zenon DEF CloseLiveSessionIfSnapshotMatches
<1>2. CASE EnterIdleClosed
  <2>1. sec' \in Sections BY <1>2, GotoType, Zenon DEF EnterIdleClosed, Steps
  <2> QED BY <1>2, <2>1, TransitionType, Zenon DEF EnterIdleClosed, TypeOK, ClientLifecycleState
<1>3. CASE HandlePendingRequestsForRecovery
  <2>1. sec' \in Sections BY <1>3, GotoType, Zenon DEF HandlePendingRequestsForRecovery, Steps
  <2>2. store' \in Stores BY <1>3, ConstantTypes, SMT, Z3 DEF HandlePendingRequestsForRecovery, TypeOK
  <2>3. result' \in [Requests -> Results]
    BY <1>3, ResolveType, Zenon DEF HandlePendingRequestsForRecovery, TypeOK, Statuses
  <2> QED BY <1>3, <2>1, <2>2, <2>3, Zenon DEF HandlePendingRequestsForRecovery, TypeOK
<1>4. CASE HandleEngineDeathPolicy
  <2>1. sec \in Sections /\ sec.observed \in SessionIds BY DEF TypeOK, Sections
  <2>2. CASE NothingToDo(sec)
    BY <1>4, <2>1, <2>2, NothingToDoType, Zenon DEF HandleEngineDeathPolicy, TypeOK, SectionTyped
  <2>3. CASE Transition("NoSession", FALSE) /\ Goto("done")
    <3>1. sec' \in Sections BY <2>3, GotoType, Zenon DEF Steps
    <3> QED BY <1>4, <2>3, <3>1, TransitionType, Zenon DEF HandleEngineDeathPolicy, TypeOK, ClientLifecycleState
  <2>4. CASE IdleClose(sec, sec.observed)
    BY <1>4, <2>1, <2>4, IdleCloseType, Zenon DEF HandleEngineDeathPolicy, TypeOK, SectionTyped
  <2>5. CASE \E delay \in {0, 1} : ScheduleRecovery(sec, sec.observed, delay, "KeepCurrentState")
    <3>1. SectionTyped' BY <2>1, <2>5, ScheduleRecoveryType, Zenon DEF PendingRequestRecoveryAction
    <3> QED BY <1>4, <3>1, Zenon DEF HandleEngineDeathPolicy, TypeOK, SectionTyped
  <2> QED BY <1>4, <2>2, <2>3, <2>4, <2>5, Zenon DEF HandleEngineDeathPolicy
<1>5. CASE EnsureLiveSession
  <2>1. sec' \in Sections BY <1>5, GotoType, ReturnType, Zenon DEF EnsureLiveSession, Steps, Statuses
  <2>2. lifecycle' \in ClientLifecycleState
    BY <1>5, Zenon DEF EnsureLiveSession, TypeOK, ClientLifecycleState
  <2> QED BY <1>5, <2>1, <2>2, Zenon DEF EnsureLiveSession, TypeOK
<1>6. CASE OpenSession
  <2>1. created < MaxSession => created + 1 \in SessionIds
    BY MaxSessionAssumption, SMT, Z3 DEF TypeOK, SessionIds
  <2>2. host' \in SessionIds /\ created' \in SessionIds BY <1>6, <2>1, Zenon DEF OpenSession, TypeOK
  <2>3. CASE OpenFailed
    <3>1. sec' \in Sections BY <2>3, ZenonT(60) DEF OpenFailed, TypeOK, Sections, Steps, Statuses
    <3> QED BY <1>6, <2>2, <3>1, Zenon DEF OpenSession, TypeOK
  <2>4. CASE \E s \in SessionIds : sec' = [sec EXCEPT !.step = "attach", !.opened = s]
    <3>1. sec' \in Sections BY <2>4, Zenon DEF TypeOK, Sections, Steps
    <3> QED BY <1>6, <2>2, <3>1 DEF OpenSession, TypeOK
  <2> QED BY <1>6, <2>1, <2>3, <2>4, Zenon DEF OpenSession, TypeOK
<1>7. CASE AttachSession
  <2>1. sec' \in Sections BY <1>7, ZenonT(60) DEF AttachSession, OpenFailed, Goto, TypeOK, Sections, Steps, Statuses
  <2>2. session' \in SessionIds /\ broken' \in BOOLEAN BY <1>7, Zenon DEF AttachSession, TypeOK, Sections
  <2> QED BY <1>7, <2>1, <2>2, Zenon DEF AttachSession, TypeOK
<1>8. CASE FinalizeSessionOpen
  <2>1. sec' \in Sections BY <1>8, ReturnType DEF FinalizeSessionOpen, Statuses
  <2> QED BY <1>8, <2>1, TransitionType, Zenon DEF FinalizeSessionOpen, TypeOK, ClientLifecycleState
<1>9. CASE HandleSessionOpenFailure
  <2>1. sec' \in Sections BY <1>9, GotoType, Zenon DEF HandleSessionOpenFailure, Steps
  <2>2. lifecycle' \in ClientLifecycleState /\ cooldown' \in BOOLEAN /\ notified' \in BOOLEAN
    BY <1>9, TransitionType, Zenon DEF HandleSessionOpenFailure, TypeOK, ClientLifecycleState
  <2> QED BY <1>9, <2>1, <2>2, Zenon DEF HandleSessionOpenFailure, TypeOK
<1>10. CASE CloseLiveSession
  <2>1. sec' \in Sections BY <1>10, GotoType, Zenon DEF CloseLiveSession, Steps
  <2> QED BY <1>10, <2>1, HostCloseType, ConstantTypes, Zenon DEF CloseLiveSession, TypeOK
<1>11. CASE EnterTerminalClosed
  <2>1. sec' \in Sections BY <1>11, GotoType, Zenon DEF EnterTerminalClosed, Steps
  <2> QED BY <1>11, <2>1, TransitionType, Zenon DEF EnterTerminalClosed, TypeOK, ClientLifecycleState
<1> QED BY <1>1, <1>2, <1>3, <1>4, <1>5, <1>6, <1>7, <1>8, <1>9, <1>10, <1>11, Zenon DEF Section

\* A submit worker that is not waiting for work has a request in hand.
BusyHasRequest == sub.pc \notin {"stopped", "idle"} => sub.req \in Requests

\* SubmitWorker going on keeps the type of its locals.
LEMMA SubmitGotoType ==
    ASSUME TypeOK, NEW next \in SubmitPcs, SubmitGoto(next) PROVE sub' \in SubmitStates
BY DEF TypeOK, SubmitGoto, SubmitStates

\* SubmitWorker giving a request up keeps the type of its locals.
LEMMA SubmitGiveUpType ==
    ASSUME TypeOK, NEW status \in Statuses, SubmitGiveUp(status) PROVE sub' \in SubmitStates
BY Zenon DEF TypeOK, SubmitGiveUp, SubmitStates, SubmitPcs

\* Every step of SubmitWorker preserves the types.
LEMMA SubmitType == TypeOK /\ BusyHasRequest /\ SubmitWorker => TypeOK'
<1> SUFFICES ASSUME TypeOK, BusyHasRequest, SubmitWorker PROVE TypeOK' OBVIOUS
<1> USE DEF SubmitFrame, SubmitOnly
<1>0. /\ "submit" \in Threads /\ "ensure" \in Steps /\ "transportClose" \in Steps
      /\ sub.status \in Statuses /\ sub.info \in SessionIds
  BY Zenon DEF Threads, Steps, TypeOK, SubmitStates
<1>1. CASE SubmitPop
  <2>1. sub' \in SubmitStates BY <1>1, ConstantTypes, Zenon DEF SubmitPop, TypeOK, SubmitStates, SubmitPcs
  <2> QED BY <1>1, <2>1, Zenon DEF SubmitPop, TypeOK
<1>2. CASE SubmitExit
  <2>1. sub' \in SubmitStates BY <1>2, SubmitGotoType, Zenon DEF SubmitExit, SubmitPcs
  <2> QED BY <1>2, <2>1, Zenon DEF SubmitExit, TypeOK
<1>3. CASE SubmitEnsure
  <2>1. sub' \in SubmitStates BY <1>3, SubmitGotoType, Zenon DEF SubmitEnsure, SubmitPcs
  <2> QED BY <1>0, <1>3, <2>1, EnterType, Zenon DEF SubmitEnsure, TypeOK, SectionTyped
<1>4. CASE SubmitStopped
  <2>1. sub' \in SubmitStates
    BY <1>4, SubmitGiveUpType, Zenon DEF SubmitStopped, RuntimeStopStatus, Statuses
  <2> QED BY <1>4, <2>1, Zenon DEF SubmitStopped, TypeOK
<1>5. CASE SubmitEnsured
  <2>1. sec.ret \in Statuses BY DEF TypeOK, Sections
  <2>2. sub' \in SubmitStates
    BY <1>5, <2>1, SubmitGotoType, SubmitGiveUpType, Zenon DEF SubmitEnsured, SubmitPcs
  <2> QED BY <1>5, <2>2, LeaveType, Zenon DEF SubmitEnsured, TypeOK
<1>6. CASE WaitForRecoveryState
  <2>1. RecoveryStateWaitResult \in Statuses BY DEF RecoveryStateWaitResult, Statuses
  <2>2. "ClientClosed" \in Statuses /\ "loop" \in SubmitPcs BY DEF Statuses, SubmitPcs
  <2>3. sub' \in SubmitStates
    BY <1>6, <2>1, <2>2, SubmitGotoType, SubmitGiveUpType, Zenon DEF WaitForRecoveryState
  <2> QED BY <1>6, <2>3, Zenon DEF WaitForRecoveryState, TypeOK
<1>7. CASE TryPushRequest
  <2>1. sub' \in SubmitStates
    BY <1>7, SubmitGotoType, SubmitGiveUpType, Zenon DEF TryPushRequest, SubmitPcs, Statuses
  <2>2. store' \in Stores BY <1>7, ConstantTypes, Zenon DEF TryPushRequest, TypeOK, Stores
  <2> QED BY <1>7, <2>1, <2>2, Zenon DEF TryPushRequest, TypeOK
<1>8. CASE PushRequest
  <2>1. sub' \in SubmitStates BY <1>8, SubmitGotoType, Zenon DEF PushRequest, SubmitPcs
  <2>2. store' \in Stores BY <1>8, ConstantTypes, ZenonT(60) DEF PushRequest, TakeBack, TypeOK, Stores
  <2>3. reqRing' \subseteq Requests BY <1>8, Zenon DEF PushRequest, TypeOK, BusyHasRequest
  <2> QED BY <1>8, <2>1, <2>2, <2>3, Zenon DEF PushRequest, TypeOK
<1>9. CASE PushRequestRecheck
  <2>1. sub' \in SubmitStates BY <1>9, SubmitGotoType, ResetTypes, Zenon DEF PushRequestRecheck, SubmitPcs
  <2>2. store' \in Stores BY <1>9, ConstantTypes, Zenon DEF PushRequestRecheck, TakeBack, TypeOK, Stores
  <2>3. published' \subseteq Requests BY <1>9, Zenon DEF PushRequestRecheck, TypeOK, BusyHasRequest
  <2> QED BY <1>9, <2>1, <2>2, <2>3, Zenon DEF PushRequestRecheck, TypeOK
<1>10. CASE SyncActiveRequestCreditWait
  <2>1. sub' \in SubmitStates BY <1>10, Zenon DEF SyncActiveRequestCreditWait, TypeOK, SubmitStates, SubmitPcs
  <2> QED BY <1>10, <2>1, Zenon DEF SyncActiveRequestCreditWait, TypeOK
<1>11. CASE NoRequestCreditHandle
  <2>1. sub' \in SubmitStates BY <1>11, SubmitGotoType, Zenon DEF NoRequestCreditHandle, SubmitPcs
  <2> QED BY <1>11, <2>1, Zenon DEF NoRequestCreditHandle, TypeOK
<1>12. CASE WaitForRequestCredit
  <2>1. sub' \in SubmitStates
    BY <1>12, ConstantTypes, Zenon DEF WaitForRequestCredit, TypeOK, SubmitStates, SubmitPcs
  <2>2. reqCredit' \in BOOLEAN BY <1>12, Zenon DEF WaitForRequestCredit, TypeOK
  <2> QED BY <1>12, <2>1, <2>2, Zenon DEF WaitForRequestCredit, TypeOK
<1>13. CASE SubmitClose
  <2>1. sub' \in SubmitStates BY <1>13, SubmitGotoType, Zenon DEF SubmitClose, SubmitPcs
  <2> QED BY <1>0, <1>13, <2>1, EnterType, Zenon DEF SubmitClose, TypeOK, SectionTyped
<1>14. CASE SubmitClosed
  <2>1. sub' \in SubmitStates BY <1>14, SubmitGotoType, Zenon DEF SubmitClosed, SubmitPcs
  <2> QED BY <1>14, <2>1, LeaveType, Zenon DEF SubmitClosed, TypeOK
<1>15. CASE SubmitFail
  <2>1. sub' \in SubmitStates BY <1>15, SubmitGotoType, Zenon DEF SubmitFail, SubmitPcs
  <2> QED BY <1>0, <1>15, <2>1, FailureType, Zenon DEF SubmitFail, TypeOK, SectionTyped
<1>16. CASE SubmitFailed
  <2>1. result' \in [Requests -> Results] BY <1>0, <1>16, ResolveType, Zenon DEF SubmitFailed
  <2> QED BY <1>16, <2>1, LeaveType, ResetTypes, Zenon DEF SubmitFailed, TypeOK
<1> QED BY <1>1, <1>2, <1>3, <1>4, <1>5, <1>6, <1>7, <1>8, <1>9, <1>10, <1>11, <1>12, <1>13,
           <1>14, <1>15, <1>16, Zenon DEF SubmitWorker

-----------------------------------------------------------------------------
(* Type correctness.                                                        *)

\* A reply, in the ring or just popped, is a reply to a request.
RepliesNameRequests ==
    /\ \A e \in respRing : e.status # "Bad" => e.req \in Requests
    /\ rsp.pc = "entry" /\ rsp.status # "Bad" => rsp.req \in Requests
    /\ rsp.pc \in {"taken", "failing"} => rsp.status # "Bad"

\* ResponseWorker going on keeps the type of its locals.
LEMMA ResponseGotoType ==
    ASSUME TypeOK, NEW next \in ResponsePcs, ResponseGoto(next) PROVE rsp' \in ResponseStates
BY DEF TypeOK, ResponseGoto, ResponseStates

\* ResponseWorker going back to its ring has well-typed locals.
LEMMA DrainedType == TypeOK => Drained \in ResponseStates
BY ConstantTypes, Zenon DEF TypeOK, Drained, ResponseStates, ResponsePcs, ReplyStatuses

\* Every step of ResponseWorker preserves the types.
LEMMA ResponseType == TypeOK /\ RepliesNameRequests /\ ResponseWorker => TypeOK'
<1> SUFFICES ASSUME TypeOK, RepliesNameRequests, ResponseWorker PROVE TypeOK' OBVIOUS
<1> USE DEF ResponseFrame, ResponseOnly
<1>0. /\ "response" \in Threads /\ rsp.status \in Statuses \cup {"Bad"}
      /\ rsp \in ResponseStates
  BY Zenon DEF Threads, TypeOK, ResponseStates, ReplyStatuses, Statuses
<1>1. CASE ResponseCheckRunning
  <2>1. rsp' \in ResponseStates
    BY <1>1, ResponseGotoType, ResetTypes, Zenon DEF ResponseCheckRunning, ResponseStates, ResponsePcs
  <2> QED BY <1>1, <2>1, Zenon DEF ResponseCheckRunning, TypeOK
<1>2. CASE PopResponse
  <2>1. rsp' \in ResponseStates BY <1>2, Zenon DEF PopResponse, TypeOK, ResponseStates, ResponsePcs, Entries
  <2>2. respRing' \subseteq Entries BY <1>2, Zenon DEF PopResponse, TypeOK
  <2> QED BY <1>2, <2>1, <2>2, Zenon DEF PopResponse, TypeOK
<1>3. CASE ResponseRingDrained
  <2>1. rsp' \in ResponseStates BY <1>3, ResponseGotoType, Zenon DEF ResponseRingDrained, ResponsePcs
  <2> QED BY <1>3, <2>1, Zenon DEF ResponseRingDrained, TypeOK
<1>4. CASE ReadNotificationGeneration
  <2>1. rsp' \in ResponseStates BY <1>4, ResponseGotoType, Zenon DEF ReadNotificationGeneration, ResponsePcs
  <2> QED BY <1>4, <2>1, Zenon DEF ReadNotificationGeneration, TypeOK
<1>5. CASE SyncActivePollSession
  <2>1. rsp' \in ResponseStates BY <1>5, Zenon DEF SyncActivePollSession, TypeOK, ResponseStates, ResponsePcs
  <2> QED BY <1>5, <2>1, Zenon DEF SyncActivePollSession, TypeOK
<1>6. CASE WaitForNotification
  <2>1. rsp' \in ResponseStates BY <1>6, ResponseGotoType, Zenon DEF WaitForNotification, ResponsePcs
  <2> QED BY <1>6, <2>1, Zenon DEF WaitForNotification, TypeOK
<1>7. CASE WaitForResponseSignal
  <2>1. rsp' \in ResponseStates
    BY <1>7, ConstantTypes, Zenon
       DEF WaitForResponseSignal, ResponseGoto, TypeOK, ResponseStates, ResponsePcs
  <2> QED BY <1>7, <2>1, Zenon DEF WaitForResponseSignal, TypeOK
<1>8. CASE ResponseBadEntry
  <2>1. rsp' \in ResponseStates
    BY <1>8, ConstantTypes, Zenon DEF ResponseBadEntry, TypeOK, ResponseStates, ResponsePcs, ReplyStatuses
  <2> QED BY <1>8, <2>1, Zenon DEF ResponseBadEntry, TypeOK
<1>9. CASE ResponseDeath
  <2>1. rsp' \in ResponseStates BY <1>9, ResponseGotoType, Zenon DEF ResponseDeath, ResponsePcs
  <2> QED BY <1>0, <1>9, <2>1, DeathType, Zenon DEF ResponseDeath, TypeOK, SectionTyped
<1>10. CASE ResponseDeathHandled
  <2>1. rsp' \in ResponseStates
    BY <1>10, ConstantTypes, Zenon DEF ResponseDeathHandled, TypeOK, ResponseStates, ResponsePcs
  <2> QED BY <1>10, <2>1, LeaveType, Zenon DEF ResponseDeathHandled, TypeOK
<1>11. CASE ResolveCompletedRequest
  <2>1. store' \in Stores BY <1>11, ConstantTypes, Zenon DEF ResolveCompletedRequest, TypeOK, Stores
  <2>2. store[rsp.req] \in Infos
    BY <1>11, Zenon DEF ResolveCompletedRequest, RepliesNameRequests, TypeOK, Stores
  <2>3. rsp' \in ResponseStates
    BY ZenonT(30), <1>0, <1>11, <2>2, DrainedType DEF ResolveCompletedRequest, ResponseStates, ResponsePcs
  <2>4. result' \in [Requests -> Results]
    BY <1>11, ResolveType, Zenon DEF ResolveCompletedRequest, TypeOK, Statuses
  <2> QED BY <1>11, <2>1, <2>3, <2>4, Zenon DEF ResolveCompletedRequest, TypeOK
<1>12. CASE ResponseFail
  <2>1. rsp' \in ResponseStates BY <1>12, ResponseGotoType, Zenon DEF ResponseFail, ResponsePcs
  <2> QED BY <1>0, <1>12, <2>1, FailureType, Zenon DEF ResponseFail, TypeOK, SectionTyped
<1>13. CASE ResponseFailed
  <2>1. result' \in [Requests -> Results]
    BY <1>0, <1>13, ResolveType, Zenon DEF ResponseFailed, RepliesNameRequests
  <2> QED BY <1>13, <2>1, LeaveType, DrainedType, Zenon DEF ResponseFailed, TypeOK
<1> QED BY <1>1, <1>2, <1>3, <1>4, <1>5, <1>6, <1>7, <1>8, <1>9, <1>10, <1>11, <1>12, <1>13, Zenon
        DEF ResponseWorker

\* WatchdogLoop going on keeps the type of its locals.
LEMMA WatchdogGotoType ==
    ASSUME TypeOK, NEW next \in WatchdogPcs, NEW observed \in SessionIds, WatchdogGoto(next, observed)
    PROVE  wd' \in WatchdogStates
BY Zenon DEF TypeOK, WatchdogGoto, WatchdogStates

\* Every step of WatchdogLoop preserves the types.
LEMMA WatchdogType == TypeOK /\ Watchdog => TypeOK'
<1> SUFFICES ASSUME TypeOK, Watchdog PROVE TypeOK' OBVIOUS
<1> USE DEF WatchdogFrame
<1>0. "watchdog" \in Threads /\ wd.observed \in SessionIds /\ None \in SessionIds /\ session \in SessionIds
  BY ConstantTypes, Zenon DEF Threads, TypeOK, WatchdogStates
<1>1. CASE TakeExpired
  <2>1. PICK E : /\ wd' = [wd EXCEPT !.pc = "expired",
                             !.taken = [r \in Requests |-> IF r \in E THEN store[r] ELSE Absent]]
                 /\ store' = [r \in Requests |-> IF r \in E THEN Absent ELSE store[r]]
    BY <1>1, Zenon DEF TakeExpired
  <2>2. /\ [r \in Requests |-> IF r \in E THEN store[r] ELSE Absent] \in Stores
        /\ [r \in Requests |-> IF r \in E THEN Absent ELSE store[r]] \in Stores
    BY ConstantTypes, Zenon DEF TypeOK, Stores
  <2>3. wd' \in WatchdogStates BY <2>1, <2>2, Zenon DEF TypeOK, WatchdogStates, WatchdogPcs
  <2> QED BY <1>1, <2>1, <2>2, <2>3, Zenon DEF TakeExpired, TypeOK
<1>2. CASE WatchdogFail
  <2>1. wd' \in WatchdogStates
    BY <1>2, ConstantTypes, Zenon DEF WatchdogFail, In, TypeOK, WatchdogStates, WatchdogPcs
  <2> QED BY <1>0, <1>2, <2>1, FailureType, Zenon DEF WatchdogFail, TypeOK, SectionTyped
<1>3. CASE WatchdogFailed
  <2>1. wd.taken \in Stores BY DEF TypeOK, WatchdogStates
  <2>2. [wd.taken EXCEPT ![wd.req] = Absent] \in Stores BY <2>1, ConstantTypes, Zenon DEF Stores
  <2>3. wd' = [wd EXCEPT !.pc = "expired", !.taken = [wd.taken EXCEPT ![wd.req] = Absent],
                         !.req = NoRequest]
    BY <1>3, Zenon DEF WatchdogFailed, TypeOK, WatchdogStates
  <2>4. wd' \in WatchdogStates BY <2>2, <2>3, ConstantTypes, Zenon DEF TypeOK, WatchdogStates, WatchdogPcs
  <2>5. result' \in [Requests -> Results] BY <1>3, ResolveType, Zenon DEF WatchdogFailed, Statuses
  <2> QED BY <1>3, <2>4, <2>5, LeaveType, Zenon DEF WatchdogFailed, TypeOK
<1>4. CASE MaybeRunHealthCheck
  <2>1. wd' \in WatchdogStates BY <1>0, <1>4, WatchdogGotoType, Zenon DEF MaybeRunHealthCheck, WatchdogPcs
  <2> QED BY <1>4, <2>1, Zenon DEF MaybeRunHealthCheck, TypeOK
<1>5. CASE RequestHealthCheckRecovery
  <2>1. wd' \in WatchdogStates BY <1>0, <1>5, WatchdogGotoType, Zenon DEF RequestHealthCheckRecovery, WatchdogPcs
  <2> QED BY <1>0, <1>5, <2>1, ExternalType, Zenon DEF RequestHealthCheckRecovery, TypeOK, SectionTyped
<1>6. CASE HealthCheckRecovered
  <2>1. wd' \in WatchdogStates BY <1>0, <1>6, WatchdogGotoType, Zenon DEF HealthCheckRecovered, WatchdogPcs
  <2> QED BY <1>6, <2>1, LeaveType, Zenon DEF HealthCheckRecovered, TypeOK
<1>7. CASE MaybeRunIdlePolicy
  <2>1. wd' \in WatchdogStates BY <1>0, <1>7, WatchdogGotoType, Zenon DEF MaybeRunIdlePolicy, WatchdogPcs
  <2> QED BY <1>7, <2>1, Zenon DEF MaybeRunIdlePolicy, TypeOK
<1>8. CASE HandleIdleRecovery
  <2>1. wd' \in WatchdogStates BY <1>0, <1>8, WatchdogGotoType, Zenon DEF HandleIdleRecovery, WatchdogPcs
  <2> QED BY <1>0, <1>8, <2>1, FailureType, Zenon DEF HandleIdleRecovery, TypeOK, SectionTyped
<1>9. CASE IdleRecoveryHandled
  <2>1. wd' \in WatchdogStates BY <1>0, <1>9, WatchdogGotoType, Zenon DEF IdleRecoveryHandled, WatchdogPcs
  <2> QED BY <1>9, <2>1, LeaveType, Zenon DEF IdleRecoveryHandled, TypeOK
<1>10. CASE WatchdogWait
  <2>1. wd' \in WatchdogStates BY <1>0, <1>10, WatchdogGotoType, Zenon DEF WatchdogWait, WatchdogPcs
  <2> QED BY <1>10, <2>1, Zenon DEF WatchdogWait, TypeOK
<1> QED BY <1>1, <1>2, <1>3, <1>4, <1>5, <1>6, <1>7, <1>8, <1>9, <1>10, Zenon DEF Watchdog

\* The death callback and RequestExternalRecovery preserve the types.
LEMMA CallbacksType == TypeOK /\ Callbacks => TypeOK'
<1> SUFFICES ASSUME TypeOK, Callbacks PROVE TypeOK' OBVIOUS
<1> USE DEF CallbackFrame
<1>0. /\ "death" \in Threads /\ "external" \in Threads
      /\ dth \in DeathStates /\ ext \in ExternalStates
      /\ ext.observed \in SessionIds /\ ext.delay \in {0, 1}
  BY Zenon DEF Threads, TypeOK, ExternalStates
<1>1. CASE BootstrapDeathCallback
  <2>1. dth' \in DeathStates
    <3>1. PICK d \in notices : dth' = [pc |-> "lock", observed |-> session, dead |-> d]
      BY <1>1, Zenon DEF BootstrapDeathCallback
    <3>2. d \in SessionIds /\ session \in SessionIds BY Zenon DEF TypeOK
    <3> QED BY <3>1, <3>2, Zenon DEF DeathStates, CallbackPcs
  <2>2. notices' \subseteq SessionIds BY <1>1, Zenon DEF BootstrapDeathCallback, TypeOK
  <2> QED BY <1>1, <2>1, <2>2, Zenon DEF BootstrapDeathCallback, TypeOK
<1>2. CASE HandleEngineDeath
  <2>1. dth' \in DeathStates BY <1>0, <1>2, Zenon DEF HandleEngineDeath, DeathStates, CallbackPcs
  <2> QED BY <1>0, <1>2, <2>1, DeathType, Zenon DEF HandleEngineDeath, TypeOK, SectionTyped
<1>3. CASE EngineDeathHandled
  BY <1>3, LeaveType, ResetTypes, Zenon DEF EngineDeathHandled, TypeOK
<1>4. CASE RequestExternalRecovery
  <2>1. ext' \in ExternalStates
    <3>1. PICK request \in SessionIds, delay \in {0, 1} :
             ext' = [pc |-> "lock", observed |-> session, request |-> request, delay |-> delay]
      BY <1>4, Zenon DEF RequestExternalRecovery
    <3>2. session \in SessionIds /\ "lock" \in CallbackPcs BY Zenon DEF TypeOK, CallbackPcs
    <3> QED BY <3>1, <3>2, Zenon DEF ExternalStates
  <2> QED BY <1>4, <2>1, Zenon DEF RequestExternalRecovery, TypeOK
<1>5. CASE HandleExternalRecovery
  <2>1. ext' \in ExternalStates BY <1>0, <1>5, Zenon DEF HandleExternalRecovery, ExternalStates, CallbackPcs
  <2> QED BY <1>0, <1>5, <2>1, ExternalType, Zenon DEF HandleExternalRecovery, TypeOK, SectionTyped
<1>6. CASE ExternalRecoveryHandled
  BY <1>6, LeaveType, ResetTypes, Zenon DEF ExternalRecoveryHandled, TypeOK
<1> QED BY <1>1, <1>2, <1>3, <1>4, <1>5, <1>6, Zenon DEF Callbacks

\* Init going on keeps the type of its locals.
LEMMA InitGotoType ==
    ASSUME TypeOK, NEW next \in InitPcs, InitGoto(next) PROVE ini' \in InitStates
BY ResetTypes, Zenon DEF TypeOK, InitGoto, InitStates

\* Every step of Init preserves the types.
LEMMA InitThreadType == TypeOK /\ InitThread => TypeOK'
<1> SUFFICES ASSUME TypeOK, InitThread PROVE TypeOK' OBVIOUS
<1> USE DEF InitFrame, InitOnly
<1>0. "init" \in Threads /\ "ensure" \in Steps BY Zenon DEF Threads, Steps
<1>1. CASE InitCall
  <2>1. ini' \in InitStates BY <1>1, ResetTypes, SMT, Z3 DEF InitCall, InitStates, InitPcs
  <2> QED BY <1>1, <2>1, Zenon DEF InitCall, TypeOK
<1>2. CASE PrepareForInitOpen
  <2>1. ini' \in InitStates BY <1>2, InitGotoType, Zenon DEF PrepareForInitOpen, InitPcs
  <2>2. lifecycle' \in ClientLifecycleState BY <1>2 DEF PrepareForInitOpen, ClientLifecycleState
  <2> QED BY <1>2, <2>1, <2>2, Zenon DEF PrepareForInitOpen, TypeOK
<1>3. CASE StartThreads
  <2>1. ini' \in InitStates BY <1>3, InitGotoType, Zenon DEF StartThreads, InitPcs
  <2> QED BY <1>3, <2>1, ResetTypes, Zenon DEF StartThreads, TypeOK
<1>4. CASE InitEnsure
  <2>1. ini' \in InitStates BY <1>4, InitGotoType, Zenon DEF InitEnsure, InitPcs
  <2> QED BY <1>0, <1>4, <2>1, EnterType, Zenon DEF InitEnsure, TypeOK, SectionTyped
<1>5. CASE InitEnsured
  <2>1. ini' \in InitStates BY <1>5, InitGotoType, Zenon DEF InitEnsured, InitPcs
  <2> QED BY <1>5, <2>1, LeaveType, Zenon DEF InitEnsured, TypeOK
<1>6. CASE InitFailed
  <2>1. ini' \in InitStates BY <1>6, InitGotoType, Zenon DEF InitFailed, InitPcs
  <2>2. shut' \in ShutdownStates BY <1>6, Zenon DEF InitFailed, TypeOK, ShutdownStates, ShutdownPcs
  <2>3. control' \in ApiLifecycleState BY <1>6, Zenon DEF InitFailed, TypeOK, ApiLifecycleState
  <2> QED BY <1>6, <2>1, <2>2, <2>3, Zenon DEF InitFailed, TypeOK
<1>7. CASE InitShutdownReturned
  <2>1. ini' \in InitStates BY <1>7, InitGotoType, Zenon DEF InitShutdownReturned, InitPcs
  <2> QED BY <1>7, <2>1, Zenon DEF InitShutdownReturned, TypeOK
<1>8. CASE FinishInit
  <2>1. ini' \in InitStates BY <1>8, InitGotoType, Zenon DEF FinishInit, InitPcs
  <2>2. control' \in ApiLifecycleState BY <1>8, Zenon DEF FinishInit, TypeOK, ApiLifecycleState
  <2> QED BY <1>8, <2>1, <2>2, Zenon DEF FinishInit, TypeOK
<1> QED BY <1>1, <1>2, <1>3, <1>4, <1>5, <1>6, <1>7, <1>8, Zenon DEF InitThread

\* Shutdown going on keeps the type of its locals.
LEMMA ShutdownGotoType ==
    ASSUME TypeOK, NEW next \in ShutdownPcs, ShutdownGoto(next) PROVE shut' \in ShutdownStates
BY DEF TypeOK, ShutdownGoto, ShutdownStates

\* Every step of Shutdown preserves the types.
LEMMA ShutdownType == TypeOK /\ (BeginShutdown \/ ShutdownSteps) => TypeOK'
<1> SUFFICES ASSUME TypeOK, BeginShutdown \/ ShutdownSteps PROVE TypeOK' OBVIOUS
<1> USE DEF ShutdownFrame
<1>0. "shutdown" \in Threads /\ "terminalClose" \in Steps BY DEF Threads, Steps
<1>1. CASE BeginShutdown
  <2>1. shut' \in ShutdownStates BY <1>1, ShutdownGotoType, Zenon DEF BeginShutdown, ShutdownPcs
  <2> QED BY <1>1, <2>1, Zenon DEF BeginShutdown, TypeOK, ApiLifecycleState
<1>2. CASE ShutdownClose
  <2>1. shut' \in ShutdownStates BY <1>2, ShutdownGotoType, Zenon DEF ShutdownClose, ShutdownPcs
  <2> QED BY <1>0, <1>2, <2>1, EnterType, Zenon DEF ShutdownClose, TypeOK, SectionTyped
<1>3. CASE ShutdownClosed
  <2>1. shut' \in ShutdownStates BY <1>3, ShutdownGotoType, Zenon DEF ShutdownClosed, ShutdownPcs
  <2> QED BY <1>3, <2>1, LeaveType, Zenon DEF ShutdownClosed, TypeOK
<1>4. CASE StopThreads
  <2>1. shut' \in ShutdownStates BY <1>4, ShutdownGotoType, Zenon DEF StopThreads, ShutdownPcs
  <2> QED BY <1>4, <2>1, Zenon DEF StopThreads, TypeOK
<1>5. CASE JoinThreads
  <2>1. shut' \in ShutdownStates BY <1>5, ShutdownGotoType, Zenon DEF JoinThreads, ShutdownPcs
  <2> QED BY <1>5, <2>1, Zenon DEF JoinThreads, TypeOK
<1>6. CASE ShutdownTakeAll
  <2>1. shut' \in ShutdownStates BY <1>6, Zenon DEF ShutdownTakeAll, TypeOK, ShutdownStates, ShutdownPcs
  <2> QED BY <1>6, <2>1, ConstantTypes, Zenon DEF ShutdownTakeAll, TypeOK
<1>7. CASE ShutdownFailPending
  <2>1. shut' \in ShutdownStates
    BY <1>7, ConstantTypes, Zenon DEF ShutdownFailPending, ShutdownStates, ShutdownPcs
  <2>2. result' \in [Requests -> Results] BY <1>7, ResolveType, Zenon DEF ShutdownFailPending, Statuses
  <2> QED BY <1>7, <2>1, <2>2, Zenon DEF ShutdownFailPending, TypeOK
<1>8. CASE FailQueuedSubmissions
  <2>1. shut' \in ShutdownStates BY <1>8, ShutdownGotoType, Zenon DEF FailQueuedSubmissions, ShutdownPcs
  <2>2. result' \in [Requests -> Results] BY <1>8, ResolveType, Zenon DEF FailQueuedSubmissions, Statuses
  <2> QED BY <1>8, <2>1, <2>2, Zenon DEF FailQueuedSubmissions, TypeOK
<1>9. CASE FinishShutdown
  <2>1. shut' \in ShutdownStates BY <1>9, ShutdownGotoType, Zenon DEF FinishShutdown, ShutdownPcs
  <2> QED BY <1>9, <2>1, Zenon DEF FinishShutdown, TypeOK, ApiLifecycleState
<1> QED BY <1>1, <1>2, <1>3, <1>4, <1>5, <1>6, <1>7, <1>8, <1>9, Zenon DEF ShutdownSteps

\* Every step of the engine preserves the types.
LEMMA EngineType == TypeOK /\ Engine => TypeOK'
<1> SUFFICES ASSUME TypeOK, Engine PROVE TypeOK' BY Zenon
<1> USE DEF EngineFrame
<1>1. CASE EngineReply
  <2>1. respRing' \subseteq Entries
    <3>1. PICK r \in reqRing, status \in {"Ok", "Failed"} :
             respRing' = respRing \cup {[req |-> r, status |-> status]}
      BY <1>1, Zenon DEF EngineReply
    <3>2. respRing \subseteq Entries /\ r \in MaybeRequest /\ status \in ReplyStatuses
      BY ConstantTypes, Zenon DEF TypeOK, ReplyStatuses
    <3>3. [req |-> r, status |-> status] \in Entries BY <3>2, Zenon DEF Entries
    <3> QED BY <3>1, <3>2, <3>3, Zenon
  <2>2. reqRing' \subseteq Requests /\ reqCredit' \in BOOLEAN BY <1>1, Zenon DEF EngineReply, TypeOK
  <2> QED BY <1>1, <2>1, <2>2, Zenon DEF EngineReply, TypeOK
<1>2. CASE EngineBadEntry
  <2>1. respRing' \subseteq Entries
    <3>1. [req |-> NoRequest, status |-> "Bad"] \in Entries
      BY ConstantTypes, Zenon DEF Entries, ReplyStatuses
    <3>2. respRing \subseteq Entries BY Zenon DEF TypeOK
    <3> QED BY <1>2, <3>1, <3>2, Zenon DEF EngineBadEntry
  <2> QED BY <1>2, <2>1, Zenon DEF EngineBadEntry, TypeOK
<1>3. CASE EngineBreakSession BY <1>3, Zenon DEF EngineBreakSession, TypeOK
<1>4. CASE EngineDies BY <1>4, ConstantTypes, Zenon DEF EngineDies, ClearRings, TypeOK
<1> QED BY <1>1, <1>2, <1>3, <1>4, Zenon DEF Engine

\* InvokeAsync and the end of a cooldown preserve the types.
LEMMA CallerType == TypeOK /\ Caller => TypeOK'
<1> SUFFICES ASSUME TypeOK, Caller PROVE TypeOK' OBVIOUS
<1>1. CASE CooldownExpires BY <1>1, Zenon DEF CooldownExpires, TypeOK
<1>2. ASSUME NEW r \in Requests, InvokeAsync(r) PROVE TypeOK'
  <2>1. result' \in [Requests -> Results] BY <1>2, Zenon DEF InvokeAsync, TypeOK, Results, Statuses
  <2>2. admitting' \in MaybeRequest BY <1>2, ConstantTypes, Zenon DEF InvokeAsync, TypeOK
  <2> QED BY <1>2, <2>1, <2>2, Zenon DEF InvokeAsync, TypeOK
<1>3. CASE EnqueueSubmit BY <1>3, ConstantTypes, Zenon DEF EnqueueSubmit, TypeOK, MaybeRequest
<1> QED BY <1>1, <1>2, <1>3, Zenon DEF Caller

\* What type correctness needs besides: TypeOK alone is not inductive.
TypeInv == TypeOK /\ BusyHasRequest /\ RepliesNameRequests

\* SubmitWorker never goes on with a request it has given away.
LEMMA BusyStep == TypeOK /\ BusyHasRequest /\ [Next]_vars => BusyHasRequest'
<1> SUFFICES ASSUME TypeOK, BusyHasRequest, [Next]_vars PROVE BusyHasRequest' BY Zenon
<1>0. sub \in SubmitStates BY DEF TypeOK
<1>1. CASE sub' = sub BY <1>1, Zenon DEF BusyHasRequest
<1>2. CASE SubmitPop BY <1>0, <1>2, Zenon DEF SubmitPop, BusyHasRequest, TypeOK, SubmitStates
<1>3. CASE sub' = IdleSubmit BY <1>3 DEF IdleSubmit, BusyHasRequest
<1>4. CASE SubmitExit BY <1>0, <1>4, Zenon DEF SubmitExit, SubmitGoto, BusyHasRequest, SubmitStates
<1>5. ASSUME sub.pc \notin {"stopped", "idle"},
             (\E next : SubmitGoto(next)) \/ (\E status : SubmitGiveUp(status))
      PROVE BusyHasRequest'
  BY <1>0, <1>5, Zenon DEF SubmitGoto, SubmitGiveUp, BusyHasRequest, SubmitStates
<1>6. CASE SubmitWorker
  <2>1. CASE SubmitPop \/ SubmitExit BY <2>1, <1>2, <1>4, Zenon
  <2>2. CASE SubmitEnsure \/ SubmitStopped \/ SubmitEnsured \/ WaitForRecoveryState
    BY <2>2, <1>5, Zenon DEF SubmitEnsure, SubmitStopped, SubmitEnsured, WaitForRecoveryState
  <2>3. CASE TryPushRequest \/ PushRequest \/ PushRequestRecheck
    BY <2>3, <1>3, <1>5, Zenon DEF TryPushRequest, PushRequest, PushRequestRecheck
  <2>4. CASE NoRequestCreditHandle \/ SubmitClose \/ SubmitClosed \/ SubmitFail \/ SubmitFailed
    BY <2>4, <1>3, <1>5, Zenon DEF NoRequestCreditHandle, SubmitClose, SubmitClosed, SubmitFail, SubmitFailed
  <2>5. CASE SyncActiveRequestCreditWait
    BY <1>0, <2>5, Zenon DEF SyncActiveRequestCreditWait, BusyHasRequest, SubmitStates
  <2>6. CASE WaitForRequestCredit
    BY <1>0, <2>6, Zenon DEF WaitForRequestCredit, BusyHasRequest, SubmitStates
  <2> QED BY <1>6, <2>1, <2>2, <2>3, <2>4, <2>5, <2>6, Zenon DEF SubmitWorker
<1>7. ~SubmitWorker => sub' = sub \/ sub' = IdleSubmit
  BY Zenon, StepCases, SectionLeaves, CallerLeaves, ResponseLeaves, WatchdogLeaves, CallbacksLeave,
     InitThreadLeaves, ShutdownLeaves, EngineLeaves DEF vars
<1> QED BY <1>1, <1>3, <1>6, <1>7, Zenon

\* The engine replies only to requests it took from its ring, and the worker pops only replies.
LEMMA RepliesStep == TypeOK /\ RepliesNameRequests /\ [Next]_vars => RepliesNameRequests'
<1> SUFFICES ASSUME TypeOK, RepliesNameRequests, [Next]_vars PROVE RepliesNameRequests' BY Zenon
<1>0. rsp \in ResponseStates BY Zenon DEF TypeOK
<1>1. ASSUME respRing' \subseteq respRing, rsp' = rsp \/ rsp' = IdleResponse PROVE RepliesNameRequests'
  <2>1. IdleResponse.pc = "check" BY Zenon DEF IdleResponse
  <2> QED BY <1>1, <2>1, Zenon DEF RepliesNameRequests
<1>2. CASE Section
  <2>1. respRing' \subseteq respRing
    BY <1>2, Zenon DEF Section, SectionFrame, CloseLiveSessionIfSnapshotMatches, EnterIdleClosed,
       HandlePendingRequestsForRecovery, HandleEngineDeathPolicy, EnsureLiveSession, OpenSession,
       AttachSession, FinalizeSessionOpen, HandleSessionOpenFailure, CloseLiveSession,
       EnterTerminalClosed, HostCloseSession, ClearRings
  <2> QED BY <1>1, <1>2, <2>1, SectionLeaves, Zenon
<1>3. CASE Caller \/ SubmitWorker \/ Watchdog \/ Callbacks \/ InitThread \/ UNCHANGED vars
  BY <1>1, <1>3, CallerLeaves, SubmitLeaves, WatchdogLeaves, CallbacksLeave, InitThreadLeaves, Zenon DEF vars
<1>4. CASE BeginShutdown \/ ShutdownSteps BY <1>1, <1>4, ShutdownLeaves, Zenon
<1>5. CASE Engine
  <2>1. CASE EngineReply
    <3>1. PICK r \in reqRing, status \in {"Ok", "Failed"} :
             respRing' = respRing \cup {[req |-> r, status |-> status]}
      BY <2>1, Zenon DEF EngineReply
    <3>2. r \in Requests BY Zenon DEF TypeOK
    <3>3. ASSUME NEW e \in respRing', e.status # "Bad" PROVE e.req \in Requests
      <4>1. e \in respRing \/ e = [req |-> r, status |-> status] BY <3>1, Zenon
      <4>2. CASE e \in respRing BY <3>3, <4>2, Zenon DEF RepliesNameRequests
      <4>3. CASE e = [req |-> r, status |-> status] BY <3>2, <4>3, Zenon
      <4> QED BY <4>1, <4>2, <4>3, Zenon
    <3> QED BY <1>5, <3>3, EngineLeaves, Zenon DEF RepliesNameRequests
  <2>2. CASE EngineBadEntry
    <3>0. respRing' = respRing \cup {[req |-> NoRequest, status |-> "Bad"]}
      BY <2>2, Zenon DEF EngineBadEntry
    <3>1. [req |-> NoRequest, status |-> "Bad"].status = "Bad" OBVIOUS
    <3>2. \A e \in respRing' : e.status # "Bad" => e.req \in Requests
      BY <3>0, <3>1, Zenon DEF RepliesNameRequests
    <3> QED BY <1>5, <3>2, EngineLeaves, Zenon DEF RepliesNameRequests
  <2>3. CASE EngineBreakSession \/ EngineDies
    <3>1. respRing' \subseteq respRing BY <2>3 DEF EngineBreakSession, EngineDies, ClearRings
    <3> QED BY <1>1, <1>5, <3>1, EngineLeaves, Zenon
  <2> QED BY <1>5, <2>1, <2>2, <2>3, Zenon DEF Engine
<1>6. CASE PopResponse
  BY <1>0, <1>6, ZenonT(60) DEF PopResponse, RepliesNameRequests, ResponseStates
<1>7. ASSUME respRing' = respRing, NEW pc \in {"drain", "check", "ready", "sync", "await", "poll",
                                            "death", "dying", "stopped"}, rsp'.pc = pc
      PROVE RepliesNameRequests'
  BY <1>7, Zenon DEF RepliesNameRequests
<1>8. CASE ResponseWorker /\ ~PopResponse
  <2>1. respRing' = respRing
    BY <1>8, Zenon DEF ResponseWorker, ResponseFrame, ResponseOnly, ResponseCheckRunning,
       ResponseRingDrained, ReadNotificationGeneration, SyncActivePollSession, WaitForNotification,
       WaitForResponseSignal, ResponseBadEntry, ResponseDeath, ResponseDeathHandled,
       ResolveCompletedRequest, ResponseFail, ResponseFailed
  <2>2. CASE ResolveCompletedRequest
    BY <1>0, <2>1, <2>2, Zenon DEF ResolveCompletedRequest, Drained, RepliesNameRequests, ResponseStates
  <2>3. CASE ResponseFail
    BY <1>0, <2>1, <2>3, Zenon DEF ResponseFail, ResponseGoto, RepliesNameRequests, ResponseStates
  <2>4. CASE ResponseCheckRunning \/ ResponseRingDrained \/ ReadNotificationGeneration
    BY <1>0, <1>7, <2>1, <2>4, Zenon DEF ResponseCheckRunning, IdleResponse, ResponseRingDrained,
       ReadNotificationGeneration, ResponseGoto, ResponseStates
  <2>5. CASE SyncActivePollSession \/ WaitForNotification \/ WaitForResponseSignal
    BY <1>0, <1>7, <2>1, <2>5, Zenon DEF SyncActivePollSession, WaitForNotification,
       WaitForResponseSignal, ResponseGoto, ResponseStates
  <2>6. CASE ResponseBadEntry \/ ResponseDeath \/ ResponseDeathHandled \/ ResponseFailed
    BY ZenonT(30), <1>0, <1>7, <2>1, <2>6 DEF ResponseBadEntry, ResponseDeath, ResponseDeathHandled,
       ResponseFailed, Drained, ResponseGoto, ResponseStates
  <2> QED BY <1>8, <2>2, <2>3, <2>4, <2>5, <2>6, Zenon DEF ResponseWorker
<1> QED BY <1>2, <1>3, <1>4, <1>5, <1>6, <1>8, StepCases, Zenon

\* The inductive invariant behind type correctness holds in every reachable state.
LEMMA TypeInvariant == Spec => []TypeInv
<1>1. Init => TypeInv
  BY InitType, Zenon DEF Init, IdleSubmit, IdleResponse, TypeInv, BusyHasRequest, RepliesNameRequests
<1>2. TypeInv /\ [Next]_vars => TypeInv'
  <2> SUFFICES ASSUME TypeInv, [Next]_vars PROVE TypeInv' BY Zenon
  <2>1. TypeOK'
    <3>1. CASE UNCHANGED vars BY <3>1, Zenon DEF vars, TypeInv, TypeOK
    <3> QED BY <3>1, StepCases, SectionType, CallerType, SubmitType, ResponseType, WatchdogType, Zenon,
               CallbacksType, InitThreadType, ShutdownType, EngineType DEF TypeInv
  <2> QED BY <2>1, BusyStep, RepliesStep, Zenon DEF TypeInv
<1> QED BY <1>1, <1>2, PTL DEF Spec

\* Type correctness of the client for every set of requests, every number of
\* sessions and every ring capacity: no interleaving of the worker threads,
\* callbacks, Init and Shutdown of rpc_client.cpp leaves the types.
THEOREM TypeCorrect == Spec => []TypeOK
BY TypeInvariant, PTL DEF TypeInv

-----------------------------------------------------------------------------
(* The steps of a lifecycleMutex_ section.                                  *)

\* No pending record belongs to session 0.
StoreInv == \A r \in Requests : store[r] # None

\* What holds at each step of the section that runs.
SectionInv ==
    /\ sec.owner = "none" => sec.step = "none"
    /\ sec.step \in {"close", "idleClose"} => session \in {None, sec.observed}
    /\ sec.step \in {"pending", "deathPolicy", "idleEnter", "open", "attach", "openFailed",
                     "terminalEnter"} => session = None
    /\ sec.step \in {"open", "attach", "finalize", "openFailed"} => ~cooldown

\* A thread enters the free section: at a step without conditions, or at a
\* close whose observed session it has compared with the snapshot.
EntersSection ==
    /\ sec.owner = "none" /\ sec'.owner # "none"
    /\ \/ /\ sec'.step \in {"ensure", "transportClose", "terminalClose", "done"}
          /\ UNCHANGED <<lifecycle, cooldown>>
       \/ sec'.step \in {"close", "idleClose"} /\ sec'.observed = session

\* All that a step outside the section does to it.
LeavesSectionAlone ==
    /\ session' = session
    /\ \/ /\ sec' = sec /\ (cooldown' => cooldown)
          /\ lifecycle' = lifecycle \/ ini.pc = "prepare"
       \/ sec.step = "done" /\ sec' = NoSection /\ UNCHANGED <<lifecycle, cooldown>>
       \/ EntersSection

\* The empty section belongs to nobody and is at no step.
LEMMA NoSectionFields ==
    /\ NoSection.owner = "none" /\ NoSection.step = "none"
    /\ NoSection \in Sections
BY ResetTypes DEF NoSection

\* EnsureLiveSession, the transport close and Shutdown enter a free section at its first step.
LEMMA EnterEnters ==
    ASSUME NEW t, t # "none", NEW next \in {"ensure", "transportClose", "terminalClose"}, Enter(t, next)
    PROVE  EntersSection
BY NoSectionFields DEF Enter, EntersSection, NoSection

\* A failure decision enters a free section, at a close only of the session it compared.
LEMMA FailureEnters ==
    ASSUME NEW t, t # "none", NEW info, ApplyFailureRecoveryDecision(t, info)
    PROVE  EntersSection
BY Zenon DEF ApplyFailureRecoveryDecision, NothingToDo, IdleClose, ScheduleRecovery, EntersSection, NoSection

\* An external recovery enters a free section, at a close only of the session it compared.
LEMMA ExternalEnters ==
    ASSUME NEW t, t # "none", NEW observed, NEW requested, NEW delay,
           ApplyExternalRecovery(t, observed, requested, delay)
    PROVE  EntersSection
BY ZenonT(60) DEF ApplyExternalRecovery, NothingToDo, ScheduleRecovery, EntersSection, NoSection

\* A death notice enters a free section, at a close only of the session it compared.
LEMMA DeathEnters ==
    ASSUME NEW t, t # "none", NEW observed, NEW dead, ApplyEngineDeath(t, observed, dead)
    PROVE  EntersSection
BY Zenon DEF ApplyEngineDeath, NothingToDo, EntersSection, NoSection

\* Only the owner of lifecycleMutex_ attaches or closes a session or starts a cooldown.
LEMMA OutsideSection == [Next]_vars /\ ~Section => LeavesSectionAlone
<1> SUFFICES ASSUME [Next]_vars, ~Section PROVE LeavesSectionAlone OBVIOUS
<1> USE DEF Leave, Returned
<1>1. ASSUME session' = session, UNCHANGED <<sec, recovery>> PROVE LeavesSectionAlone
  BY <1>1, Zenon DEF LeavesSectionAlone
<1>2. ASSUME session' = session, EntersSection PROVE LeavesSectionAlone
  BY <1>2, Zenon DEF LeavesSectionAlone
<1>3. ASSUME session' = session, sec.step = "done", sec' = NoSection, UNCHANGED recovery
      PROVE  LeavesSectionAlone
  BY <1>3, Zenon DEF LeavesSectionAlone
<1>4. CASE Caller
  <2>1. session' = session /\ sec' = sec /\ lifecycle' = lifecycle BY <1>4, CallerLeaves, Zenon
  <2>2. cooldown' => cooldown
    BY <1>4, Zenon DEF Caller, CooldownExpires, InvokeAsync, EnqueueSubmit, recovery
  <2> QED BY <2>1, <2>2, Zenon DEF LeavesSectionAlone
<1>5. CASE SubmitWorker
  <2>1. session' = session BY <1>5, SubmitLeaves, SMT, Z3
  <2>2. CASE SubmitEnsure \/ SubmitClose
    BY <1>2, <2>1, <2>2, EnterEnters, Zenon DEF SubmitEnsure, SubmitClose
  <2>3. CASE SubmitFail BY <1>2, <2>1, <2>3, FailureEnters, Zenon DEF SubmitFail
  <2>4. CASE SubmitEnsured \/ SubmitClosed \/ SubmitFailed
    BY <1>3, <2>1, <2>4, Zenon DEF SubmitEnsured, SubmitClosed, SubmitFailed
  <2>5. CASE SubmitPop \/ SubmitExit \/ SubmitStopped \/ WaitForRecoveryState \/ TryPushRequest
    BY <1>1, <2>1, <2>5, Zenon DEF SubmitOnly, SubmitPop, SubmitExit, SubmitStopped, WaitForRecoveryState,
       TryPushRequest
  <2>6. CASE PushRequest \/ PushRequestRecheck
    BY <1>1, <2>1, <2>6, Zenon DEF PushRequest, PushRequestRecheck
  <2>7. CASE SyncActiveRequestCreditWait \/ NoRequestCreditHandle
    BY <1>1, <2>1, <2>7, Zenon DEF SubmitOnly, SyncActiveRequestCreditWait, NoRequestCreditHandle
  <2>8. CASE WaitForRequestCredit
    BY <1>1, <2>1, <2>8, Zenon DEF WaitForRequestCredit
  <2> QED BY <1>5, <2>2, <2>3, <2>4, <2>5, <2>6, <2>7, <2>8, Zenon DEF SubmitWorker
<1>6. CASE ResponseWorker
  <2>1. session' = session BY <1>6, ResponseLeaves, Zenon
  <2>2. CASE ResponseDeath BY <1>2, <2>1, <2>2, DeathEnters, Zenon DEF ResponseDeath
  <2>3. CASE ResponseFail BY <1>2, <2>1, <2>3, FailureEnters, Zenon DEF ResponseFail
  <2>4. CASE ResponseDeathHandled \/ ResponseFailed
    BY <1>3, <2>1, <2>4, Zenon DEF ResponseDeathHandled, ResponseFailed
  <2>5. CASE ResponseCheckRunning \/ PopResponse \/ ResponseRingDrained \/ SyncActivePollSession
    BY <1>1, <2>1, <2>5, Zenon DEF ResponseOnly, ResponseCheckRunning, PopResponse, ResponseRingDrained,
       SyncActivePollSession
  <2>6. CASE \/ WaitForNotification \/ WaitForResponseSignal \/ ResponseBadEntry
             \/ ResolveCompletedRequest
    BY <1>1, <2>1, <2>6, Zenon DEF ResponseOnly, WaitForNotification, WaitForResponseSignal,
       ResponseBadEntry, ResolveCompletedRequest
  <2>7. CASE ReadNotificationGeneration
    BY <2>1, <2>7, Zenon DEF ReadNotificationGeneration, LeavesSectionAlone
  <2> QED BY <1>6, <2>2, <2>3, <2>4, <2>5, <2>6, <2>7, Zenon DEF ResponseWorker
<1>7. CASE Watchdog
  <2>1. session' = session BY <1>7, WatchdogLeaves, Zenon
  <2>2. CASE WatchdogFail \/ HandleIdleRecovery
    BY <1>2, <2>1, <2>2, FailureEnters, Zenon DEF WatchdogFail, HandleIdleRecovery
  <2>3. CASE RequestHealthCheckRecovery
    BY <1>2, <2>1, <2>3, ExternalEnters, Zenon DEF RequestHealthCheckRecovery
  <2>4. CASE WatchdogFailed \/ HealthCheckRecovered \/ IdleRecoveryHandled
    BY <1>3, <2>1, <2>4, Zenon DEF WatchdogFailed, HealthCheckRecovered, IdleRecoveryHandled
  <2>5. CASE TakeExpired \/ MaybeRunHealthCheck \/ MaybeRunIdlePolicy \/ WatchdogWait
    BY <1>1, <2>1, <2>5, Zenon DEF TakeExpired, MaybeRunHealthCheck, MaybeRunIdlePolicy, WatchdogWait
  <2> QED BY <1>7, <2>2, <2>3, <2>4, <2>5, Zenon DEF Watchdog
<1>8. CASE Callbacks
  <2>1. session' = session BY <1>8, CallbacksLeave, SMT, Z3
  <2>2. CASE HandleEngineDeath BY <1>2, <2>1, <2>2, DeathEnters, Zenon DEF HandleEngineDeath
  <2>3. CASE HandleExternalRecovery BY <1>2, <2>1, <2>3, ExternalEnters, Zenon DEF HandleExternalRecovery
  <2>4. CASE EngineDeathHandled \/ ExternalRecoveryHandled
    BY <1>3, <2>1, <2>4, Zenon DEF EngineDeathHandled, ExternalRecoveryHandled
  <2>5. CASE BootstrapDeathCallback \/ RequestExternalRecovery
    BY <1>1, <2>1, <2>5, Zenon DEF BootstrapDeathCallback, RequestExternalRecovery
  <2> QED BY <1>8, <2>2, <2>3, <2>4, <2>5, Zenon DEF Callbacks
<1>9. CASE InitThread
  <2>1. session' = session BY <1>9, InitThreadLeaves, Zenon
  <2>2. CASE InitEnsure BY <1>2, <2>1, <2>2, EnterEnters, Zenon DEF InitEnsure
  <2>3. CASE InitEnsured BY <1>3, <2>1, <2>3, Zenon DEF InitEnsured
  <2>4. CASE ~(InitEnsure \/ InitEnsured)
    BY <1>9, <2>1, <2>4, SMT, Z3 DEF LeavesSectionAlone, InitThread, InitOnly, InitCall, PrepareForInitOpen,
       StartThreads, InitFailed, InitShutdownReturned, FinishInit
  <2> QED BY <2>2, <2>3, <2>4, Zenon
<1>10. CASE BeginShutdown \/ ShutdownSteps
  <2>1. session' = session BY <1>10, ShutdownLeaves, Zenon
  <2>2. CASE ShutdownClose BY <1>2, <2>1, <2>2, EnterEnters, Zenon DEF ShutdownClose
  <2>3. CASE ShutdownClosed BY <1>3, <2>1, <2>3, Zenon DEF ShutdownClosed
  <2>4. CASE ~(ShutdownClose \/ ShutdownClosed)
    <3>1. UNCHANGED <<sec, lifecycle, cooldown>>
      BY <1>10, <2>4, Zenon DEF BeginShutdown, ShutdownSteps, StopThreads, JoinThreads,
         ShutdownTakeAll, ShutdownFailPending, FailQueuedSubmissions, FinishShutdown, recovery
    <3> QED BY <2>1, <3>1, Zenon DEF LeavesSectionAlone
  <2> QED BY <2>2, <2>3, <2>4, Zenon
<1>11. CASE Engine BY <1>1, <1>11, EngineLeaves, Zenon
<1>12. CASE UNCHANGED vars BY <1>1, <1>12, Zenon DEF vars
<1> QED BY <1>4, <1>5, <1>6, <1>7, <1>8, <1>9, <1>10, <1>11, <1>12, StepCases

\* Every step of every thread preserves what the owner of the section relies on.
LEMMA SectionInvStep == TypeOK /\ SectionInv /\ [Next]_vars => SectionInv'
<1> SUFFICES ASSUME TypeOK, SectionInv, [Next]_vars PROVE SectionInv' BY Zenon
<1>0. sec \in Sections BY DEF TypeOK
<1>1. CASE ~Section
  BY <1>1, OutsideSection, NoSectionFields, Zenon DEF LeavesSectionAlone, EntersSection, SectionInv
<1>2. CASE CloseLiveSessionIfSnapshotMatches
  BY <1>0, <1>2, Zenon DEF CloseLiveSessionIfSnapshotMatches, SectionInv, Goto, Sections
<1>3. CASE EnterIdleClosed BY <1>0, <1>3, Zenon DEF EnterIdleClosed, SectionInv, Goto, Sections
<1>4. CASE HandlePendingRequestsForRecovery
  BY <1>0, <1>4, Zenon DEF HandlePendingRequestsForRecovery, SectionInv, Goto, Sections
<1>5. CASE HandleEngineDeathPolicy
  BY <1>0, <1>5, ZenonT(60) DEF HandleEngineDeathPolicy, SectionInv, Goto, NothingToDo, IdleClose,
     ScheduleRecovery, Sections
<1>6. CASE EnsureLiveSession
  <2>1. CASE Goto("open") /\ session = None /\ ~cooldown
    BY <1>0, <1>6, <2>1, Zenon DEF EnsureLiveSession, SectionInv, Goto, Sections
  <2>2. CASE \E status : Return(status)
    BY <1>0, <1>6, <2>2, Zenon DEF EnsureLiveSession, SectionInv, Return, Sections
  <2> QED BY <1>6, <2>1, <2>2 DEF EnsureLiveSession
<1>7. CASE OpenSession
  BY <1>0, <1>7, Zenon DEF OpenSession, OpenFailed, SectionInv, Sections
<1>8. CASE AttachSession
  BY <1>0, <1>8, Zenon DEF AttachSession, OpenFailed, Goto, SectionInv, Sections
<1>9. CASE FinalizeSessionOpen
  BY <1>0, <1>9, Zenon DEF FinalizeSessionOpen, Return, SectionInv, Sections
<1>10. CASE HandleSessionOpenFailure
  BY <1>0, <1>10, Zenon DEF HandleSessionOpenFailure, Goto, SectionInv, Sections
<1>11. CASE CloseLiveSession BY <1>0, <1>11, Zenon DEF CloseLiveSession, Goto, SectionInv, Sections
<1>12. CASE EnterTerminalClosed BY <1>0, <1>12, Zenon DEF EnterTerminalClosed, Goto, SectionInv, Sections
<1> QED BY <1>1, <1>2, <1>3, <1>4, <1>5, <1>6, <1>7, <1>8, <1>9, <1>10, <1>11, <1>12, Zenon DEF Section

\* A request is put into the store only for an attached session.
LEMMA StoreInvStep == TypeInv /\ StoreInv /\ [Next]_vars => StoreInv'
<1> SUFFICES ASSUME TypeInv, StoreInv, [Next]_vars PROVE StoreInv' BY Zenon
<1> USE DEF None, Absent
<1>0. store \in Stores BY Zenon DEF TypeInv, TypeOK
<1>1. ASSUME \A r \in Requests : store'[r] \in {store[r], Absent} PROVE StoreInv'
  BY <1>1, SMT, Z3 DEF StoreInv
<1>2. CASE Section
  BY ZenonT(30), <1>0, <1>1, <1>2 DEF Section, CloseLiveSessionIfSnapshotMatches, EnterIdleClosed,
     HandlePendingRequestsForRecovery, HandleEngineDeathPolicy, EnsureLiveSession, OpenSession,
     AttachSession, FinalizeSessionOpen, HandleSessionOpenFailure, CloseLiveSession,
     EnterTerminalClosed, EmptyStore
<1>3. CASE TryPushRequest
  BY <1>0, <1>3, Zenon DEF TryPushRequest, StoreInv, Stores
<1>4. CASE SubmitWorker /\ ~TryPushRequest
  BY <1>0, <1>1, <1>4, Zenon DEF SubmitWorker, SubmitOnly, SubmitPop, SubmitExit, SubmitEnsure,
     SubmitStopped, SubmitEnsured, WaitForRecoveryState, PushRequest, PushRequestRecheck,
     SyncActiveRequestCreditWait, NoRequestCreditHandle, WaitForRequestCredit, SubmitClose,
     SubmitClosed, SubmitFail, SubmitFailed, TakeBack, Stores
<1>5. CASE ResponseWorker
  BY Zenon, <1>0, <1>1, <1>5 DEF ResponseWorker, ResponseOnly, ResponseCheckRunning, PopResponse,
     ResponseRingDrained, ReadNotificationGeneration, SyncActivePollSession, WaitForNotification,
     WaitForResponseSignal, ResponseBadEntry, ResponseDeath, ResponseDeathHandled,
     ResolveCompletedRequest, ResponseFail, ResponseFailed, Stores
<1>6. CASE Watchdog
  BY <1>0, <1>1, <1>6, Zenon DEF Watchdog, TakeExpired, WatchdogFail, WatchdogFailed,
     MaybeRunHealthCheck, RequestHealthCheckRecovery, HealthCheckRecovered, MaybeRunIdlePolicy,
     HandleIdleRecovery, IdleRecoveryHandled, WatchdogWait, Stores
<1>7. CASE BeginShutdown \/ ShutdownSteps
  BY <1>0, <1>1, <1>7, Zenon DEF BeginShutdown, ShutdownSteps, ShutdownClose, ShutdownClosed, StopThreads,
     JoinThreads, ShutdownTakeAll, ShutdownFailPending, FailQueuedSubmissions, FinishShutdown,
     EmptyStore
<1>8. CASE Caller \/ Callbacks \/ InitThread \/ Engine \/ UNCHANGED vars
  BY <1>1, <1>8, CallerLeaves, CallbacksLeave, InitThreadLeaves, EngineLeaves, Zenon DEF vars
<1> QED BY <1>2, <1>3, <1>4, <1>5, <1>6, <1>7, <1>8, StepCases, Zenon

\* What the owner of the section relies on holds in every reachable state.
LEMMA SectionInvariant == Spec => [](SectionInv /\ StoreInv)
<1>1. Init => SectionInv /\ StoreInv
  BY NoSectionFields DEF Init, SectionInv, StoreInv, EmptyStore, Absent, None
<1>2. TypeInv /\ SectionInv /\ StoreInv /\ [Next]_vars => (SectionInv /\ StoreInv)'
  BY SectionInvStep, StoreInvStep, Zenon DEF TypeInv
<1> QED BY <1>1, <1>2, TypeInvariant, PTL DEF Spec

\* FailAllPendingWithRecoveryPolicyLocked, which consults the failure policy for
\* every pending request with lifecycleMutex_ held, never finds one that belongs
\* to the current session: the close that precedes it has left no session.
THEOREM RecoveryNeverNests == Spec => []NoNestedRecovery
<1>1. SectionInv /\ StoreInv => NoNestedRecovery
  BY Zenon DEF SectionInv, StoreInv, NoNestedRecovery, In
<1> QED BY <1>1, SectionInvariant, PTL

\* No session is attached inside a cooldown window, whichever threads race for
\* lifecycleMutex_ and even when Shutdown overlaps Init: EnsureLiveSessionLocked
\* tests the window in the section that opens the session, and only the owner of
\* a section can start a window.
THEOREM CooldownIsRespected == Spec => NoOpenDuringCooldown
<1>1. TypeOK /\ SectionInv /\ [Next]_vars => [session = None /\ session' # None => ~cooldown]_vars
  <2> SUFFICES ASSUME TypeOK, SectionInv, [Next]_vars, session = None, session' # None
               PROVE  ~cooldown
    BY Zenon
  <2>1. Section BY OutsideSection, Zenon DEF LeavesSectionAlone
  <2>2. AttachSession
    BY <2>1, Zenon DEF Section, CloseLiveSessionIfSnapshotMatches, EnterIdleClosed,
       HandlePendingRequestsForRecovery, HandleEngineDeathPolicy, EnsureLiveSession, OpenSession,
       FinalizeSessionOpen, HandleSessionOpenFailure, CloseLiveSession, EnterTerminalClosed
  <2> QED BY <2>2, Zenon DEF AttachSession, SectionInv
<1> QED BY <1>1, TypeCorrect, SectionInvariant, PTL DEF Spec, NoOpenDuringCooldown

-----------------------------------------------------------------------------
(* A live session is Active, when Shutdown does not overlap Init.           *)

\* How clientControlState_, workersRunning_ and the callers of Init and
\* Shutdown go together.
ControlInv ==
    /\ control \in {"Uninitialized", "Open"} <=> shut.pc = "idle"
    /\ control = "Closed" <=> shut.pc = "done"
    /\ ini.pc = "idle" => control # "Open"
    /\ ini.pc \in {"prepare", "start", "ensure", "ensuring", "failed", "finish"} =>
          control = "Uninitialized"
    /\ ini.pc \in {"again", "ensuringAgain"} => control = "Open"
    /\ ini.pc = "inShutdown" => control \in {"Closing", "Closed"}
    /\ ini.pc = "done" => control # "Uninitialized"
    /\ control = "Open" \/ ini.pc \in {"ensure", "ensuring", "failed", "finish"} => running

BeforeStart == control = "Uninitialized" /\ ini.pc \in {"idle", "prepare", "start"}

\* Until StartThreads nothing runs and there is no session.
QuietInv ==
    BeforeStart => ~running /\ WorkersStopped /\ session = None /\ sec.step \in {"none", "done"}

\* The strengthening of LiveSessionIsActive: also inside a section, at the
\* steps where nothing has been closed or opened yet or all is done.
ActiveInv ==
    session # None /\ sec.step \in {"none", "done", "ensure", "transportClose", "terminalClose"} =>
        lifecycle = "Active" /\ ~cooldown

\* Init, Shutdown and the API state stay in step when Shutdown does not overlap Init.
LEMMA ControlInvStep ==
    ASSUME ~ConcurrentInit, TypeOK, ControlInv, QuietInv, [Next]_vars PROVE ControlInv'
<1>0. /\ ini \in InitStates /\ shut \in ShutdownStates /\ control \in ApiLifecycleState
      /\ InitDone.pc = "done"
  BY Zenon DEF TypeOK, InitDone
<1>1. ASSUME UNCHANGED <<api, ini, shut>> PROVE ControlInv' BY <1>1, Zenon DEF ControlInv
<1>2. CASE \/ Section \/ Caller \/ SubmitWorker \/ ResponseWorker \/ Watchdog \/ Callbacks \/ Engine
           \/ UNCHANGED vars
  BY Zenon, <1>1, <1>2, SectionLeaves, CallerLeaves, SubmitLeaves, ResponseLeaves, WatchdogLeaves,
     CallbacksLeave, EngineLeaves DEF vars
<1>3. CASE InitThread
  <2> USE DEF InitGoto, InitOnly
  <2>1. CASE InitCall
    <3>1. UNCHANGED <<api, shut>> BY <2>1, Zenon DEF InitCall
    <3>2. CASE ini' = InitDone /\ (control = "Closed" \/ running)
      <4>1. control # "Uninitialized"
        BY <2>1, <3>2, Zenon DEF InitCall, ControlInv, QuietInv, BeforeStart
      <4>2. ini'.pc = "done" BY <1>0, <3>2, Zenon
      <4>3. UNCHANGED <<control, running, shut>> BY <3>1, Zenon DEF api
      <4> QED BY <3>2, <4>1, <4>2, <4>3, Zenon DEF ControlInv
    <3>3. CASE control # "Closed" /\ running /\ ini'.pc = "again"
      <4>1. control = "Open"
        BY <1>0, <2>1, <3>3, ZenonT(60) DEF InitCall, ControlInv, QuietInv, BeforeStart, ApiLifecycleState
      <4> QED BY <1>0, <2>1, <3>1, <3>3, <4>1, Zenon DEF ControlInv
    <3>4. CASE control # "Closed" /\ ~running /\ ini'.pc = "prepare"
      <4>1. control = "Uninitialized"
        BY <1>0, <2>1, <3>4, Zenon DEF InitCall, ControlInv, ApiLifecycleState
      <4> QED BY <1>0, <2>1, <3>1, <3>4, <4>1, Zenon DEF ControlInv
    <3> QED BY <2>1, <3>2, <3>3, <3>4, SMT, Z3 DEF InitCall
  <2>2. CASE PrepareForInitOpen
    BY <1>0, <2>2, Zenon DEF PrepareForInitOpen, ControlInv, InitStates
  <2>3. CASE StartThreads
    BY <1>0, <2>3, SMT, Z3 DEF StartThreads, ControlInv, InitStates
  <2>4. CASE InitEnsure
    BY <1>0, <2>4, Zenon DEF InitEnsure, ControlInv, InitStates
  <2>5. CASE InitEnsured
    BY <1>0, <2>5, Zenon DEF InitEnsured, ControlInv, InitStates
  <2>6. CASE InitFailed
    BY <1>0, <2>6, ZenonT(60) DEF InitFailed, ControlInv, InitStates, ShutdownStates
  <2>7. CASE InitShutdownReturned
    BY <1>0, <2>7, Zenon DEF InitShutdownReturned, ControlInv, InitStates
  <2>8. CASE FinishInit
    BY <1>0, <2>8, Zenon DEF FinishInit, ControlInv, InitStates
  <2> QED BY <1>3, <2>1, <2>2, <2>3, <2>4, <2>5, <2>6, <2>7, <2>8, Zenon DEF InitThread
<1>4. CASE BeginShutdown \/ ShutdownSteps
  <2> USE DEF ShutdownGoto, ShutdownFrame
  <2>1. CASE BeginShutdown
    BY <1>0, <2>1, Zenon DEF BeginShutdown, ControlInv, ShutdownStates, ApiLifecycleState
  <2>2. CASE ShutdownClose \/ ShutdownClosed \/ JoinThreads
    BY <1>0, <2>2, Zenon DEF ShutdownClose, ShutdownClosed, JoinThreads, ControlInv, ShutdownStates
  <2>3. CASE StopThreads
    BY <1>0, <2>3, Zenon DEF StopThreads, ControlInv, ShutdownStates
  <2>4. CASE ShutdownTakeAll \/ ShutdownFailPending \/ FailQueuedSubmissions
    BY <1>0, <2>4, SMT, Z3 DEF ShutdownTakeAll, ShutdownFailPending, FailQueuedSubmissions, ControlInv,
       ShutdownStates
  <2>5. CASE FinishShutdown
    BY <1>0, <2>5, ZenonT(60) DEF FinishShutdown, ControlInv, ShutdownStates, ApiLifecycleState
  <2> QED BY <1>4, <2>1, <2>2, <2>3, <2>4, <2>5, Zenon DEF ShutdownSteps
<1> QED BY <1>2, <1>3, <1>4, StepCases, Zenon

\* Nothing runs, and no session is opened, before Init has started the workers.
LEMMA QuietInvStep ==
    ASSUME TypeOK, ControlInv, QuietInv, [Next]_vars PROVE QuietInv'
<1> SUFFICES ASSUME BeforeStart'
             PROVE  (~running /\ WorkersStopped /\ session = None /\ sec.step \in {"none", "done"})'
  BY Zenon DEF QuietInv
<1>0. ini \in InitStates /\ sec \in Sections BY DEF TypeOK
<1>1. ASSUME UNCHANGED <<control, ini>>
      PROVE  /\ ~running /\ WorkersStopped /\ session = None /\ sec.step \in {"none", "done"}
             /\ ~IsApiOpen /\ shut.pc = "idle"
  BY <1>1, Zenon DEF BeforeStart, QuietInv, IsApiOpen, ControlInv
<1>2. CASE Section
  BY ZenonT(60), <1>1, <1>2, SectionLeaves DEF Section, CloseLiveSessionIfSnapshotMatches, EnterIdleClosed,
     HandlePendingRequestsForRecovery, HandleEngineDeathPolicy, EnsureLiveSession, OpenSession,
     AttachSession, FinalizeSessionOpen, HandleSessionOpenFailure, CloseLiveSession,
     EnterTerminalClosed
<1>3. CASE Caller \/ Engine \/ UNCHANGED vars
  <2>1. UNCHANGED <<control, ini, running, session, sec, sub, rsp, wd>>
    BY <1>3, CallerLeaves, EngineLeaves, Zenon DEF vars, api, threads
  <2> QED BY <1>1, <2>1, Zenon DEF WorkersStopped
<1>4. CASE SubmitWorker
  BY <1>1, <1>4, SubmitLeaves, Zenon DEF WorkersStopped, SubmitWorker, SubmitPop, SubmitExit,
     SubmitEnsure, SubmitStopped, SubmitEnsured, WaitForRecoveryState, TryPushRequest,
     PushRequest, PushRequestRecheck, SyncActiveRequestCreditWait, NoRequestCreditHandle,
     WaitForRequestCredit, SubmitClose, SubmitClosed, SubmitFail, SubmitFailed
<1>5. CASE ResponseWorker
  BY Zenon, <1>1, <1>5, ResponseLeaves DEF WorkersStopped, ResponseWorker, ResponseCheckRunning,
     PopResponse, ResponseRingDrained, ReadNotificationGeneration, SyncActivePollSession,
     WaitForNotification, WaitForResponseSignal, ResponseBadEntry, ResponseDeath,
     ResponseDeathHandled, ResolveCompletedRequest, ResponseFail, ResponseFailed
<1>6. CASE Watchdog
  BY <1>1, <1>6, WatchdogLeaves, ZenonT(60) DEF WorkersStopped, Watchdog, TakeExpired, WatchdogFail,
     WatchdogFailed, MaybeRunHealthCheck, RequestHealthCheckRecovery, HealthCheckRecovered,
     MaybeRunIdlePolicy, HandleIdleRecovery, IdleRecoveryHandled, WatchdogWait
<1>7. CASE Callbacks
  <2>1. UNCHANGED <<control, ini, running, sub, rsp, wd, session>> BY <1>7, CallbacksLeave, Zenon
  <2>2. CASE sec' = sec BY <1>1, <2>1, <2>2, Zenon DEF WorkersStopped
  <2>3. CASE sec' = NoSection BY <1>1, <2>1, <2>3, NoSectionFields, Zenon DEF WorkersStopped
  <2>4. CASE HandleEngineDeath
    BY <1>1, <2>1, <2>4, Zenon DEF HandleEngineDeath, ApplyEngineDeath, NothingToDo, WorkersStopped, NoSection
  <2>5. CASE HandleExternalRecovery
    BY <1>1, <2>1, <2>5, Zenon DEF HandleExternalRecovery, ApplyExternalRecovery, NothingToDo,
       WorkersStopped, NoSection
  <2> QED BY <1>7, <2>2, <2>3, <2>4, <2>5, ZenonT(60) DEF Callbacks, BootstrapDeathCallback, EngineDeathHandled,
             RequestExternalRecovery, ExternalRecoveryHandled, Leave
<1>8. CASE InitThread
  <2> USE DEF InitGoto, InitOnly, InitFrame
  <2>1. CASE InitCall
    <3>1. BeforeStart
      <4>1. control = "Uninitialized" BY <2>1, Zenon DEF InitCall, BeforeStart
      <4>2. ini.pc # "done" BY <4>1, Zenon DEF ControlInv
      <4> QED BY <2>1, <4>1, <4>2, Zenon DEF InitCall, BeforeStart
    <3> QED BY <2>1, <3>1, Zenon DEF InitCall, QuietInv, WorkersStopped
  <2>2. CASE PrepareForInitOpen
    BY <1>0, <2>2, Zenon DEF PrepareForInitOpen, BeforeStart, QuietInv, WorkersStopped, InitStates
  <2>3. CASE ~(InitCall \/ PrepareForInitOpen)
    <3>1. ini'.pc \notin {"idle", "prepare", "start"}
      BY <1>0, <1>8, <2>3, SMT, Z3 DEF InitThread, StartThreads, InitEnsure, InitEnsured, InitFailed,
         InitShutdownReturned, FinishInit, InitDone, InitStates
    <3> QED BY <3>1, Zenon DEF BeforeStart
  <2> QED BY <2>1, <2>2, <2>3, Zenon
<1>9. CASE BeginShutdown \/ ShutdownSteps
  <2>1. ini' = ini BY <1>9, ShutdownLeaves, Zenon
  <2>2. control' # "Uninitialized" \/ (control' = control /\ shut.pc # "idle")
    BY <1>9, Zenon DEF BeginShutdown, ShutdownSteps, ShutdownClose, ShutdownClosed, StopThreads,
       JoinThreads, ShutdownTakeAll, ShutdownFailPending, FailQueuedSubmissions, FinishShutdown
  <2> QED BY <1>1, <2>1, <2>2, Zenon DEF BeforeStart
<1> QED BY <1>2, <1>3, <1>4, <1>5, <1>6, <1>7, <1>8, <1>9, StepCases, Zenon

\* Every section that attaches a session makes the client Active, and none leaves that state with it.
LEMMA ActiveInvStep ==
    ASSUME TypeOK, SectionInv, ControlInv, QuietInv, ActiveInv, [Next]_vars PROVE ActiveInv'
<1>0. sec \in Sections BY Zenon DEF TypeOK
<1>1. CASE ~Section
  <2>1. LeavesSectionAlone BY <1>1, OutsideSection, Zenon
  <2>2. ini.pc = "prepare" => session = None BY Zenon DEF ControlInv, QuietInv, BeforeStart
  <2>3. sec.owner = "none" => sec.step = "none" BY DEF SectionInv
  <2> QED BY <2>1, <2>2, <2>3, NoSectionFields, Zenon DEF LeavesSectionAlone, EntersSection, ActiveInv
<1>2. CASE CloseLiveSessionIfSnapshotMatches
  BY <1>0, <1>2, Zenon DEF CloseLiveSessionIfSnapshotMatches, ActiveInv, Goto, Sections
<1>3. CASE EnterIdleClosed \/ EnterTerminalClosed \/ HandleSessionOpenFailure
  BY <1>3, Zenon DEF EnterIdleClosed, EnterTerminalClosed, HandleSessionOpenFailure, SectionInv, ActiveInv
<1>4. CASE HandlePendingRequestsForRecovery \/ HandleEngineDeathPolicy
  BY <1>4, Zenon DEF HandlePendingRequestsForRecovery, HandleEngineDeathPolicy, SectionInv, ActiveInv
<1>5. CASE EnsureLiveSession
  <2>1. CASE Goto("open") BY <1>0, <2>1, Zenon DEF ActiveInv, Goto, Sections
  <2>2. CASE lifecycle' = lifecycle BY <1>5, <2>2, Zenon DEF EnsureLiveSession, ActiveInv
  <2> QED BY <1>5, <2>1, <2>2, Zenon DEF EnsureLiveSession
<1>6. CASE OpenSession BY <1>0, <1>6, Zenon DEF OpenSession, OpenFailed, ActiveInv, Sections
<1>7. CASE AttachSession BY <1>0, <1>7, ZenonT(60) DEF AttachSession, OpenFailed, Goto, ActiveInv, Sections
<1>8. CASE FinalizeSessionOpen BY <1>8, Zenon DEF FinalizeSessionOpen, Transition, ActiveInv
<1>9. CASE CloseLiveSession BY <1>9, Zenon DEF CloseLiveSession, ActiveInv
<1> QED BY <1>1, <1>2, <1>3, <1>4, <1>5, <1>6, <1>7, <1>8, <1>9, Zenon DEF Section

\* Outside lifecycleMutex_ a live session is always Active with no cooldown
\* window, provided Shutdown does not overlap Init (PrepareForInitOpen writes
\* the lifecycle state without the mutex): every path of rpc_client.cpp that
\* leaves Active first closes the session, every path that attaches one ends in
\* FinalizeSessionOpen.
THEOREM LiveIsActive == ASSUME ~ConcurrentInit PROVE Spec => []LiveSessionIsActive
<1> DEFINE Inv == ControlInv /\ QuietInv /\ ActiveInv
<1>1. Init => Inv
  BY NoSectionFields DEF Init, ControlInv, QuietInv, ActiveInv, WorkersStopped, IdleSubmit,
     IdleResponse, IdleWatchdog
<1>2. TypeOK /\ SectionInv /\ Inv /\ [Next]_vars => Inv'
  BY ControlInvStep, QuietInvStep, ActiveInvStep, Zenon
<1>3. SectionInv /\ Inv => LiveSessionIsActive
  BY Zenon DEF SectionInv, ActiveInv, LiveSessionIsActive
<1> HIDE DEF Inv
<1> QED BY <1>1, <1>2, <1>3, TypeCorrect, SectionInvariant, PTL DEF Spec

-----------------------------------------------------------------------------
(* Notifications.                                                           *)

NotifyKept == notified' = notified \/ notified' = TRUE

\* No thread that enters lifecycleMutex_ withdraws a notification.
LEMMA EnteringKeepsNotice ==
    ASSUME NEW t, NEW a, NEW b, NEW c
    PROVE  /\ Enter(t, a) => NotifyKept
           /\ ApplyFailureRecoveryDecision(t, a) => NotifyKept
           /\ ApplyExternalRecovery(t, a, b, c) => NotifyKept
           /\ ApplyEngineDeath(t, a, b) => NotifyKept
<1>1. Enter(t, a) => NotifyKept BY Zenon DEF Enter, NotifyKept
<1>2. ApplyFailureRecoveryDecision(t, a) => NotifyKept
  BY ZenonT(30) DEF ApplyFailureRecoveryDecision, NothingToDo, IdleClose, ScheduleRecovery, Transition, NotifyKept
<1>3. ApplyExternalRecovery(t, a, b, c) => NotifyKept
  BY ZenonT(30) DEF ApplyExternalRecovery, NothingToDo, ScheduleRecovery, Transition, NotifyKept
<1>4. ApplyEngineDeath(t, a, b) => NotifyKept
  BY ZenonT(30) DEF ApplyEngineDeath, NothingToDo, NotifyKept
<1> QED BY <1>1, <1>2, <1>3, <1>4, Zenon

\* Only the response worker, when it reads the generation, withdraws a notification.
LEMMA NoticeStays == [Next]_vars /\ ~ResponseWorker => NotifyKept
<1> SUFFICES ASSUME [Next]_vars, ~ResponseWorker PROVE NotifyKept BY Zenon
<1>1. CASE Section
  BY <1>1, ZenonT(60) DEF Section, CloseLiveSessionIfSnapshotMatches, EnterIdleClosed,
     HandlePendingRequestsForRecovery, HandleEngineDeathPolicy, EnsureLiveSession, OpenSession,
     AttachSession, FinalizeSessionOpen, HandleSessionOpenFailure, CloseLiveSession,
     EnterTerminalClosed, Transition, NothingToDo, IdleClose, ScheduleRecovery, NotifyKept
<1>2. CASE Caller BY <1>2, CallerLeaves, Zenon DEF NotifyKept
<1>3. CASE SubmitWorker
  BY <1>3, EnteringKeepsNotice, ZenonT(60) DEF SubmitWorker, SubmitOnly, SubmitPop, SubmitExit,
     SubmitEnsure, SubmitStopped, SubmitEnsured, WaitForRecoveryState, TryPushRequest, PushRequest,
     PushRequestRecheck, SyncActiveRequestCreditWait, NoRequestCreditHandle, WaitForRequestCredit,
     SubmitClose, SubmitClosed, SubmitFail, SubmitFailed, NotifyKept
<1>4. CASE Watchdog
  BY <1>4, EnteringKeepsNotice, ZenonT(60) DEF Watchdog, TakeExpired, WatchdogFail, WatchdogFailed,
     MaybeRunHealthCheck, RequestHealthCheckRecovery, HealthCheckRecovered, MaybeRunIdlePolicy,
     HandleIdleRecovery, IdleRecoveryHandled, WatchdogWait, NotifyKept
<1>5. CASE Callbacks
  BY <1>5, EnteringKeepsNotice, ZenonT(60) DEF Callbacks, BootstrapDeathCallback, HandleEngineDeath,
     EngineDeathHandled, RequestExternalRecovery, HandleExternalRecovery, ExternalRecoveryHandled,
     NotifyKept
<1>6. CASE InitThread
  BY <1>6, EnteringKeepsNotice, ZenonT(60) DEF InitThread, InitOnly, InitCall, PrepareForInitOpen,
     StartThreads, InitEnsure, InitEnsured, InitFailed, InitShutdownReturned, FinishInit, NotifyKept
<1>7. CASE BeginShutdown \/ ShutdownSteps
  BY <1>7, EnteringKeepsNotice, ZenonT(60) DEF BeginShutdown, ShutdownSteps, ShutdownClose,
     ShutdownClosed, StopThreads, JoinThreads, ShutdownTakeAll, ShutdownFailPending,
     FailQueuedSubmissions, FinishShutdown, NotifyKept
<1>8. CASE Engine \/ UNCHANGED vars BY <1>8, EngineLeaves, Zenon DEF NotifyKept, vars
<1> QED BY <1>1, <1>2, <1>3, <1>4, <1>5, <1>6, <1>7, <1>8, StepCases, Zenon

\* The response worker goes to sleep only when it sees no session.
LEMMA SleepsWithoutSession ==
    TypeOK /\ ResponseWorker => (rsp'.pc = "await" => session = None)
<1> SUFFICES ASSUME TypeOK, ResponseWorker, rsp'.pc = "await" PROVE session = None BY Zenon
<1>0. rsp \in ResponseStates BY Zenon DEF TypeOK
<1>1. \A next : ResponseGoto(next) => rsp'.pc = next BY <1>0, Zenon DEF ResponseGoto, ResponseStates
<1>2. CASE SyncActivePollSession
  BY <1>0, <1>2, Zenon DEF SyncActivePollSession, ResponseStates
<1>3. CASE \/ ResponseCheckRunning \/ ResponseRingDrained \/ ReadNotificationGeneration
           \/ WaitForNotification \/ ResponseDeath \/ ResponseFail
  BY <1>1, <1>3, Zenon DEF ResponseCheckRunning, ResponseRingDrained, ReadNotificationGeneration,
     WaitForNotification, ResponseDeath, ResponseFail, IdleResponse
<1>4. CASE PopResponse \/ WaitForResponseSignal \/ ResponseBadEntry \/ ResponseDeathHandled
  BY <1>0, <1>1, <1>4, Zenon DEF PopResponse, WaitForResponseSignal, ResponseBadEntry,
     ResponseDeathHandled, ResponseStates
<1>5. CASE ResolveCompletedRequest \/ ResponseFailed
  BY <1>0, <1>5, Zenon DEF ResolveCompletedRequest, ResponseFailed, Drained, ResponseStates
<1> QED BY <1>2, <1>3, <1>4, <1>5, Zenon DEF ResponseWorker

\* A section that publishes a session goes on to notify of it.
LEMMA SectionNotifies ==
    TypeOK /\ Section =>
        \/ sec'.step = "finalize"
        \/ notified' = TRUE
        \/ sec.step # "finalize" /\ (session' = session \/ session' = None)
<1> SUFFICES ASSUME TypeOK, Section
             PROVE  \/ sec'.step = "finalize"
                    \/ notified' = TRUE
                    \/ sec.step # "finalize" /\ (session' = session \/ session' = None)
  BY Zenon
<1>0. sec \in Sections BY Zenon DEF TypeOK
<1>1. CASE AttachSession
  BY <1>0, <1>1, Zenon DEF AttachSession, Goto, OpenFailed, Sections
<1>2. CASE FinalizeSessionOpen BY <1>2, Zenon DEF FinalizeSessionOpen, Transition
<1>3. CASE CloseLiveSessionIfSnapshotMatches \/ CloseLiveSession
  BY <1>3, Zenon DEF CloseLiveSessionIfSnapshotMatches, CloseLiveSession
<1>4. CASE \/ EnterIdleClosed \/ HandlePendingRequestsForRecovery \/ HandleEngineDeathPolicy
           \/ EnsureLiveSession \/ OpenSession \/ HandleSessionOpenFailure \/ EnterTerminalClosed
  BY <1>4, Zenon DEF EnterIdleClosed, HandlePendingRequestsForRecovery, HandleEngineDeathPolicy,
     EnsureLiveSession, OpenSession, HandleSessionOpenFailure, EnterTerminalClosed
<1> QED BY <1>1, <1>2, <1>3, <1>4, Zenon DEF Section

\* Every step of every thread keeps the response worker from sleeping through a notification.
LEMMA NotificationStep ==
    TypeOK /\ SectionInv /\ NoLostNotification /\ [Next]_vars => NoLostNotification'
<1> SUFFICES ASSUME TypeOK, SectionInv, NoLostNotification, [Next]_vars, rsp'.pc = "await", session' # None
             PROVE  notified' \/ sec'.step = "finalize"
  BY Zenon DEF NoLostNotification
<1>1. CASE ResponseWorker BY <1>1, SleepsWithoutSession, ResponseLeaves, Zenon
<1>2. CASE ~ResponseWorker
  <2>1. rsp' = rsp
    <3>1. rsp' = rsp \/ rsp' = IdleResponse
      BY <1>2, StepCases, SectionLeaves, CallerLeaves, SubmitLeaves, WatchdogLeaves, CallbacksLeave,
         InitThreadLeaves, ShutdownLeaves, EngineLeaves, Zenon DEF vars
    <3>2. IdleResponse.pc # "await" BY Zenon DEF IdleResponse
    <3> QED BY <3>1, <3>2, Zenon
  <2>2. CASE Section
    <3>1. notified => notified' BY <1>2, NoticeStays, Zenon DEF NotifyKept
    <3> QED BY <2>1, <2>2, <3>1, SectionNotifies, Zenon DEF NoLostNotification
  <2>3. CASE ~Section
    <3>1. notified => notified' BY <1>2, NoticeStays, Zenon DEF NotifyKept
    <3>2. LeavesSectionAlone BY <2>3, OutsideSection, Zenon
    <3>3. session' = session /\ (sec.step = "finalize" => sec' = sec)
      BY <3>2, Zenon DEF LeavesSectionAlone, EntersSection, SectionInv
    <3> QED BY <2>1, <3>1, <3>3, Zenon DEF NoLostNotification
  <2> QED BY <2>2, <2>3, Zenon
<1> QED BY <1>1, <1>2, Zenon

\* The response worker never sleeps through the notification of a session, for
\* any interleaving with the sections that attach and finalise one: it reads the
\* generation before it looks for a session, and FinalizeSessionOpen moves the
\* generation after the session has been published.
THEOREM NotificationsAreSeen == Spec => []NoLostNotification
<1>1. Init => NoLostNotification BY Zenon DEF Init, NoLostNotification
<1> QED BY <1>1, NotificationStep, TypeCorrect, SectionInvariant, PTL DEF Spec

-----------------------------------------------------------------------------
(* Death notices.                                                           *)

\* A notice names a session, and the callback that handles one still knows it.
NoticeInv == None \notin notices /\ (dth.pc # "idle" => dth.dead # None)

\* What the death callback may do inside lifecycleMutex_: it works on the session
\* the notice is about until it is done.
DeathInv ==
    sec.owner = "death" =>
        /\ dth.pc = "section"
        /\ sec.step \notin {"transportClose", "terminalClose", "terminalEnter"}
        /\ sec.step # "done" => sec.observed = dth.dead

\* Only the death callback changes its locals, and only the engine adds a notice.
LEMMA NoticeStep == TypeOK /\ NoticeInv /\ [Next]_vars => NoticeInv'
<1> SUFFICES ASSUME TypeOK, NoticeInv, [Next]_vars PROVE NoticeInv' BY Zenon
<1>0. dth \in DeathStates BY Zenon DEF TypeOK
<1>1. ASSUME UNCHANGED <<notices, dth>> PROVE NoticeInv' BY <1>1, Zenon DEF NoticeInv
<1>2. CASE Callbacks
  <2>1. CASE BootstrapDeathCallback
    <3>1. PICK d \in notices : /\ notices' = notices \ {d} \/ notices' = notices
                               /\ dth' = [pc |-> "lock", observed |-> session, dead |-> d]
      BY <2>1, Zenon DEF BootstrapDeathCallback
    <3>2. dth'.dead = d BY <3>1, Zenon
    <3>3. None \notin notices' BY <3>1, Zenon DEF NoticeInv
    <3> QED BY <3>2, <3>3, Zenon DEF NoticeInv
  <2>2. CASE HandleEngineDeath
    <3>1. dth'.dead = dth.dead BY <1>0, <2>2, Zenon DEF HandleEngineDeath, DeathStates
    <3> QED BY <2>2, <3>1, Zenon DEF HandleEngineDeath, NoticeInv
  <2>3. CASE EngineDeathHandled
    BY <2>3, Zenon DEF EngineDeathHandled, IdleDeath, NoticeInv
  <2>4. CASE RequestExternalRecovery \/ HandleExternalRecovery \/ ExternalRecoveryHandled
    BY <1>1, <2>4, Zenon DEF RequestExternalRecovery, HandleExternalRecovery, ExternalRecoveryHandled
  <2> QED BY <1>2, <2>1, <2>2, <2>3, <2>4, Zenon DEF Callbacks
<1>3. CASE Engine
  <2>1. dth' = dth BY <1>3, EngineLeaves, Zenon
  <2>2. None \notin notices'
    BY <1>3, Zenon DEF Engine, EngineReply, EngineBadEntry, EngineBreakSession, EngineDies, NoticeInv
  <2> QED BY <2>1, <2>2, Zenon DEF NoticeInv
<1>4. CASE Section \/ Caller \/ SubmitWorker \/ ResponseWorker \/ Watchdog \/ UNCHANGED vars
  BY <1>1, <1>4, SectionLeaves, CallerLeaves, SubmitLeaves, ResponseLeaves, WatchdogLeaves, Zenon DEF vars
<1>5. CASE InitThread \/ (BeginShutdown \/ ShutdownSteps)
  BY <1>1, <1>5, InitThreadLeaves, ShutdownLeaves, Zenon
<1> QED BY <1>2, <1>3, <1>4, <1>5, StepCases, Zenon

\* All that thread t, outside its section, does to lifecycleMutex_: it takes it
\* when it is free and gives it back when its own section is done.
Locks(t) ==
    \/ sec' = sec
    \/ sec.owner = t /\ sec.step = "done" /\ sec' = NoSection
    \/ sec.owner = "none" /\ sec'.owner = t

\* Every function that takes lifecycleMutex_ takes it for the thread that calls it.
LEMMA TakesForItself ==
    ASSUME NEW t, NEW a, NEW b, NEW c
    PROVE  /\ Enter(t, a) => Locks(t)
           /\ ApplyFailureRecoveryDecision(t, a) => Locks(t)
           /\ ApplyExternalRecovery(t, a, b, c) => Locks(t)
           /\ ApplyEngineDeath(t, a, b) => Locks(t)
           /\ Leave(t) => Locks(t)
           /\ sec' = sec => Locks(t)
<1>1. Enter(t, a) => Locks(t) BY Zenon DEF Enter, Locks, NoSection
<1>2. ApplyFailureRecoveryDecision(t, a) => Locks(t)
  BY ZenonT(30) DEF ApplyFailureRecoveryDecision, NothingToDo, IdleClose, ScheduleRecovery, Locks, NoSection
<1>3. ApplyExternalRecovery(t, a, b, c) => Locks(t)
  BY ZenonT(30) DEF ApplyExternalRecovery, NothingToDo, ScheduleRecovery, Locks, NoSection
<1>4. ApplyEngineDeath(t, a, b) => Locks(t)
  BY ZenonT(30) DEF ApplyEngineDeath, NothingToDo, Locks, NoSection
<1>5. Leave(t) => Locks(t) BY Zenon DEF Leave, Returned, Locks
<1>6. sec' = sec => Locks(t) BY Zenon DEF Locks
<1> QED BY <1>1, <1>2, <1>3, <1>4, <1>5, <1>6, Zenon

\* Each thread takes and gives back lifecycleMutex_ only for itself.
LEMMA LocksForItself ==
    /\ SubmitWorker => Locks("submit")
    /\ ResponseWorker => Locks("response")
    /\ Watchdog => Locks("watchdog")
    /\ Callbacks => Locks("death") \/ Locks("external")
    /\ InitThread => Locks("init")
    /\ BeginShutdown \/ ShutdownSteps => Locks("shutdown")
    /\ Caller \/ Engine \/ UNCHANGED vars => sec' = sec
<1>1. SubmitWorker => Locks("submit")
  BY TakesForItself, ZenonT(60) DEF SubmitWorker, SubmitOnly, SubmitPop, SubmitExit,
     SubmitEnsure, SubmitStopped, SubmitEnsured, WaitForRecoveryState, TryPushRequest, PushRequest,
     PushRequestRecheck, SyncActiveRequestCreditWait, NoRequestCreditHandle, WaitForRequestCredit,
     SubmitClose, SubmitClosed, SubmitFail, SubmitFailed
<1>2. ResponseWorker => Locks("response")
  BY TakesForItself, ZenonT(60) DEF ResponseWorker, ResponseOnly, ResponseCheckRunning, PopResponse,
     ResponseRingDrained, ReadNotificationGeneration, SyncActivePollSession, WaitForNotification,
     WaitForResponseSignal, ResponseBadEntry, ResponseDeath, ResponseDeathHandled,
     ResolveCompletedRequest, ResponseFail, ResponseFailed
<1>3. Watchdog => Locks("watchdog")
  BY TakesForItself, ZenonT(60) DEF Watchdog, TakeExpired, WatchdogFail, WatchdogFailed,
     MaybeRunHealthCheck, RequestHealthCheckRecovery, HealthCheckRecovered, MaybeRunIdlePolicy,
     HandleIdleRecovery, IdleRecoveryHandled, WatchdogWait
<1>4. Callbacks => Locks("death") \/ Locks("external")
  BY TakesForItself, ZenonT(60) DEF Callbacks, BootstrapDeathCallback, HandleEngineDeath,
     EngineDeathHandled, RequestExternalRecovery, HandleExternalRecovery, ExternalRecoveryHandled
<1>5. InitThread => Locks("init")
  BY TakesForItself, ZenonT(60) DEF InitThread, InitOnly, InitCall, PrepareForInitOpen,
     StartThreads, InitEnsure, InitEnsured, InitFailed, InitShutdownReturned, FinishInit
<1>6. BeginShutdown \/ ShutdownSteps => Locks("shutdown")
  BY TakesForItself, ZenonT(60) DEF BeginShutdown, ShutdownSteps, ShutdownClose,
     ShutdownClosed, StopThreads, JoinThreads, ShutdownTakeAll, ShutdownFailPending,
     FailQueuedSubmissions, FinishShutdown
<1>7. Caller \/ Engine \/ UNCHANGED vars => sec' = sec
  BY CallerLeaves, EngineLeaves, Zenon DEF vars
<1> QED BY <1>1, <1>2, <1>3, <1>4, <1>5, <1>6, <1>7, Zenon

\* A section stays with its owner and with the session it was entered for, and
\* closes unconditionally only where it was entered to.
LEMMA SectionStays ==
    TypeOK /\ Section =>
        /\ sec'.owner = sec.owner /\ sec'.observed = sec.observed
        /\ sec.step # "done" /\ sec.step # "none"
        /\ sec.step \notin {"transportClose", "terminalClose"} =>
              sec'.step \notin {"transportClose", "terminalClose", "terminalEnter"}
<1> SUFFICES ASSUME TypeOK, Section
             PROVE  /\ sec'.owner = sec.owner /\ sec'.observed = sec.observed
                    /\ sec.step # "done" /\ sec.step # "none"
                    /\ sec.step \notin {"transportClose", "terminalClose"} =>
                          sec'.step \notin {"transportClose", "terminalClose", "terminalEnter"}
  BY Zenon
<1>0. sec \in Sections BY Zenon DEF TypeOK
<1>1. \A next : Goto(next) => sec'.owner = sec.owner /\ sec'.observed = sec.observed /\ sec'.step = next
  BY <1>0, Zenon DEF Goto, Sections
<1>2. \A status : Return(status) => sec'.owner = sec.owner /\ sec'.observed = sec.observed /\ sec'.step = "done"
  BY <1>0, Zenon DEF Return, Sections
<1>3. OpenFailed => sec'.owner = sec.owner /\ sec'.observed = sec.observed /\ sec'.step = "openFailed"
  BY <1>0, Zenon DEF OpenFailed, Sections
<1>4. sec.step # "done" /\ sec.step # "none"
  BY ZenonT(30) DEF Section, CloseLiveSessionIfSnapshotMatches, EnterIdleClosed,
     HandlePendingRequestsForRecovery, HandleEngineDeathPolicy, EnsureLiveSession, OpenSession,
     AttachSession, FinalizeSessionOpen, HandleSessionOpenFailure, CloseLiveSession,
     EnterTerminalClosed
<1>5. ASSUME \E next \in {"pending", "idleEnter", "done", "deathPolicy", "ensure", "open", "finalize"} : Goto(next)
      PROVE  /\ sec'.owner = sec.owner /\ sec'.observed = sec.observed
             /\ sec'.step \notin {"transportClose", "terminalClose", "terminalEnter"}
  BY <1>1, <1>5, Zenon
<1>6. CASE CloseLiveSessionIfSnapshotMatches
  <2>1. Goto("pending") \/ Goto("idleEnter") BY <1>6, Zenon DEF CloseLiveSessionIfSnapshotMatches
  <2> QED BY <1>4, <1>5, <2>1, Zenon
<1>7. CASE CloseLiveSession
  <2>1. sec.step \in {"transportClose", "terminalClose"} BY <1>7, Zenon DEF CloseLiveSession
  <2>2. \E next : Goto(next) BY <1>7, Zenon DEF CloseLiveSession
  <2> QED BY <1>1, <1>4, <2>1, <2>2, Zenon
<1>8. CASE EnterIdleClosed \/ HandlePendingRequestsForRecovery \/ EnterTerminalClosed
           \/ HandleSessionOpenFailure
  <2>1. Goto("done") \/ Goto("deathPolicy") \/ Goto("ensure")
    BY <1>8, Zenon DEF EnterIdleClosed, HandlePendingRequestsForRecovery, EnterTerminalClosed,
       HandleSessionOpenFailure
  <2> QED BY <1>4, <1>5, <2>1, Zenon
<1>9. CASE AttachSession
  <2>1. Goto("finalize") \/ OpenFailed BY <1>9, Zenon DEF AttachSession
  <2> QED BY <1>3, <1>4, <1>5, <2>1, Zenon
<1>10. CASE FinalizeSessionOpen \/ EnsureLiveSession
  <2>1. Goto("open") \/ \E status : Return(status)
    BY <1>10, Zenon DEF FinalizeSessionOpen, EnsureLiveSession
  <2> QED BY <1>2, <1>4, <1>5, <2>1, Zenon
<1>11. CASE HandleEngineDeathPolicy
  <2>1. \/ Goto("done") \/ NothingToDo(sec) \/ IdleClose(sec, sec.observed)
        \/ \E delay \in {0, 1} : ScheduleRecovery(sec, sec.observed, delay, "KeepCurrentState")
    BY <1>11, Zenon DEF HandleEngineDeathPolicy
  <2>2. ASSUME NothingToDo(sec) \/ IdleClose(sec, sec.observed)
        PROVE  /\ sec'.owner = sec.owner /\ sec'.observed = sec.observed
               /\ sec'.step = "done" \/ sec'.step = "idleClose"
    BY <1>0, <2>2, Zenon DEF NothingToDo, IdleClose, Sections
  <2>3. ASSUME NEW delay, ScheduleRecovery(sec, sec.observed, delay, "KeepCurrentState")
        PROVE  sec'.owner = sec.owner /\ sec'.observed = sec.observed /\ sec'.step = "close"
    BY <1>0, <2>3, Zenon DEF ScheduleRecovery, Sections
  <2> QED BY <1>4, <1>5, <2>1, <2>2, <2>3, Zenon
<1>12. CASE OpenSession
  BY <1>0, <1>3, <1>4, <1>12, Zenon DEF OpenSession, Sections
<1> QED BY <1>6, <1>7, <1>8, <1>9, <1>10, <1>11, <1>12, Zenon DEF Section

\* Inside its section the death callback works on nothing but the dead session.
LEMMA DeathInvStep == TypeOK /\ DeathInv /\ NoticeInv /\ [Next]_vars => DeathInv'
<1> SUFFICES ASSUME TypeOK, DeathInv, NoticeInv, [Next]_vars, sec'.owner = "death"
             PROVE  /\ dth'.pc = "section"
                    /\ sec'.step \notin {"transportClose", "terminalClose", "terminalEnter"}
                    /\ sec'.step # "done" => sec'.observed = dth'.dead
  BY Zenon DEF DeathInv
<1>1. CASE Section
  <2>1. dth' = dth BY <1>1, SectionLeaves, Zenon
  <2> QED BY <1>1, <2>1, SectionStays, Zenon DEF DeathInv
<1>2. ASSUME sec' = sec, dth' = dth
      PROVE  /\ dth'.pc = "section"
             /\ sec'.step \notin {"transportClose", "terminalClose", "terminalEnter"}
             /\ sec'.step # "done" => sec'.observed = dth'.dead
  BY <1>2, Zenon DEF DeathInv
<1>3. NoSection.owner # "death" BY NoSectionFields, Zenon
<1>4. CASE Caller \/ SubmitWorker \/ ResponseWorker \/ Watchdog \/ Engine \/ UNCHANGED vars
  <2>1. dth' = dth
    BY <1>4, CallerLeaves, SubmitLeaves, ResponseLeaves, WatchdogLeaves, EngineLeaves, Zenon DEF vars
  <2>2. sec' = sec BY <1>3, <1>4, LocksForItself, ZenonT(60) DEF Locks
  <2> QED BY <1>2, <2>1, <2>2, Zenon
<1>5. CASE InitThread \/ (BeginShutdown \/ ShutdownSteps)
  <2>1. dth' = dth BY <1>5, InitThreadLeaves, ShutdownLeaves, Zenon
  <2>2. sec' = sec BY <1>3, <1>5, LocksForItself, Zenon DEF Locks
  <2> QED BY <1>2, <2>1, <2>2, Zenon
<1>6. CASE Callbacks
  <2>1. CASE HandleEngineDeath
    <3>1. dth'.pc = "section" /\ dth'.dead = dth.dead /\ dth.dead # None
      <4>1. dth \in DeathStates BY Zenon DEF TypeOK
      <4>2. dth'.pc = "section" /\ dth'.dead = dth.dead
        BY <2>1, <4>1, Zenon DEF HandleEngineDeath, DeathStates
      <4>3. dth.dead # None BY <2>1, Zenon DEF HandleEngineDeath, NoticeInv
      <4> QED BY <4>2, <4>3, Zenon
    <3>2. \/ sec'.step = "close" /\ sec'.observed = dth.dead
          \/ sec'.step = "done"
      <4>1. CASE IsApiOpen /\ dth.observed = session /\ dth.observed # None /\ dth.dead \in {None, dth.observed}
        BY <2>1, <3>1, <4>1, Zenon DEF HandleEngineDeath, ApplyEngineDeath, NoSection
      <4>2. CASE ~(IsApiOpen /\ dth.observed = session /\ dth.observed # None /\ dth.dead \in {None, dth.observed})
        BY <2>1, <4>2, Zenon DEF HandleEngineDeath, ApplyEngineDeath, NothingToDo, NoSection
      <4> QED BY <4>1, <4>2, Zenon
    <3> QED BY <3>1, <3>2, Zenon
  <2>2. CASE EngineDeathHandled
    BY <1>3, <2>2, Zenon DEF EngineDeathHandled, Leave
  <2>3. CASE BootstrapDeathCallback
    BY <2>3, Zenon DEF BootstrapDeathCallback, DeathInv
  <2>4. CASE RequestExternalRecovery \/ HandleExternalRecovery \/ ExternalRecoveryHandled
    <3>1. Locks("external") /\ dth' = dth
      BY <2>4, TakesForItself, Zenon DEF RequestExternalRecovery, HandleExternalRecovery, ExternalRecoveryHandled
    <3> QED BY <1>2, <1>3, <3>1, Zenon DEF Locks
  <2> QED BY <1>6, <2>1, <2>2, <2>3, <2>4, Zenon DEF Callbacks
<1> QED BY <1>1, <1>4, <1>5, <1>6, StepCases, Zenon

\* A step that changes the session while the death callback is inside
\* lifecycleMutex_ closes the dead session or attaches one where there is none.
LEMMA DeathClosesStep ==
    ASSUME TypeOK, SectionInv, DeathInv, [Next]_vars, sec.owner = "death", session' # session, session # None
    PROVE  session = dth.dead
<1>1. Section BY OutsideSection, Zenon DEF LeavesSectionAlone
<1>2. CASE CloseLiveSessionIfSnapshotMatches
  BY <1>2, Zenon DEF CloseLiveSessionIfSnapshotMatches, DeathInv
<1>3. CASE AttachSession BY <1>3, Zenon DEF AttachSession, SectionInv
<1>4. CASE CloseLiveSession BY <1>4, Zenon DEF CloseLiveSession, DeathInv
<1>5. CASE \/ EnterIdleClosed \/ HandlePendingRequestsForRecovery \/ HandleEngineDeathPolicy
           \/ EnsureLiveSession \/ OpenSession \/ FinalizeSessionOpen \/ HandleSessionOpenFailure
           \/ EnterTerminalClosed
  BY <1>5, Zenon DEF EnterIdleClosed, HandlePendingRequestsForRecovery, HandleEngineDeathPolicy,
     EnsureLiveSession, OpenSession, FinalizeSessionOpen, HandleSessionOpenFailure, EnterTerminalClosed
<1> QED BY <1>1, <1>2, <1>3, <1>4, <1>5, Zenon DEF Section

\* A death notice, however late it is handled and however often it is delivered,
\* never closes a session other than the one it is about: HandleEngineDeath
\* compares the notice with the session it read before the mutex, and that with
\* the live one inside it.
THEOREM LateNoticesAreHarmless == Spec => DeathClosesOnlyTheDead
<1> DEFINE Inv == NoticeInv /\ DeathInv
           Closes == sec.owner = "death" /\ session' # session /\ session # None => session = dth.dead
<1>1. Init => Inv
  <2>1. NoSection.owner # "death" /\ IdleDeath.pc = "idle" BY NoSectionFields, Zenon DEF IdleDeath
  <2> QED BY <2>1, Zenon DEF Init, NoticeInv, DeathInv
<1>2. TypeOK /\ Inv /\ [Next]_vars => Inv' BY NoticeStep, DeathInvStep, Zenon
<1>3. TypeOK /\ SectionInv /\ Inv /\ [Next]_vars => [Closes]_vars BY DeathClosesStep, Zenon
<1>4. DeathClosesOnlyTheDead <=> [][Closes]_vars BY DEF DeathClosesOnlyTheDead
<1> HIDE DEF Inv, Closes
<1> QED BY <1>1, <1>2, <1>3, <1>4, TypeCorrect, SectionInvariant, PTL DEF Spec

-----------------------------------------------------------------------------
(* Who is responsible for a request.                                        *)

\* Somebody will resolve the future of r.
Owned(r) ==
    \/ admitting = r
    \/ r \in queued
    \/ sub.req = r /\ ~SessionLocked
    \/ store[r] # Absent
    \/ rsp.req = r /\ rsp.pc \in {"taken", "failing"}
    \/ wd.taken[r] # Absent
    \/ shut.taken[r] # Absent

OwnedInv == \A r \in Requests : result[r] = "waiting" => Owned(r)

\* A thread that resolves no request has none in hand.
LocalsInv ==
    /\ sub.pc \in {"idle", "stopped"} => sub.req = NoRequest
    /\ wd.pc \notin {"expired", "failing"} => \A r \in Requests : wd.taken[r] = Absent
    /\ shut.pc # "fail" => \A r \in Requests : shut.taken[r] = Absent
    /\ shut.pc # "idle" => control \in {"Closing", "Closed"}

\* A future has an owner exactly when somebody will resolve it.
LEMMA OwnersOwn == \A r \in Requests : Owned(r) <=> Owners(r) # {}
<1> SUFFICES ASSUME NEW r \in Requests PROVE Owned(r) <=> Owners(r) # {} OBVIOUS
<1> USE DEF Owners
<1>1. "caller" \in Owners(r) <=> admitting = r BY Zenon
<1>2. "queue" \in Owners(r) <=> r \in queued BY Zenon
<1>3. "submit" \in Owners(r) <=> sub.req = r /\ ~SessionLocked BY Zenon
<1>4. "store" \in Owners(r) <=> store[r] # Absent BY Zenon
<1>5. "response" \in Owners(r) <=> rsp.req = r /\ rsp.pc \in {"taken", "failing"} BY Zenon
<1>6. "watchdog" \in Owners(r) <=> wd.taken[r] # Absent BY Zenon
<1>7. "shutdown" \in Owners(r) <=> shut.taken[r] # Absent BY Zenon
<1>8. Owners(r) \subseteq {"caller", "queue", "submit", "store", "response", "watchdog", "shutdown"}
  BY Zenon
<1> HIDE DEF Owners
<1> QED BY <1>1, <1>2, <1>3, <1>4, <1>5, <1>6, <1>7, <1>8, Zenon DEF Owned

\* A future that is still waiting after a ResolveState was none of those resolved.
LEMMA StillWaiting ==
    ASSUME NEW S, NEW status \in Statuses, ResolveState(S, status),
           NEW r \in Requests, result'[r] = "waiting"
    PROVE  result[r] = "waiting" /\ r \notin S
<1>1. status # "waiting" BY Zenon DEF Statuses
<1>2. result'[r] = IF r \in S /\ result[r] = "waiting" THEN status ELSE result[r]
  BY Zenon DEF ResolveState
<1> QED BY <1>1, <1>2, Zenon

\* SubmitWorker going on, or giving its request up, keeps the request in hand.
LEMMA SubmitKeepsRequest ==
    ASSUME TypeOK
    PROVE  /\ \A next : SubmitGoto(next) => sub'.pc = next /\ sub'.req = sub.req
           /\ \A status : SubmitGiveUp(status) => sub'.pc = "fail" /\ sub'.req = sub.req
<1>0. sub \in SubmitStates BY Zenon DEF TypeOK
<1> QED BY <1>0, Zenon DEF SubmitGoto, SubmitGiveUp, SubmitStates

\* The steps of SubmitWorker that give nothing to another owner.
SubmitKeeps ==
    \/ SubmitEnsure \/ SubmitStopped \/ SubmitEnsured \/ WaitForRecoveryState
    \/ SyncActiveRequestCreditWait \/ NoRequestCreditHandle \/ WaitForRequestCredit
    \/ SubmitClose \/ SubmitClosed \/ SubmitFail

\* They keep the request in hand and its future as it is, outside sessionMutex_.
LEMMA SubmitKeepsLocals ==
    TypeOK /\ SubmitKeeps =>
        /\ UNCHANGED requests /\ sub'.req = sub.req
        /\ sub.pc \notin {"idle", "stopped", "pushing", "pushed"}
        /\ sub'.pc \notin {"idle", "stopped", "pushing", "pushed"}
<1> SUFFICES ASSUME TypeOK, SubmitKeeps
             PROVE  /\ UNCHANGED requests /\ sub'.req = sub.req
                    /\ sub.pc \notin {"idle", "stopped", "pushing", "pushed"}
                    /\ sub'.pc \notin {"idle", "stopped", "pushing", "pushed"}
  BY Zenon
<1>0. sub \in SubmitStates BY Zenon DEF TypeOK
<1>1. UNCHANGED requests
  BY ZenonT(30) DEF SubmitKeeps, SubmitOnly, SubmitEnsure, SubmitStopped, SubmitEnsured,
     WaitForRecoveryState, SyncActiveRequestCreditWait, NoRequestCreditHandle, WaitForRequestCredit,
     SubmitClose, SubmitClosed, SubmitFail
<1>2. sub.pc \notin {"idle", "stopped", "pushing", "pushed"}
  BY ZenonT(30) DEF SubmitKeeps, SubmitEnsure, SubmitStopped, SubmitEnsured,
     WaitForRecoveryState, SyncActiveRequestCreditWait, NoRequestCreditHandle, WaitForRequestCredit,
     SubmitClose, SubmitClosed, SubmitFail
<1>3. ASSUME \/ \E next \in {"ensuring", "push", "cooldown", "retry", "loop", "disconnected",
                             "closing", "failing"} : SubmitGoto(next)
             \/ \E status : SubmitGiveUp(status)
      PROVE  sub'.req = sub.req /\ sub'.pc \notin {"idle", "stopped", "pushing", "pushed"}
  BY <1>3, SubmitKeepsRequest, Zenon
<1>4. CASE SubmitEnsure \/ SubmitStopped \/ SubmitEnsured \/ WaitForRecoveryState \/ NoRequestCreditHandle
  <2>1. \/ SubmitGoto("ensuring") \/ SubmitGoto("push") \/ SubmitGoto("cooldown") \/ SubmitGoto("retry")
        \/ SubmitGoto("loop") \/ SubmitGoto("disconnected") \/ \E status : SubmitGiveUp(status)
    BY <1>4, Zenon DEF SubmitEnsure, SubmitStopped, SubmitEnsured, WaitForRecoveryState,
       NoRequestCreditHandle
  <2> QED BY <1>1, <1>2, <1>3, <2>1, Zenon
<1>5. CASE SubmitClose \/ SubmitClosed \/ SubmitFail
  <2>1. SubmitGoto("closing") \/ SubmitGoto("loop") \/ SubmitGoto("failing")
    BY <1>5, Zenon DEF SubmitClose, SubmitClosed, SubmitFail
  <2> QED BY <1>1, <1>2, <1>3, <2>1, Zenon
<1>6. CASE SyncActiveRequestCreditWait
  <2>1. sub'.req = sub.req /\ (sub'.pc = "creditNone" \/ sub'.pc = "creditWait")
    BY <1>0, <1>6, Zenon DEF SyncActiveRequestCreditWait, SubmitStates
  <2> QED BY <1>1, <1>2, <2>1, Zenon
<1>7. CASE WaitForRequestCredit
  <2>1. sub'.req = sub.req /\ (sub'.pc = "loop" \/ sub'.pc = "disconnected")
    BY <1>0, <1>7, Zenon DEF WaitForRequestCredit, SubmitStates
  <2> QED BY <1>1, <1>2, <2>1, Zenon
<1> QED BY <1>4, <1>5, <1>6, <1>7, ZenonT(60) DEF SubmitKeeps

\* SubmitWorker gives its request away before it waits for the next one.
LEMMA SubmitLocals ==
    TypeOK /\ (sub.pc \in {"idle", "stopped"} => sub.req = NoRequest) /\ SubmitWorker =>
        (sub'.pc \in {"idle", "stopped"} => sub'.req = NoRequest)
<1> SUFFICES ASSUME TypeOK, sub.pc \in {"idle", "stopped"} => sub.req = NoRequest, SubmitWorker
             PROVE  sub'.pc \in {"idle", "stopped"} => sub'.req = NoRequest
  BY Zenon
<1>0. sub \in SubmitStates BY Zenon DEF TypeOK
<1>1. CASE SubmitKeeps BY <1>1, SubmitKeepsLocals, Zenon
<1>2. CASE SubmitPop
  <2>1. sub'.pc = "loop" BY <1>0, <1>2, Zenon DEF SubmitPop, SubmitStates
  <2> QED BY <2>1, Zenon
<1>3. CASE SubmitExit
  <2>1. sub'.req = sub.req BY <1>3, SubmitKeepsRequest, Zenon DEF SubmitExit
  <2> QED BY <1>3, <2>1, Zenon DEF SubmitExit
<1>4. CASE sub' = IdleSubmit BY <1>4, Zenon DEF IdleSubmit
<1>5. CASE TryPushRequest \/ PushRequest \/ PushRequestRecheck \/ SubmitFailed
  <2>1. \/ sub' = IdleSubmit
        \/ \E next \in {"disconnected", "pushing", "credit", "pushed"} : SubmitGoto(next)
        \/ \E status : SubmitGiveUp(status)
    BY <1>5, Zenon DEF TryPushRequest, PushRequest, PushRequestRecheck, SubmitFailed
  <2>2. ASSUME NEW next \in {"disconnected", "pushing", "credit", "pushed"}, SubmitGoto(next)
        PROVE  sub'.pc \notin {"idle", "stopped"}
    BY <2>2, SubmitKeepsRequest, Zenon
  <2>3. ASSUME NEW status, SubmitGiveUp(status) PROVE sub'.pc \notin {"idle", "stopped"}
    BY <2>3, SubmitKeepsRequest, Zenon
  <2> QED BY <1>4, <2>1, <2>2, <2>3, Zenon
<1> QED BY <1>1, <1>2, <1>3, <1>5, ZenonT(60) DEF SubmitWorker, SubmitKeeps

\* WatchdogLoop leaves its scan only when it has resolved all it took.
LEMMA WatchdogLocals ==
    /\ TypeOK /\ Watchdog
    /\ wd.pc \notin {"expired", "failing"} => \A r \in Requests : wd.taken[r] = Absent
    => (wd'.pc \notin {"expired", "failing"} => \A r \in Requests : wd'.taken[r] = Absent)
<1> SUFFICES ASSUME TypeOK, Watchdog, NEW r \in Requests, wd'.pc \notin {"expired", "failing"},
                    wd.pc \notin {"expired", "failing"} => \A q \in Requests : wd.taken[q] = Absent
             PROVE  wd'.taken[r] = Absent
  BY Zenon
<1>0. wd \in WatchdogStates BY Zenon DEF TypeOK
<1>1. CASE TakeExpired \/ WatchdogFail \/ WatchdogFailed
  <2>1. wd'.pc \in {"expired", "failing"}
    BY <1>0, <1>1, Zenon DEF TakeExpired, WatchdogFail, WatchdogFailed, WatchdogStates
  <2> QED BY <2>1, Zenon
<1>2. \A next, observed : WatchdogGoto(next, observed) => wd'.taken = wd.taken
  BY <1>0, Zenon DEF WatchdogGoto, WatchdogStates
<1>3. CASE MaybeRunHealthCheck
  <2>1. wd'.taken = wd.taken BY <1>2, <1>3, Zenon DEF MaybeRunHealthCheck
  <2>2. wd.taken[r] = Absent BY <1>3, Zenon DEF MaybeRunHealthCheck, In
  <2> QED BY <2>1, <2>2, Zenon
<1>4. CASE \/ RequestHealthCheckRecovery \/ HealthCheckRecovered \/ MaybeRunIdlePolicy
           \/ HandleIdleRecovery \/ IdleRecoveryHandled \/ WatchdogWait
  <2>1. wd'.taken = wd.taken
    BY <1>2, <1>4, Zenon DEF RequestHealthCheckRecovery, HealthCheckRecovered, MaybeRunIdlePolicy,
       HandleIdleRecovery, IdleRecoveryHandled, WatchdogWait
  <2>2. wd.pc \notin {"expired", "failing"}
    BY <1>4, Zenon DEF RequestHealthCheckRecovery, HealthCheckRecovered, MaybeRunIdlePolicy,
       HandleIdleRecovery, IdleRecoveryHandled, WatchdogWait
  <2> QED BY <2>1, <2>2, Zenon
<1> QED BY <1>1, <1>3, <1>4, Zenon DEF Watchdog

\* Shutdown takes the store only to resolve it.
LEMMA ShutdownLocals ==
    /\ TypeOK /\ (BeginShutdown \/ ShutdownSteps)
    /\ shut.pc # "fail" => \A r \in Requests : shut.taken[r] = Absent
    => (shut'.pc # "fail" => \A r \in Requests : shut'.taken[r] = Absent)
<1> SUFFICES ASSUME TypeOK, BeginShutdown \/ ShutdownSteps, NEW r \in Requests, shut'.pc # "fail",
                    shut.pc # "fail" => \A q \in Requests : shut.taken[q] = Absent
             PROVE  shut'.taken[r] = Absent
  BY Zenon
<1>0. shut \in ShutdownStates BY Zenon DEF TypeOK
<1>1. CASE ShutdownTakeAll BY <1>1, Zenon DEF ShutdownTakeAll
<1>2. CASE ShutdownFailPending BY <1>2, Zenon DEF ShutdownFailPending, EmptyStore
<1>3. CASE \/ BeginShutdown \/ ShutdownClose \/ ShutdownClosed \/ StopThreads \/ JoinThreads
           \/ FailQueuedSubmissions \/ FinishShutdown
  <2>0. \A next : ShutdownGoto(next) => shut'.taken = shut.taken
    BY <1>0, Zenon DEF ShutdownGoto, ShutdownStates
  <2>1. shut'.taken = shut.taken
    BY <1>3, <2>0, Zenon DEF BeginShutdown, ShutdownClose, ShutdownClosed, StopThreads, JoinThreads,
       FailQueuedSubmissions, FinishShutdown
  <2>2. shut.pc # "fail"
    BY <1>3, Zenon DEF BeginShutdown, ShutdownClose, ShutdownClosed, StopThreads, JoinThreads,
       FailQueuedSubmissions, FinishShutdown
  <2> QED BY <2>1, <2>2, Zenon
<1> QED BY <1>1, <1>2, <1>3, Zenon DEF ShutdownSteps

\* Init leaves Shutdown's batch alone, and calls Shutdown only when nobody else has.
LEMMA InitLocals ==
    TypeOK /\ (shut.pc # "idle" => control \in {"Closing", "Closed"}) /\ InitThread =>
        /\ shut'.taken = shut.taken
        /\ shut' = shut \/ (shut.pc = "idle" /\ shut'.pc = "terminal")
        /\ shut'.pc # "idle" => control' \in {"Closing", "Closed"}
<1> SUFFICES ASSUME TypeOK, shut.pc # "idle" => control \in {"Closing", "Closed"}, InitThread
             PROVE  /\ shut'.taken = shut.taken
                    /\ shut' = shut \/ (shut.pc = "idle" /\ shut'.pc = "terminal")
                    /\ shut'.pc # "idle" => control' \in {"Closing", "Closed"}
  BY Zenon
<1>0. shut \in ShutdownStates BY Zenon DEF TypeOK
<1>1. CASE InitFailed
  <2>1. CASE control \in {"Closing", "Closed"} BY <1>1, <2>1, Zenon DEF InitFailed
  <2>2. CASE control \notin {"Closing", "Closed"}
    <3>1. shut' = [shut EXCEPT !.pc = "terminal"] /\ control' = "Closing"
      BY <1>1, <2>2, Zenon DEF InitFailed
    <3>2. shut'.taken = shut.taken /\ shut'.pc = "terminal"
      BY <1>0, <3>1, Zenon DEF ShutdownStates
    <3> QED BY <2>2, <3>1, <3>2, Zenon
  <2> QED BY <2>1, <2>2, Zenon
<1>2. CASE FinishInit
  <2>1. shut' = shut /\ control' = IF control = "Uninitialized" THEN "Open" ELSE control
    BY <1>2, Zenon DEF FinishInit
  <2> QED BY <2>1, Zenon
<1>3. CASE \/ InitCall \/ PrepareForInitOpen \/ StartThreads \/ InitEnsure \/ InitEnsured
           \/ InitShutdownReturned
  <2>1. shut' = shut /\ control' = control
    BY <1>3, Zenon DEF InitCall, PrepareForInitOpen, StartThreads, InitEnsure, InitEnsured,
       InitShutdownReturned, InitOnly
  <2> QED BY <2>1, Zenon
<1> QED BY <1>1, <1>2, <1>3, Zenon DEF InitThread

\* Every step of every thread preserves what the threads have in hand.
LEMMA LocalsStep == TypeOK /\ LocalsInv /\ [Next]_vars => LocalsInv'
<1> SUFFICES ASSUME TypeOK, LocalsInv, [Next]_vars PROVE LocalsInv' OBVIOUS
<1>1. sub'.pc \in {"idle", "stopped"} => sub'.req = NoRequest
  <2>1. ~SubmitWorker => sub' = sub \/ sub' = IdleSubmit
    BY StepCases, SectionLeaves, CallerLeaves, ResponseLeaves, WatchdogLeaves, CallbacksLeave,
       InitThreadLeaves, ShutdownLeaves, EngineLeaves, Zenon DEF vars
  <2>2. IdleSubmit.req = NoRequest BY Zenon DEF IdleSubmit
  <2> QED BY <2>1, <2>2, SubmitLocals, Zenon DEF LocalsInv
<1>2. wd'.pc \notin {"expired", "failing"} => \A r \in Requests : wd'.taken[r] = Absent
  <2>1. ~Watchdog => wd' = wd \/ wd' = IdleWatchdog
    BY StepCases, SectionLeaves, CallerLeaves, SubmitLeaves, ResponseLeaves, CallbacksLeave,
       InitThreadLeaves, ShutdownLeaves, EngineLeaves, Zenon DEF vars
  <2>2. \A r \in Requests : IdleWatchdog.taken[r] = Absent BY Zenon DEF IdleWatchdog, EmptyStore
  <2> QED BY <2>1, <2>2, WatchdogLocals, Zenon DEF LocalsInv
<1>3. /\ shut'.pc # "fail" => \A r \in Requests : shut'.taken[r] = Absent
      /\ shut'.pc # "idle" => control' \in {"Closing", "Closed"}
  <2>1. CASE InitThread
    <3>1. /\ shut'.taken = shut.taken
          /\ shut' = shut \/ (shut.pc = "idle" /\ shut'.pc = "terminal")
          /\ shut'.pc # "idle" => control' \in {"Closing", "Closed"}
      BY <2>1, InitLocals, Zenon DEF LocalsInv
    <3> QED BY <3>1, Zenon DEF LocalsInv
  <2>2. CASE BeginShutdown \/ ShutdownSteps
    <3>1. control' \in {"Closing", "Closed"}
      BY <2>2, Zenon DEF LocalsInv, BeginShutdown, ShutdownSteps, ShutdownClose, ShutdownClosed,
         StopThreads, JoinThreads, ShutdownTakeAll, ShutdownFailPending, FailQueuedSubmissions,
         FinishShutdown
    <3> QED BY <2>2, <3>1, ShutdownLocals, Zenon DEF LocalsInv
  <2>3. CASE ~InitThread /\ ~(BeginShutdown \/ ShutdownSteps)
    <3>1. shut' = shut /\ control' = control
      BY <2>3, StepCases, SectionLeaves, CallerLeaves, SubmitLeaves, ResponseLeaves, WatchdogLeaves,
         CallbacksLeave, EngineLeaves, Zenon DEF vars
    <3> QED BY <3>1, Zenon DEF LocalsInv
  <2> QED BY <2>1, <2>2, <2>3, Zenon
<1> QED BY <1>1, <1>2, <1>3, Zenon DEF LocalsInv

\* A section takes a record from the store only to resolve its future.
LEMMA SectionOwned == TypeOK /\ OwnedInv /\ Section => OwnedInv'
<1> SUFFICES ASSUME TypeOK, OwnedInv, Section, NEW r \in Requests, result'[r] = "waiting" PROVE Owned(r)'
  BY Zenon DEF OwnedInv
<1>0. UNCHANGED <<admitting, queued, sub, rsp, wd, shut>> BY SectionLeaves, Zenon
<1>1. ASSUME result[r] = "waiting", store'[r] = store[r] \/ store[r] = Absent PROVE Owned(r)'
  BY <1>0, <1>1, Zenon DEF OwnedInv, Owned, SessionLocked
<1>2. CASE HandlePendingRequestsForRecovery
  <2>1. CASE UNCHANGED <<store, result>> BY <1>1, <2>1, Zenon
  <2>2. CASE sec.action # "KeepCurrentState"
    <3>1. PICK status \in {"Crashed", "PeerDisconnected"} : ResolveState(In(store), status)
      BY <1>2, <2>2, Zenon DEF HandlePendingRequestsForRecovery
    <3>2. status \in Statuses BY Zenon DEF Statuses
    <3>3. result[r] = "waiting" /\ r \notin In(store) BY <3>1, <3>2, StillWaiting, Zenon
    <3> QED BY <1>1, <3>3, Zenon DEF In
  <2> QED BY <1>2, <2>1, <2>2, Zenon DEF HandlePendingRequestsForRecovery
<1>3. CASE Section /\ ~HandlePendingRequestsForRecovery
  <2>1. UNCHANGED <<store, result>>
    BY <1>3, ZenonT(30) DEF Section, CloseLiveSessionIfSnapshotMatches, EnterIdleClosed,
       HandleEngineDeathPolicy, EnsureLiveSession, OpenSession, AttachSession, FinalizeSessionOpen,
       HandleSessionOpenFailure, CloseLiveSession, EnterTerminalClosed
  <2> QED BY <1>1, <2>1, Zenon
<1> QED BY <1>2, <1>3, Zenon

\* An admitted request stays with its caller until it is in the queue.
LEMMA CallerOwned == TypeOK /\ OwnedInv /\ Caller => OwnedInv'
<1> SUFFICES ASSUME TypeOK, OwnedInv, Caller, NEW r \in Requests, result'[r] = "waiting" PROVE Owned(r)'
  BY Zenon DEF OwnedInv
<1>0. UNCHANGED <<store, sub, rsp, wd, shut>> BY CallerLeaves, Zenon
<1>1. CASE CooldownExpires
  BY <1>0, <1>1, Zenon DEF CooldownExpires, OwnedInv, Owned, SessionLocked
<1>2. CASE EnqueueSubmit
  BY <1>0, <1>2, Zenon DEF EnqueueSubmit, OwnedInv, Owned, SessionLocked
<1>3. ASSUME NEW q \in Requests, InvokeAsync(q) PROVE Owned(r)'
  <2>0. result \in [Requests -> Results] BY Zenon DEF TypeOK
  <2>1. CASE r = q
    <3>1. admitting' = q \/ result'[q] = "ClientClosed" BY <1>3, <2>0, Zenon DEF InvokeAsync
    <3> QED BY <2>1, <3>1, Zenon DEF Owned
  <2>2. CASE r # q
    <3>1. result'[r] = result[r] BY <1>3, <2>0, <2>2, Zenon DEF InvokeAsync
    <3>2. queued' = queued /\ admitting = NoRequest BY <1>3, Zenon DEF InvokeAsync
    <3>3. r # NoRequest BY RequestsAssumption, Zenon
    <3> QED BY <1>0, <3>1, <3>2, <3>3, Zenon DEF OwnedInv, Owned, SessionLocked
  <2> QED BY <2>1, <2>2, Zenon
<1> QED BY <1>1, <1>2, <1>3, Zenon DEF Caller

\* SubmitWorker hands its request to the store before it drops it, and takes it
\* back when the push fails.
LEMMA SubmitOwned == TypeInv /\ LocalsInv /\ OwnedInv /\ SubmitWorker => OwnedInv'
<1> SUFFICES ASSUME TypeInv, LocalsInv, OwnedInv, SubmitWorker, NEW r \in Requests, result'[r] = "waiting"
             PROVE  Owned(r)'
  BY Zenon DEF OwnedInv
<1>0. UNCHANGED <<rsp, wd, shut>> BY SubmitLeaves, Zenon
<1>t. TypeOK BY Zenon DEF TypeInv
<1>s. sub \in SubmitStates /\ store \in Stores BY <1>t, Zenon DEF TypeOK
<1>1. CASE SubmitKeeps
  <2>1. UNCHANGED requests /\ sub'.req = sub.req /\ sub'.pc \notin {"pushing", "pushed"}
    BY <1>1, <1>t, SubmitKeepsLocals, Zenon
  <2> QED BY <1>0, <2>1, Zenon DEF OwnedInv, Owned, SessionLocked
<1>2. CASE SubmitPop
  <2>1. PICK q \in queued : queued' = queued \ {q} /\ sub' = [sub EXCEPT !.pc = "loop", !.req = q, !.info = session]
    BY <1>2, Zenon DEF SubmitPop
  <2>2. sub'.pc = "loop" /\ sub'.req = q BY <1>s, <2>1, Zenon DEF SubmitStates
  <2>3. UNCHANGED <<admitting, store, result>> BY <1>2, Zenon DEF SubmitPop
  <2>4. sub.req = NoRequest BY <1>2, Zenon DEF SubmitPop, LocalsInv
  <2>5. r # NoRequest BY RequestsAssumption, Zenon
  <2> QED BY <1>0, <2>1, <2>2, <2>3, <2>4, <2>5, Zenon DEF OwnedInv, Owned, SessionLocked
<1>3. CASE SubmitExit
  <2>1. UNCHANGED requests BY <1>3, Zenon DEF SubmitExit, SubmitOnly
  <2>2. sub'.pc = "stopped" /\ sub'.req = sub.req BY <1>3, <1>t, SubmitKeepsRequest, Zenon DEF SubmitExit
  <2> QED BY <1>0, <2>1, <2>2, Zenon DEF OwnedInv, Owned, SessionLocked
<1>4. CASE TryPushRequest
  <2>1. UNCHANGED <<admitting, queued, result>> /\ sub.pc = "push" BY <1>4, Zenon DEF TryPushRequest
  <2>2. CASE UNCHANGED store /\ (SubmitGoto("disconnected") \/ SubmitGiveUp("PayloadTooLarge"))
    <3>0. sub'.req = sub.req /\ (sub'.pc = "disconnected" \/ sub'.pc = "fail")
      BY <1>t, <2>2, SubmitKeepsRequest, Zenon
    <3>1. sub'.req = sub.req /\ sub'.pc \notin {"pushing", "pushed"} BY <3>0, Zenon
    <3> QED BY <1>0, <2>1, <2>2, <3>1, Zenon DEF OwnedInv, Owned, SessionLocked
  <2>3. CASE store' = [store EXCEPT ![sub.req] = session] /\ SubmitGoto("pushing")
    <3>1. sub'.req = sub.req BY <1>t, <2>3, SubmitKeepsRequest, Zenon
    <3>2. store'[r] = IF r = sub.req THEN session ELSE store[r] BY <1>s, <2>3, Zenon DEF Stores
    <3>3. session # Absent
      <4>1. session \in SessionIds BY <1>t, Zenon DEF TypeOK
      <4> QED BY <4>1, MaxSessionAssumption, SMT, Z3 DEF SessionIds, Absent
    <3> QED BY <1>0, <2>1, <3>1, <3>2, <3>3, Zenon DEF OwnedInv, Owned, SessionLocked
  <2> QED BY <1>4, <2>2, <2>3, Zenon DEF TryPushRequest
<1>5. ASSUME TakeBack, SubmitGoto("disconnected") \/ SubmitGoto("credit"), UNCHANGED <<admitting, queued, result>>
      PROVE  Owned(r)'
  <2>0. sub'.req = sub.req /\ (sub'.pc = "disconnected" \/ sub'.pc = "credit")
    BY <1>t, <1>5, SubmitKeepsRequest, Zenon
  <2>1. sub'.req = sub.req /\ sub'.pc \notin {"pushing", "pushed"} BY <2>0, Zenon
  <2>2. store'[r] = IF r = sub.req THEN Absent ELSE store[r] BY <1>s, <1>5, Zenon DEF TakeBack, Stores
  <2> QED BY <1>0, <1>5, <2>1, <2>2, Zenon DEF OwnedInv, Owned, SessionLocked
<1>6. CASE PushRequest
  <2>1. UNCHANGED <<admitting, queued, result>> /\ sub.pc = "pushing" BY <1>6, Zenon DEF PushRequest
  <2>2. CASE SubmitGoto("pushed") /\ UNCHANGED store
    <3>1. sub'.pc = "pushed" BY <1>t, <2>2, SubmitKeepsRequest, Zenon
    <3> QED BY <1>0, <2>1, <2>2, <3>1, Zenon DEF OwnedInv, Owned, SessionLocked
  <2> QED BY <1>5, <1>6, <2>1, <2>2, Zenon DEF PushRequest
<1>7. CASE PushRequestRecheck
  <2>1. UNCHANGED <<admitting, queued, result>> /\ sub.pc = "pushed" BY <1>7, Zenon DEF PushRequestRecheck
  <2>2. CASE UNCHANGED store BY <1>0, <2>1, <2>2, Zenon DEF OwnedInv, Owned, SessionLocked
  <2> QED BY <1>5, <1>7, <2>1, <2>2, Zenon DEF PushRequestRecheck
<1>8. CASE SubmitFailed
  <2>1. UNCHANGED <<admitting, queued, store>> BY <1>8, Zenon DEF SubmitFailed
  <2>2. sub.status \in Statuses BY <1>s, Zenon DEF SubmitStates
  <2>3. result[r] = "waiting" /\ r # sub.req BY <1>8, <2>2, StillWaiting, Zenon DEF SubmitFailed
  <2> QED BY <1>0, <2>1, <2>3, Zenon DEF OwnedInv, Owned, SessionLocked
<1> QED BY <1>1, <1>2, <1>3, <1>4, <1>6, <1>7, <1>8, Zenon DEF SubmitWorker, SubmitKeeps

\* ResponseWorker takes a record from the store only to resolve its future.
LEMMA ResponseOwned == TypeInv /\ OwnedInv /\ ResponseWorker => OwnedInv'
<1> SUFFICES ASSUME TypeInv, OwnedInv, ResponseWorker, NEW r \in Requests, result'[r] = "waiting"
             PROVE  Owned(r)'
  BY Zenon DEF OwnedInv
<1>0. UNCHANGED <<admitting, queued, sub, wd, shut>> BY ResponseLeaves, Zenon
<1>t. TypeOK BY Zenon DEF TypeInv
<1>s. rsp \in ResponseStates /\ store \in Stores BY <1>t, Zenon DEF TypeOK
<1>1. CASE ResolveCompletedRequest
  <2>1. rsp.pc = "entry" BY <1>1, Zenon DEF ResolveCompletedRequest
  <2>2. store'[r] = IF r = rsp.req THEN Absent ELSE store[r]
    BY <1>s, <1>1, Zenon DEF ResolveCompletedRequest, Stores
  <2>3. CASE store[rsp.req] # Absent /\ rsp.status # "Ok"
    <3>1. result' = result /\ rsp' = [rsp EXCEPT !.pc = "taken", !.info = store[rsp.req]]
      BY <1>1, <2>3, Zenon DEF ResolveCompletedRequest
    <3>2. rsp'.pc = "taken" /\ rsp'.req = rsp.req BY <1>s, <3>1, Zenon DEF ResponseStates
    <3> QED BY <1>0, <2>1, <2>2, <3>1, <3>2, Zenon DEF OwnedInv, Owned, SessionLocked
  <2>4. CASE ~(store[rsp.req] # Absent /\ rsp.status # "Ok")
    <3>1. ResolveState({q \in {rsp.req} : store[q] # Absent}, "Ok")
      BY <1>1, <2>4, Zenon DEF ResolveCompletedRequest
    <3>2. "Ok" \in Statuses BY Zenon DEF Statuses
    <3>3. result[r] = "waiting" /\ r \notin {q \in {rsp.req} : store[q] # Absent}
      BY <3>1, <3>2, StillWaiting, Zenon
    <3>4. r = rsp.req => store[r] = Absent BY <3>3, Zenon
    <3> QED BY <1>0, <2>1, <2>2, <3>3, <3>4, Zenon DEF OwnedInv, Owned, SessionLocked
  <2> QED BY <2>3, <2>4, Zenon
<1>2. CASE ResponseFail
  <2>1. UNCHANGED <<store, result>> BY <1>2, Zenon DEF ResponseFail
  <2>2. rsp'.pc = "failing" /\ rsp'.req = rsp.req
    BY <1>s, <1>2, Zenon DEF ResponseFail, ResponseGoto, ResponseStates
  <2> QED BY <1>0, <2>1, <2>2, Zenon DEF OwnedInv, Owned, SessionLocked
<1>3. CASE ResponseFailed
  <2>1. store' = store BY <1>3, Zenon DEF ResponseFailed
  <2>2. rsp.status \in Statuses
    <3>1. rsp.status \in {"Ok", "Failed"}
      BY <1>s, <1>3, Zenon DEF ResponseFailed, TypeInv, RepliesNameRequests, ResponseStates, ReplyStatuses
    <3> QED BY <3>1, Zenon DEF Statuses
  <2>3. result[r] = "waiting" /\ r # rsp.req BY <1>3, <2>2, StillWaiting, Zenon DEF ResponseFailed
  <2> QED BY <1>0, <2>1, <2>3, Zenon DEF OwnedInv, Owned, SessionLocked
<1>4. CASE \/ ResponseCheckRunning \/ PopResponse \/ ResponseRingDrained
           \/ ReadNotificationGeneration \/ SyncActivePollSession \/ WaitForNotification
           \/ WaitForResponseSignal \/ ResponseBadEntry \/ ResponseDeath \/ ResponseDeathHandled
  <2>1. UNCHANGED <<store, result>>
    BY <1>4, ZenonT(30) DEF ResponseOnly, ResponseCheckRunning, PopResponse, ResponseRingDrained,
       ReadNotificationGeneration, SyncActivePollSession, WaitForNotification, WaitForResponseSignal,
       ResponseBadEntry, ResponseDeath, ResponseDeathHandled
  <2>2. rsp.pc \notin {"taken", "failing"}
    BY <1>4, ZenonT(30) DEF ResponseCheckRunning, PopResponse, ResponseRingDrained,
       ReadNotificationGeneration, SyncActivePollSession, WaitForNotification, WaitForResponseSignal,
       ResponseBadEntry, ResponseDeath, ResponseDeathHandled
  <2> QED BY <1>0, <2>1, <2>2, Zenon DEF OwnedInv, Owned, SessionLocked
<1> QED BY <1>1, <1>2, <1>3, <1>4, Zenon DEF ResponseWorker

\* WatchdogLoop resolves everything it takes from the store.
LEMMA WatchdogOwned == TypeOK /\ LocalsInv /\ OwnedInv /\ Watchdog => OwnedInv'
<1> SUFFICES ASSUME TypeOK, LocalsInv, OwnedInv, Watchdog, NEW r \in Requests, result'[r] = "waiting"
             PROVE  Owned(r)'
  BY Zenon DEF OwnedInv
<1>0. UNCHANGED <<admitting, queued, sub, rsp, shut>> BY WatchdogLeaves, Zenon
<1>s. wd \in WatchdogStates /\ store \in Stores BY Zenon DEF TypeOK
<1>1. CASE TakeExpired
  <2>1. PICK E \in SUBSET Expirable :
          /\ wd' = [wd EXCEPT !.pc = "expired",
                       !.taken = [q \in Requests |-> IF q \in E THEN store[q] ELSE Absent]]
          /\ store' = [q \in Requests |-> IF q \in E THEN Absent ELSE store[q]]
    BY <1>1, Zenon DEF TakeExpired
  <2>2. wd'.taken = [q \in Requests |-> IF q \in E THEN store[q] ELSE Absent]
    BY <1>s, <2>1, Zenon DEF WatchdogStates
  <2>3. /\ r \in E => wd'.taken[r] = store[r]
        /\ r \notin E => store'[r] = store[r]
    BY <2>1, <2>2, Zenon
  <2>4. wd.taken[r] = Absent BY <1>1, Zenon DEF TakeExpired, LocalsInv
  <2>5. result' = result BY <1>1, Zenon DEF TakeExpired
  <2> QED BY <1>0, <2>3, <2>4, <2>5, Zenon DEF OwnedInv, Owned, SessionLocked
<1>2. CASE WatchdogFail
  <2>1. UNCHANGED <<store, result>> BY <1>2, Zenon DEF WatchdogFail
  <2>2. wd'.taken = wd.taken BY <1>s, <1>2, Zenon DEF WatchdogFail, WatchdogStates
  <2> QED BY <1>0, <2>1, <2>2, Zenon DEF OwnedInv, Owned, SessionLocked
<1>3. CASE WatchdogFailed
  <2>1. store' = store BY <1>3, Zenon DEF WatchdogFailed
  <2>2. "ExecTimeout" \in Statuses BY Zenon DEF Statuses
  <2>3. result[r] = "waiting" /\ r # wd.req BY <1>3, <2>2, StillWaiting, Zenon DEF WatchdogFailed
  <2>4. wd' = [wd EXCEPT !.pc = "expired", !.taken[wd.req] = Absent, !.req = NoRequest]
    BY <1>3, Zenon DEF WatchdogFailed
  <2>5. wd'.taken = [wd.taken EXCEPT ![wd.req] = Absent] BY <1>s, <2>4, Zenon DEF WatchdogStates
  <2>6. wd.taken \in Stores BY <1>s, Zenon DEF WatchdogStates
  <2>7. wd'.taken[r] = wd.taken[r] BY <2>3, <2>5, <2>6, Zenon DEF Stores
  <2> QED BY <1>0, <2>1, <2>3, <2>7, Zenon DEF OwnedInv, Owned, SessionLocked
<1>4. CASE \/ MaybeRunHealthCheck \/ RequestHealthCheckRecovery \/ HealthCheckRecovered
           \/ MaybeRunIdlePolicy \/ HandleIdleRecovery \/ IdleRecoveryHandled \/ WatchdogWait
  <2>0. \A next, observed : WatchdogGoto(next, observed) => wd'.taken = wd.taken
    BY <1>s, Zenon DEF WatchdogGoto, WatchdogStates
  <2>1. UNCHANGED <<store, result>>
    BY <1>4, Zenon DEF MaybeRunHealthCheck, RequestHealthCheckRecovery, HealthCheckRecovered,
       MaybeRunIdlePolicy, HandleIdleRecovery, IdleRecoveryHandled, WatchdogWait
  <2>2. wd'.taken = wd.taken
    BY <1>4, <2>0, Zenon DEF MaybeRunHealthCheck, RequestHealthCheckRecovery, HealthCheckRecovered,
       MaybeRunIdlePolicy, HandleIdleRecovery, IdleRecoveryHandled, WatchdogWait
  <2> QED BY <1>0, <2>1, <2>2, Zenon DEF OwnedInv, Owned, SessionLocked
<1> QED BY <1>1, <1>2, <1>3, <1>4, Zenon DEF Watchdog

\* Init starts workers that have nothing in hand, where stopped ones had nothing either.
LEMMA InitOwned == TypeOK /\ LocalsInv /\ OwnedInv /\ InitThread => OwnedInv'
<1> SUFFICES ASSUME TypeOK, LocalsInv, OwnedInv, InitThread, NEW r \in Requests, result'[r] = "waiting"
             PROVE  Owned(r)'
  BY Zenon DEF OwnedInv
<1>0. UNCHANGED requests BY InitThreadLeaves, Zenon
<1>1. shut'.taken = shut.taken BY InitLocals, Zenon DEF LocalsInv
<1>2. CASE UNCHANGED <<sub, rsp, wd>>
  BY <1>0, <1>1, <1>2, Zenon DEF OwnedInv, Owned, SessionLocked
<1>3. CASE WorkersStopped
  <2>1. sub.pc = "stopped" /\ rsp.pc = "stopped" /\ wd.pc = "stopped" BY <1>3, Zenon DEF WorkersStopped
  <2>2. sub.req = NoRequest /\ wd.taken[r] = Absent BY <2>1, Zenon DEF LocalsInv
  <2>3. r # NoRequest BY RequestsAssumption, Zenon
  <2>4. admitting = r \/ r \in queued \/ store[r] # Absent \/ shut.taken[r] # Absent
    BY <1>0, <2>1, <2>2, <2>3, Zenon DEF OwnedInv, Owned
  <2> QED BY <1>0, <1>1, <2>4, Zenon DEF Owned
<1> QED BY <1>2, <1>3, InitThreadLeaves, Zenon

\* Shutdown resolves everything it takes from the store and from the queue.
LEMMA ShutdownOwned ==
    TypeOK /\ LocalsInv /\ OwnedInv /\ (BeginShutdown \/ ShutdownSteps) => OwnedInv'
<1> SUFFICES ASSUME TypeOK, LocalsInv, OwnedInv, BeginShutdown \/ ShutdownSteps,
                    NEW r \in Requests, result'[r] = "waiting"
             PROVE  Owned(r)'
  BY Zenon DEF OwnedInv
<1>0. UNCHANGED <<admitting, sub, rsp, wd>> BY ShutdownLeaves, Zenon
<1>s. shut \in ShutdownStates BY Zenon DEF TypeOK
<1>c. "ClientClosed" \in Statuses BY Zenon DEF Statuses
<1>1. CASE ShutdownTakeAll
  <2>1. shut'.taken = store /\ UNCHANGED <<queued, result>> BY <1>1, Zenon DEF ShutdownTakeAll
  <2>2. shut.taken[r] = Absent BY <1>1, Zenon DEF ShutdownTakeAll, LocalsInv
  <2> QED BY <1>0, <2>1, <2>2, Zenon DEF OwnedInv, Owned, SessionLocked
<1>2. CASE ShutdownFailPending
  <2>1. UNCHANGED <<queued, store>> BY <1>2, Zenon DEF ShutdownFailPending
  <2>2. result[r] = "waiting" /\ r \notin In(shut.taken)
    BY <1>c, <1>2, StillWaiting, Zenon DEF ShutdownFailPending
  <2>3. shut.taken[r] = Absent BY <2>2, Zenon DEF In
  <2> QED BY <1>0, <2>1, <2>2, <2>3, Zenon DEF OwnedInv, Owned, SessionLocked
<1>3. \A next : ShutdownGoto(next) => shut'.taken = shut.taken
  BY <1>s, Zenon DEF ShutdownGoto, ShutdownStates
<1>4. CASE FailQueuedSubmissions
  <2>1. store' = store /\ shut'.taken = shut.taken BY <1>3, <1>4, Zenon DEF FailQueuedSubmissions
  <2>2. result[r] = "waiting" /\ r \notin queued
    BY <1>c, <1>4, StillWaiting, Zenon DEF FailQueuedSubmissions
  <2> QED BY <1>0, <2>1, <2>2, Zenon DEF OwnedInv, Owned, SessionLocked
<1>5. CASE \/ BeginShutdown \/ ShutdownClose \/ ShutdownClosed \/ StopThreads \/ JoinThreads
           \/ FinishShutdown
  <2>1. shut'.taken = shut.taken /\ UNCHANGED <<queued, store, result>>
    BY <1>3, <1>5, Zenon DEF BeginShutdown, ShutdownClose, ShutdownClosed, StopThreads, JoinThreads,
       FinishShutdown
  <2> QED BY <1>0, <2>1, Zenon DEF OwnedInv, Owned, SessionLocked
<1> QED BY <1>1, <1>2, <1>4, <1>5, Zenon DEF ShutdownSteps

\* What the threads have in hand, and that every waiting future has an owner,
\* hold in every reachable state.
LEMMA OwnedInvariant == Spec => [](LocalsInv /\ OwnedInv)
<1>1. Init => LocalsInv /\ OwnedInv
  <2> SUFFICES ASSUME Init PROVE LocalsInv /\ OwnedInv BY SMT, Z3
  <2>1. LocalsInv BY Zenon DEF Init, LocalsInv, IdleSubmit, IdleWatchdog, EmptyStore
  <2>2. OwnedInv BY Zenon DEF Init, OwnedInv
  <2> QED BY <2>1, <2>2, Zenon
<1>2. TypeInv /\ LocalsInv /\ OwnedInv /\ [Next]_vars => (LocalsInv /\ OwnedInv)'
  <2> SUFFICES ASSUME TypeInv, LocalsInv, OwnedInv, [Next]_vars PROVE (LocalsInv /\ OwnedInv)' BY SMT, Z3
  <2>1. TypeOK BY Zenon DEF TypeInv
  <2>2. LocalsInv' BY <2>1, LocalsStep, Zenon
  <2>3. CASE Callbacks \/ Engine \/ UNCHANGED vars
    <3>1. UNCHANGED <<requests, sub, rsp, wd, shut>> BY <2>3, CallbacksLeave, EngineLeaves, Zenon DEF vars
    <3>2. OwnedInv' BY <3>1, Zenon DEF OwnedInv, Owned, SessionLocked
    <3> QED BY <2>2, <3>2, Zenon
  <2>4. CASE ~(Callbacks \/ Engine \/ UNCHANGED vars)
    <3>1. OwnedInv'
      BY <2>1, <2>4, StepCases, SectionOwned, CallerOwned, SubmitOwned, ResponseOwned, WatchdogOwned,
         InitOwned, ShutdownOwned, Zenon
    <3> QED BY <2>2, <3>1, Zenon
  <2> QED BY <2>3, <2>4, Zenon
<1> QED BY <1>1, <1>2, TypeInvariant, PTL DEF Spec

\* No waiting future is ever left without somebody responsible for it: for any
\* number of requests and sessions, any faults, and even when Shutdown overlaps
\* Init, every hand-over of rpc_client.cpp between the queue, the submit worker,
\* requestStore_, the response worker, the watchdog, a recovery and Shutdown
\* either passes the request on or resolves its future.
THEOREM NoFutureIsLost == Spec => []NeverOrphaned
<1>1. OwnedInv => NeverOrphaned BY OwnersOwn, Zenon DEF OwnedInv, NeverOrphaned
<1> QED BY <1>1, OwnedInvariant, PTL

-----------------------------------------------------------------------------
(* What Shutdown leaves, when it does not overlap Init.                     *)

Late == {"stop", "join", "take", "fail", "queue", "finish", "done"}

\* Shutdown closes the session for good: nobody opens one behind it.
CloseInv ==
    /\ shut.pc = "closing" =>
          /\ sec.owner = "shutdown" /\ sec.step \in {"terminalClose", "terminalEnter", "done"}
          /\ sec.step = "done" => session = None /\ lifecycle = "Closed"
    /\ shut.pc \in Late =>
          /\ session = None /\ lifecycle = "Closed"
          /\ sec.step \in {"none", "done", "ensure", "transportClose"}

\* The workers run only between StartThreads and StopThreads.
StopInv ==
    /\ shut.pc \in Late \ {"stop"} => ~running
    /\ ~running /\ shut.pc # "join" => WorkersStopped

\* What Shutdown has emptied stays empty.
DrainInv ==
    /\ shut.pc \in {"fail", "queue", "finish", "done"} => \A r \in Requests : store[r] = Absent
    /\ shut.pc \in {"finish", "done"} => queued = {} /\ admitting = NoRequest

\* A recovery decision made after the API was closed does nothing.
LEMMA ClosedDecision ==
    ASSUME ~IsApiOpen, NEW t, NEW a, NEW b, NEW c
    PROVE  \/ ApplyFailureRecoveryDecision(t, a)
           \/ ApplyExternalRecovery(t, a, b, c)
           \/ ApplyEngineDeath(t, a, b)
           => sec'.step = "done" /\ UNCHANGED recovery
<1>1. NothingToDo([NoSection EXCEPT !.owner = t]) => sec'.step = "done" /\ UNCHANGED recovery
  BY Zenon DEF NothingToDo, NoSection
<1>2. ApplyFailureRecoveryDecision(t, a) => NothingToDo([NoSection EXCEPT !.owner = t])
  BY Zenon DEF ApplyFailureRecoveryDecision
<1>3. ApplyExternalRecovery(t, a, b, c) => NothingToDo([NoSection EXCEPT !.owner = t])
  BY Zenon DEF ApplyExternalRecovery
<1>4. ApplyEngineDeath(t, a, b) => NothingToDo([NoSection EXCEPT !.owner = t])
  BY Zenon DEF ApplyEngineDeath
<1> QED BY <1>1, <1>2, <1>3, <1>4, Zenon

\* All that the other threads do to lifecycleMutex_ once the API is closed.
ClosedStep ==
    /\ lifecycle' = lifecycle
    /\ \/ sec' = sec
       \/ sec'.step \in {"none", "done", "ensure", "transportClose"}

\* The functions that take or release lifecycleMutex_ do no more.
LEMMA ClosedEffects ==
    ASSUME ~IsApiOpen, NEW t, NEW a, NEW b, NEW c
    PROVE  /\ Enter(t, "ensure") \/ Enter(t, "transportClose") => ClosedStep
           /\ ApplyFailureRecoveryDecision(t, a) => ClosedStep
           /\ ApplyExternalRecovery(t, a, b, c) => ClosedStep
           /\ ApplyEngineDeath(t, a, b) => ClosedStep
           /\ Leave(t) /\ UNCHANGED recovery => ClosedStep
           /\ UNCHANGED <<recovery, sec>> => ClosedStep
<1>1. Enter(t, "ensure") \/ Enter(t, "transportClose") => ClosedStep
  BY Zenon DEF Enter, ClosedStep, NoSection
<1>2. /\ ApplyFailureRecoveryDecision(t, a) => ClosedStep
      /\ ApplyExternalRecovery(t, a, b, c) => ClosedStep
      /\ ApplyEngineDeath(t, a, b) => ClosedStep
  BY ClosedDecision, Zenon DEF ClosedStep
<1>3. Leave(t) /\ UNCHANGED recovery => ClosedStep
  BY NoSectionFields, Zenon DEF Leave, ClosedStep
<1>4. UNCHANGED <<recovery, sec>> => ClosedStep BY Zenon DEF ClosedStep
<1> QED BY <1>1, <1>2, <1>3, <1>4, Zenon

\* Once the API is closed no worker, callback or Init starts a recovery.
LEMMA ClosedThreads ==
    ~IsApiOpen =>
        /\ SubmitWorker \/ ResponseWorker \/ Watchdog \/ Callbacks => ClosedStep
        /\ Caller \/ Engine \/ UNCHANGED vars => ClosedStep
        /\ InitThread /\ ini.pc # "prepare" => ClosedStep
<1> SUFFICES ASSUME ~IsApiOpen
             PROVE  /\ SubmitWorker \/ ResponseWorker \/ Watchdog \/ Callbacks => ClosedStep
                    /\ Caller \/ Engine \/ UNCHANGED vars => ClosedStep
                    /\ InitThread /\ ini.pc # "prepare" => ClosedStep
  BY Zenon
<1>1. SubmitWorker => ClosedStep
  BY ClosedEffects, ZenonT(60) DEF SubmitWorker, SubmitOnly, SubmitPop, SubmitExit,
     SubmitEnsure, SubmitStopped, SubmitEnsured, WaitForRecoveryState, TryPushRequest, PushRequest,
     PushRequestRecheck, SyncActiveRequestCreditWait, NoRequestCreditHandle, WaitForRequestCredit,
     SubmitClose, SubmitClosed, SubmitFail, SubmitFailed
<1>2. ResponseWorker => ClosedStep
  <2>1. CASE ReadNotificationGeneration BY <2>1, Zenon DEF ReadNotificationGeneration, ClosedStep
  <2>2. CASE ResponseWorker /\ ~ReadNotificationGeneration
    BY <2>2, ClosedEffects, ZenonT(60) DEF ResponseWorker, ResponseOnly, ResponseCheckRunning, PopResponse,
       ResponseRingDrained, SyncActivePollSession, WaitForNotification,
       WaitForResponseSignal, ResponseBadEntry, ResponseDeath, ResponseDeathHandled,
       ResolveCompletedRequest, ResponseFail, ResponseFailed
  <2> QED BY <2>1, <2>2, Zenon
<1>3. Watchdog => ClosedStep
  BY ClosedEffects, ZenonT(60) DEF Watchdog, TakeExpired, WatchdogFail, WatchdogFailed,
     MaybeRunHealthCheck, RequestHealthCheckRecovery, HealthCheckRecovered, MaybeRunIdlePolicy,
     HandleIdleRecovery, IdleRecoveryHandled, WatchdogWait
<1>4. Callbacks => ClosedStep
  BY ClosedEffects, ZenonT(60) DEF Callbacks, BootstrapDeathCallback, HandleEngineDeath,
     EngineDeathHandled, RequestExternalRecovery, HandleExternalRecovery, ExternalRecoveryHandled
<1>5. InitThread /\ ini.pc # "prepare" => ClosedStep
  BY ClosedEffects, ZenonT(60) DEF InitThread, InitOnly, InitCall, PrepareForInitOpen,
     StartThreads, InitEnsure, InitEnsured, InitFailed, InitShutdownReturned, FinishInit
<1>6. Caller \/ Engine \/ UNCHANGED vars => ClosedStep
  BY CallerLeaves, EngineLeaves, Zenon DEF vars, ClosedStep
<1> QED BY <1>1, <1>2, <1>3, <1>4, <1>5, <1>6, Zenon

\* A section step taken while, or after, Shutdown closes the session.
LEMMA CloseInvSection == TypeOK /\ SectionInv /\ LocalsInv /\ CloseInv /\ Section => CloseInv'
<1> SUFFICES ASSUME TypeOK, SectionInv, LocalsInv, CloseInv, Section PROVE CloseInv' OBVIOUS
<1>0. shut' = shut /\ control' = control BY SectionLeaves, Zenon
<1>1. sec'.owner = sec.owner /\ sec.step # "done" /\ sec.step # "none" BY SectionStays, Zenon
<1>s. sec \in Sections BY Zenon DEF TypeOK
<1>g. /\ \A next : Goto(next) => sec'.step = next
      /\ \A status : Return(status) => sec'.step = "done"
  BY <1>s, Zenon DEF Goto, Return, Sections
<1>2. CASE shut.pc = "closing"
  <2>1. sec.owner = "shutdown" /\ sec.step \in {"terminalClose", "terminalEnter"}
    BY <1>1, <1>2, Zenon DEF CloseInv
  <2>2. CASE sec.step = "terminalClose"
    <3>1. CloseLiveSession
      BY <2>2, ZenonT(30) DEF Section, CloseLiveSessionIfSnapshotMatches, EnterIdleClosed,
         HandlePendingRequestsForRecovery, HandleEngineDeathPolicy, EnsureLiveSession, OpenSession,
         AttachSession, FinalizeSessionOpen, HandleSessionOpenFailure, EnterTerminalClosed
    <3>2. Goto("terminalEnter") BY <2>2, <3>1, Zenon DEF CloseLiveSession
    <3>3. sec'.step = "terminalEnter" BY <1>g, <3>2, Zenon
    <3> QED BY <1>0, <1>1, <1>2, <2>1, <3>3, Zenon DEF CloseInv, Late
  <2>3. CASE sec.step = "terminalEnter"
    <3>1. EnterTerminalClosed
      BY <2>3, ZenonT(30) DEF Section, CloseLiveSessionIfSnapshotMatches, EnterIdleClosed,
         HandlePendingRequestsForRecovery, HandleEngineDeathPolicy, EnsureLiveSession, OpenSession,
         AttachSession, FinalizeSessionOpen, HandleSessionOpenFailure, CloseLiveSession
    <3>2. sec'.step = "done" /\ lifecycle' = "Closed" /\ session' = session
      BY <1>g, <3>1, Zenon DEF EnterTerminalClosed, Transition
    <3>3. session = None BY <2>3, Zenon DEF SectionInv
    <3> QED BY <1>0, <1>1, <1>2, <2>1, <3>2, <3>3, Zenon DEF CloseInv, Late
  <2> QED BY <2>1, <2>2, <2>3, Zenon
<1>3. CASE shut.pc \in Late
  <2>0. shut.pc # "closing" BY <1>3, Zenon DEF Late
  <2>1. session = None /\ lifecycle = "Closed" /\ sec.step \in {"ensure", "transportClose"}
    BY <1>1, <1>3, Zenon DEF CloseInv
  <2>2. CASE sec.step = "transportClose"
    <3>1. CloseLiveSession
      BY <2>2, ZenonT(30) DEF Section, CloseLiveSessionIfSnapshotMatches, EnterIdleClosed,
         HandlePendingRequestsForRecovery, HandleEngineDeathPolicy, EnsureLiveSession, OpenSession,
         AttachSession, FinalizeSessionOpen, HandleSessionOpenFailure, EnterTerminalClosed
    <3>2. Goto("done") BY <2>2, <3>1, Zenon DEF CloseLiveSession
    <3>3. sec'.step = "done" /\ session' = None /\ lifecycle' = lifecycle
      BY <1>g, <3>1, <3>2, Zenon DEF CloseLiveSession
    <3> QED BY <1>0, <2>0, <2>1, <3>3, Zenon DEF CloseInv
  <2>3. CASE sec.step = "ensure"
    <3>1. EnsureLiveSession
      BY <2>3, ZenonT(30) DEF Section, CloseLiveSessionIfSnapshotMatches, EnterIdleClosed,
         HandlePendingRequestsForRecovery, HandleEngineDeathPolicy, OpenSession, CloseLiveSession,
         AttachSession, FinalizeSessionOpen, HandleSessionOpenFailure, EnterTerminalClosed
    <3>2. control \in {"Closing", "Closed"}
      <4>1. shut.pc # "idle" BY <1>3, Zenon DEF Late
      <4> QED BY <4>1, Zenon DEF LocalsInv
    <3>3. control \notin {"Uninitialized", "Open"} BY <3>2, Zenon
    <3>4. Return("ClientClosed") /\ lifecycle' = lifecycle BY <3>1, <3>3, Zenon DEF EnsureLiveSession
    <3>5. session' = session BY <3>1, Zenon DEF EnsureLiveSession
    <3>6. sec'.step = "done" BY <1>g, <3>4, Zenon
    <3> QED BY <1>0, <2>0, <2>1, <3>4, <3>5, <3>6, Zenon DEF CloseInv
  <2> QED BY <2>1, <2>2, <2>3, Zenon
<1>4. CASE shut.pc # "closing" /\ shut.pc \notin Late BY <1>0, <1>4, Zenon DEF CloseInv
<1> QED BY <1>2, <1>3, <1>4, Zenon

\* The threads that are not Shutdown change neither the session nor Shutdown's
\* own state, but for the Init that calls Shutdown itself.
LEMMA OthersLeaveShutdown ==
    TypeOK /\ LocalsInv /\ [Next]_vars /\ ~Section /\ ~BeginShutdown /\ ~ShutdownSteps =>
        /\ session' = session
        /\ shut' = shut \/ (shut.pc = "idle" /\ shut'.pc = "terminal")
<1> SUFFICES ASSUME TypeOK, LocalsInv, [Next]_vars, ~Section, ~BeginShutdown, ~ShutdownSteps
             PROVE  /\ session' = session
                    /\ shut' = shut \/ (shut.pc = "idle" /\ shut'.pc = "terminal")
  OBVIOUS
<1>1. CASE InitThread
  <2>1. shut' = shut \/ (shut.pc = "idle" /\ shut'.pc = "terminal")
    BY <1>1, InitLocals, Zenon DEF LocalsInv
  <2>2. session' = session BY <1>1, InitThreadLeaves, Zenon
  <2> QED BY <2>1, <2>2, Zenon
<1>2. CASE ~InitThread
  BY <1>2, StepCases, CallerLeaves, SubmitLeaves, ResponseLeaves, WatchdogLeaves, CallbacksLeave,
     EngineLeaves, Zenon DEF vars
<1> QED BY <1>1, <1>2, Zenon

\* Shutdown's own steps: the section it enters, and what it finds when it leaves it.
LEMMA CloseInvShutdown ==
    TypeOK /\ CloseInv /\ (BeginShutdown \/ ShutdownSteps) => CloseInv'
<1> SUFFICES ASSUME TypeOK, CloseInv, BeginShutdown \/ ShutdownSteps PROVE CloseInv' BY Zenon
<1>0. shut \in ShutdownStates BY Zenon DEF TypeOK
<1>g. \A next : ShutdownGoto(next) => shut'.pc = next BY <1>0, Zenon DEF ShutdownGoto, ShutdownStates
<1>1. CASE BeginShutdown
  <2>1. shut'.pc = "terminal" BY <1>g, <1>1, Zenon DEF BeginShutdown
  <2> QED BY <2>1, Zenon DEF CloseInv, Late
<1>2. CASE ShutdownClose
  <2>1. shut'.pc = "closing" BY <1>g, <1>2, Zenon DEF ShutdownClose
  <2>2. Enter("shutdown", "terminalClose") BY <1>2, Zenon DEF ShutdownClose
  <2>3. sec'.owner = "shutdown" /\ sec'.step = "terminalClose" BY <2>2, Zenon DEF Enter, NoSection
  <2> QED BY <2>1, <2>3, Zenon DEF CloseInv, Late
<1>3. CASE ShutdownClosed
  <2>1. shut'.pc = "stop" BY <1>g, <1>3, Zenon DEF ShutdownClosed
  <2>2. shut.pc = "closing" /\ sec.step = "done" /\ sec' = NoSection
    BY <1>3, Zenon DEF ShutdownClosed, Leave, Returned
  <2>3. session' = None /\ lifecycle' = "Closed"
    BY <1>3, <2>2, Zenon DEF ShutdownClosed, CloseInv
  <2>4. sec'.step = "none" BY <2>2, NoSectionFields, Zenon
  <2> QED BY <2>1, <2>3, <2>4, Zenon DEF CloseInv, Late
<1>4. CASE \/ StopThreads \/ JoinThreads \/ ShutdownTakeAll \/ ShutdownFailPending
           \/ FailQueuedSubmissions \/ FinishShutdown
  <2>1. UNCHANGED <<session, lifecycle, sec>>
    BY <1>4, Zenon DEF StopThreads, JoinThreads, ShutdownTakeAll, ShutdownFailPending,
       FailQueuedSubmissions, FinishShutdown
  <2>2. shut.pc \in Late
    BY <1>4, Zenon DEF StopThreads, JoinThreads, ShutdownTakeAll, ShutdownFailPending,
       FailQueuedSubmissions, FinishShutdown, Late
  <2>3. \/ shut'.pc = "join" \/ shut'.pc = "take" \/ shut'.pc = "fail" \/ shut'.pc = "queue"
        \/ shut'.pc = "finish" \/ shut'.pc = "done"
    <3>1. ShutdownTakeAll => shut'.pc = "fail" BY SMT, Z3 DEF ShutdownTakeAll
    <3>2. ShutdownFailPending => shut'.pc = "queue" BY SMT, Z3 DEF ShutdownFailPending
    <3>3. StopThreads => shut'.pc = "join" \/ shut'.pc = "take" BY <1>g, Zenon DEF StopThreads
    <3>4. /\ JoinThreads => shut'.pc = "take"
          /\ FailQueuedSubmissions => shut'.pc = "finish"
          /\ FinishShutdown => shut'.pc = "done"
      BY <1>g, Zenon DEF JoinThreads, FailQueuedSubmissions, FinishShutdown
    <3> QED BY <1>4, <3>1, <3>2, <3>3, <3>4, ZenonT(60)
  <2>4. shut'.pc # "closing" BY <2>3, Zenon
  <2> QED BY <2>1, <2>2, <2>4, Zenon DEF CloseInv
<1> QED BY <1>1, <1>2, <1>3, <1>4, Zenon DEF ShutdownSteps

\* Once Shutdown has closed the session it stays closed, whoever takes the mutex.
LEMMA CloseInvStep ==
    TypeOK /\ SectionInv /\ LocalsInv /\ ControlInv /\ CloseInv /\ [Next]_vars => CloseInv'
<1> SUFFICES ASSUME TypeOK, SectionInv, LocalsInv, ControlInv, CloseInv, [Next]_vars PROVE CloseInv' OBVIOUS
<1>1. CASE Section BY <1>1, CloseInvSection, Zenon
<1>2. CASE BeginShutdown \/ ShutdownSteps BY <1>2, CloseInvShutdown, Zenon
<1>3. CASE ~Section /\ ~BeginShutdown /\ ~ShutdownSteps
  <2>1. /\ session' = session
        /\ shut' = shut \/ (shut.pc = "idle" /\ shut'.pc = "terminal")
    BY <1>3, OthersLeaveShutdown, Zenon
  <2>2. CASE shut' = shut /\ shut.pc # "closing" /\ shut.pc \notin Late
    BY <2>2, Zenon DEF CloseInv
  <2>3. CASE shut.pc = "idle" /\ shut'.pc = "terminal" BY <2>3, Zenon DEF CloseInv, Late
  <2>4. CASE shut' = shut /\ (shut.pc = "closing" \/ shut.pc \in Late)
    <3>1. shut.pc # "idle" BY <2>4, Zenon DEF Late
    <3>2. control \in {"Closing", "Closed"} BY <3>1, Zenon DEF LocalsInv
    <3>3. control # "Open" /\ control # "Uninitialized" BY <3>2, Zenon
    <3>4. ini.pc # "prepare" BY <3>3, Zenon DEF ControlInv
    <3>5. ClosedStep
      BY <1>3, <3>3, <3>4, StepCases, ClosedThreads, Zenon DEF IsApiOpen
    <3>6. sec.owner = "shutdown" => sec' = sec
      BY <1>3, StepCases, LocksForItself, Zenon DEF Locks
    <3>7. CASE shut.pc = "closing"
      <4>1. shut.pc \notin Late BY <3>7, Zenon DEF Late
      <4> QED BY <2>1, <2>4, <3>5, <3>6, <3>7, <4>1, Zenon DEF CloseInv, ClosedStep
    <3>8. CASE shut.pc \in Late
      <4>1. shut.pc # "closing" BY <3>8, Zenon DEF Late
      <4> QED BY <2>1, <2>4, <3>5, <3>8, <4>1, Zenon DEF CloseInv, ClosedStep
    <3> QED BY <2>4, <3>7, <3>8, Zenon
  <2> QED BY <2>1, <2>2, <2>3, <2>4, Zenon
<1> QED BY <1>1, <1>2, <1>3, Zenon


\* A worker that has stopped takes no step.
LEMMA StoppedWorkers == WorkersStopped => ~SubmitWorker /\ ~ResponseWorker /\ ~Watchdog
<1> SUFFICES ASSUME WorkersStopped PROVE ~SubmitWorker /\ ~ResponseWorker /\ ~Watchdog OBVIOUS
<1>0. sub.pc = "stopped" /\ rsp.pc = "stopped" /\ wd.pc = "stopped" BY Zenon DEF WorkersStopped
<1>1. ~SubmitWorker
  BY <1>0, ZenonT(60) DEF SubmitWorker, SubmitPop, SubmitExit, SubmitEnsure, SubmitStopped, SubmitEnsured,
     WaitForRecoveryState, TryPushRequest, PushRequest, PushRequestRecheck,
     SyncActiveRequestCreditWait, NoRequestCreditHandle, WaitForRequestCredit,
     SubmitClose, SubmitClosed, SubmitFail, SubmitFailed
<1>2. ~ResponseWorker
  BY <1>0, ZenonT(60) DEF ResponseWorker, ResponseCheckRunning, PopResponse,
     ResponseRingDrained, ReadNotificationGeneration, SyncActivePollSession, WaitForNotification,
     WaitForResponseSignal, ResponseBadEntry, ResponseDeath, ResponseDeathHandled,
     ResolveCompletedRequest, ResponseFail, ResponseFailed
<1>3. ~Watchdog
  BY <1>0, ZenonT(60) DEF Watchdog, TakeExpired, WatchdogFail, WatchdogFailed,
     MaybeRunHealthCheck, RequestHealthCheckRecovery, HealthCheckRecovered, MaybeRunIdlePolicy,
     HandleIdleRecovery, IdleRecoveryHandled, WatchdogWait
<1> QED BY <1>1, <1>2, <1>3, Zenon

\* The order of Shutdown's steps, and what each leaves of the workers and of the store.
LEMMA ShutdownOrder ==
    ASSUME TypeOK, BeginShutdown \/ ShutdownSteps
    PROVE  /\ BeginShutdown => shut'.pc = "terminal" /\ running' = running
           /\ ShutdownClose => shut'.pc = "closing" /\ running' = running
           /\ ShutdownClosed => shut'.pc = "stop" /\ running' = running
           /\ StopThreads => \/ running /\ ~running' /\ shut'.pc = "join"
                             \/ ~running /\ ~running' /\ shut'.pc = "take"
           /\ JoinThreads => shut'.pc = "take" /\ running' = running
           /\ ShutdownTakeAll => shut'.pc = "fail" /\ running' = running
           /\ ShutdownFailPending => shut'.pc = "queue" /\ running' = running
           /\ FailQueuedSubmissions => shut'.pc = "finish" /\ running' = running
           /\ FinishShutdown => shut'.pc = "done" /\ running' = running
<1>0. shut \in ShutdownStates BY Zenon DEF TypeOK
<1>g. \A next : ShutdownGoto(next) => shut'.pc = next BY <1>0, Zenon DEF ShutdownGoto, ShutdownStates
<1>1. /\ BeginShutdown => shut'.pc = "terminal" /\ running' = running
      /\ ShutdownClose => shut'.pc = "closing" /\ running' = running
      /\ ShutdownClosed => shut'.pc = "stop" /\ running' = running
  BY <1>g, Zenon DEF BeginShutdown, ShutdownClose, ShutdownClosed
<1>2. StopThreads => \/ running /\ ~running' /\ shut'.pc = "join"
                     \/ ~running /\ ~running' /\ shut'.pc = "take"
  BY <1>g, Zenon DEF StopThreads
<1>3. /\ JoinThreads => shut'.pc = "take" /\ running' = running
      /\ FailQueuedSubmissions => shut'.pc = "finish" /\ running' = running
      /\ FinishShutdown => shut'.pc = "done" /\ running' = running
  BY <1>g, Zenon DEF JoinThreads, FailQueuedSubmissions, FinishShutdown
<1>4. /\ ShutdownTakeAll => running' = running
      /\ ShutdownFailPending => running' = running
  BY Zenon DEF ShutdownTakeAll, ShutdownFailPending
<1>5. ShutdownTakeAll => shut'.pc = "fail"
  <2>1. ShutdownTakeAll => shut' = [pc |-> "fail", taken |-> store] BY Zenon DEF ShutdownTakeAll
  <2>2. [pc |-> "fail", taken |-> store].pc = "fail" OBVIOUS
  <2> QED BY <2>1, <2>2, Zenon
<1>6. ShutdownFailPending => shut'.pc = "queue"
  <2>1. ShutdownFailPending => shut' = [pc |-> "queue", taken |-> EmptyStore]
    BY Zenon DEF ShutdownFailPending
  <2>2. [pc |-> "queue", taken |-> EmptyStore].pc = "queue" BY Zenon
  <2> QED BY <2>1, <2>2, Zenon
<1> QED BY <1>1, <1>2, <1>3, <1>4, <1>5, <1>6, Zenon

\* StopThreads joins the workers, and nothing starts them again.
LEMMA StopInvStep ==
    TypeOK /\ LocalsInv /\ ControlInv /\ StopInv /\ [Next]_vars => StopInv'
<1> SUFFICES ASSUME TypeOK, LocalsInv, ControlInv, StopInv, [Next]_vars PROVE StopInv' OBVIOUS
<1>1. CASE BeginShutdown \/ ShutdownSteps
  <2>1. UNCHANGED <<sub, rsp, wd>> BY <1>1, ShutdownLeaves, Zenon
  <2>2. WorkersStopped' <=> WorkersStopped BY <2>1, Zenon DEF WorkersStopped
  <2>3. CASE BeginShutdown
    <3>1. shut'.pc = "terminal" /\ running' = running BY <1>1, <2>3, ShutdownOrder, Zenon
    <3>2. shut.pc = "idle" BY <2>3, Zenon DEF BeginShutdown
    <3> QED BY <2>2, <3>1, <3>2, Zenon DEF StopInv, Late
  <2>4. CASE ShutdownClose \/ ShutdownClosed
    <3>1. (shut'.pc = "closing" \/ shut'.pc = "stop") /\ running' = running
      BY <1>1, <2>4, ShutdownOrder, Zenon
    <3>2. shut.pc = "terminal" \/ shut.pc = "closing" BY <2>4, Zenon DEF ShutdownClose, ShutdownClosed
    <3> QED BY <2>2, <3>1, <3>2, Zenon DEF StopInv, Late
  <2>5. CASE StopThreads
    <3>1. \/ running /\ ~running' /\ shut'.pc = "join"
          \/ ~running /\ ~running' /\ shut'.pc = "take"
      BY <1>1, <2>5, ShutdownOrder, Zenon
    <3>2. shut.pc = "stop" BY <2>5, Zenon DEF StopThreads
    <3> QED BY <2>2, <3>1, <3>2, ZenonT(60) DEF StopInv, Late
  <2>6. CASE JoinThreads
    <3>1. shut'.pc = "take" /\ running' = running /\ shut.pc = "join" /\ WorkersStopped
      BY <1>1, <2>6, ShutdownOrder, Zenon DEF JoinThreads
    <3> QED BY <2>2, <3>1, Zenon DEF StopInv, Late
  <2>7. CASE ShutdownTakeAll \/ ShutdownFailPending \/ FailQueuedSubmissions \/ FinishShutdown
    <3>1. running' = running BY <1>1, <2>7, ShutdownOrder, Zenon
    <3>2. shut.pc = "take" \/ shut.pc = "fail" \/ shut.pc = "queue" \/ shut.pc = "finish"
      BY <2>7, Zenon DEF ShutdownTakeAll, ShutdownFailPending, FailQueuedSubmissions, FinishShutdown
    <3> QED BY <2>2, <3>1, <3>2, Zenon DEF StopInv, Late
  <2> QED BY <1>1, <2>3, <2>4, <2>5, <2>6, <2>7, Zenon DEF ShutdownSteps
<1>2. CASE InitThread
  <2>1. shut' = shut \/ (shut.pc = "idle" /\ shut'.pc = "terminal")
    BY <1>2, InitLocals, Zenon DEF LocalsInv
  <2>2. CASE UNCHANGED <<running, sub, rsp, wd>>
    <3>1. WorkersStopped' <=> WorkersStopped BY <2>2, Zenon DEF WorkersStopped
    <3>2. shut.pc = "idle" /\ shut'.pc = "terminal" => StopInv' BY <2>2, <3>1, Zenon DEF StopInv, Late
    <3>3. shut' = shut => StopInv' BY <2>2, <3>1, Zenon DEF StopInv
    <3> QED BY <2>1, <3>2, <3>3, Zenon
  <2>3. CASE StartThreads /\ running' = TRUE
    <3>1. shut' = shut /\ ini.pc = "start" BY <2>3, Zenon DEF StartThreads
    <3>2. shut.pc = "idle" BY <3>1, Zenon DEF ControlInv
    <3> QED BY <2>3, <3>1, <3>2, Zenon DEF StopInv, Late
  <2>4. UNCHANGED <<running, sub, rsp, wd>> \/ (StartThreads /\ running' = TRUE)
    BY <1>2, Zenon DEF InitThread, InitOnly, InitCall, PrepareForInitOpen,
       StartThreads, InitEnsure, InitEnsured, InitFailed, InitShutdownReturned, FinishInit
  <2> QED BY <2>2, <2>3, <2>4, Zenon
<1>3. CASE SubmitWorker \/ ResponseWorker \/ Watchdog
  <2>1. shut' = shut /\ running' = running BY <1>3, SubmitLeaves, ResponseLeaves, WatchdogLeaves, Zenon
  <2>2. ~WorkersStopped BY <1>3, StoppedWorkers, Zenon
  <2> QED BY <2>1, <2>2, Zenon DEF StopInv
<1>4. CASE Section \/ Caller \/ Callbacks \/ Engine \/ UNCHANGED vars
  <2>1. UNCHANGED <<shut, running, sub, rsp, wd>>
    BY <1>4, SectionLeaves, CallerLeaves, CallbacksLeave, EngineLeaves, Zenon DEF vars
  <2> QED BY <2>1, Zenon DEF StopInv, WorkersStopped
<1> QED BY <1>1, <1>2, <1>3, <1>4, StepCases, Zenon


\* requestStore_ and submitQueue_ stay as FailOutstandingWork left them.
LEMMA DrainInvStep ==
    TypeOK /\ LocalsInv /\ StopInv /\ DrainInv /\ [Next]_vars => DrainInv'
<1> SUFFICES ASSUME TypeOK, LocalsInv, StopInv, DrainInv, [Next]_vars PROVE DrainInv' BY Zenon
<1>e. \A r \in Requests : EmptyStore[r] = Absent BY Zenon DEF EmptyStore
<1>1. CASE BeginShutdown \/ ShutdownClose \/ ShutdownClosed \/ StopThreads \/ JoinThreads
  <2>0. BeginShutdown \/ ShutdownSteps BY <1>1, Zenon DEF ShutdownSteps
  <2>1. \/ shut'.pc = "terminal" \/ shut'.pc = "closing" \/ shut'.pc = "stop" \/ shut'.pc = "join"
        \/ shut'.pc = "take"
    BY <1>1, <2>0, ShutdownOrder, Zenon
  <2>2. shut'.pc \notin {"fail", "queue", "finish", "done"} BY <2>1, Zenon
  <2>3. shut'.pc \notin {"finish", "done"} BY <2>1, Zenon
  <2> QED BY <2>2, <2>3, Zenon DEF DrainInv
<1>2. CASE ShutdownTakeAll
  <2>0. BeginShutdown \/ ShutdownSteps BY <1>2, Zenon DEF ShutdownSteps
  <2>1. shut'.pc = "fail" /\ store' = EmptyStore
    BY <1>2, <2>0, ShutdownOrder, Zenon DEF ShutdownTakeAll
  <2>2. shut'.pc \notin {"finish", "done"} BY <2>1, Zenon
  <2> QED BY <1>e, <2>1, <2>2, Zenon DEF DrainInv
<1>3. CASE ShutdownFailPending
  <2>0. BeginShutdown \/ ShutdownSteps BY <1>3, Zenon DEF ShutdownSteps
  <2>1. shut'.pc = "queue" /\ shut.pc = "fail" /\ store' = store
    BY <1>3, <2>0, ShutdownOrder, Zenon DEF ShutdownFailPending
  <2>2. shut'.pc \notin {"finish", "done"} BY <2>1, Zenon
  <2> QED BY <2>1, <2>2, Zenon DEF DrainInv
<1>4. CASE FailQueuedSubmissions
  <2>1. shut.pc = "queue" /\ store' = store /\ queued' = {} /\ admitting' = NoRequest
    BY <1>4, Zenon DEF FailQueuedSubmissions
  <2> QED BY <2>1, Zenon DEF DrainInv
<1>5. CASE FinishShutdown
  <2>1. shut.pc = "finish" /\ store' = store /\ queued' = queued /\ admitting' = admitting
    BY <1>5, Zenon DEF FinishShutdown
  <2> QED BY <2>1, Zenon DEF DrainInv
<1>6. CASE ~BeginShutdown /\ ~ShutdownSteps
  <2>1. CASE shut' = shut /\ shut.pc \in {"fail", "queue", "finish", "done"}
    <3>1. shut.pc \in Late \ {"stop"} /\ shut.pc # "join" /\ shut.pc # "idle" BY <2>1, Zenon DEF Late
    <3>2. ~SubmitWorker /\ ~ResponseWorker /\ ~Watchdog BY <3>1, StoppedWorkers, Zenon DEF StopInv
    <3>3. ~IsApiOpen
      <4>1. control \in {"Closing", "Closed"} BY <3>1, Zenon DEF LocalsInv
      <4> QED BY <4>1, Zenon DEF IsApiOpen
    <3>4. CASE Section
      <4>1. queued' = queued /\ admitting' = admitting BY <3>4, SectionLeaves, Zenon
      <4>2. store' = store \/ store' = EmptyStore
        BY <3>4, ZenonT(30) DEF Section, CloseLiveSessionIfSnapshotMatches, EnterIdleClosed,
           HandlePendingRequestsForRecovery, HandleEngineDeathPolicy, EnsureLiveSession, OpenSession,
           AttachSession, FinalizeSessionOpen, HandleSessionOpenFailure, CloseLiveSession,
           EnterTerminalClosed
      <4> QED BY <1>e, <2>1, <4>1, <4>2, Zenon DEF DrainInv
    <3>5. CASE Caller
      <4>1. store' = store BY <3>5, Zenon DEF Caller, CooldownExpires, InvokeAsync, EnqueueSubmit
      <4>2. \/ queued' = queued /\ admitting' = admitting
            \/ admitting # NoRequest
        BY <3>3, <3>5, Zenon DEF Caller, CooldownExpires, InvokeAsync, EnqueueSubmit
      <4> QED BY <2>1, <4>1, <4>2, Zenon DEF DrainInv
    <3>6. CASE Callbacks \/ InitThread \/ Engine \/ UNCHANGED vars
      <4>1. UNCHANGED <<store, queued, admitting>>
        BY <3>6, CallbacksLeave, InitThreadLeaves, EngineLeaves, Zenon DEF vars
      <4> QED BY <2>1, <4>1, Zenon DEF DrainInv
    <3> QED BY <1>6, <3>2, <3>4, <3>5, <3>6, StepCases, Zenon
  <2>2. CASE shut' = shut /\ shut.pc \notin {"fail", "queue", "finish", "done"}
    BY <2>2, Zenon DEF DrainInv
  <2>3. CASE shut'.pc = "terminal" BY <2>3, Zenon DEF DrainInv
  <2>4. shut' = shut \/ shut'.pc = "terminal"
    <3>1. Section => shut' = shut BY SectionLeaves, Zenon
    <3> QED BY <1>6, <3>1, OthersLeaveShutdown, Zenon
  <2> QED BY <2>1, <2>2, <2>3, <2>4, Zenon
<1> QED BY <1>1, <1>2, <1>3, <1>4, <1>5, <1>6, Zenon DEF ShutdownSteps

\* What Shutdown leaves is an invariant when Shutdown does not overlap Init.
LEMMA ShutdownInvariant ==
    ASSUME ~ConcurrentInit PROVE Spec => [](ControlInv /\ CloseInv /\ StopInv /\ DrainInv)
<1> DEFINE Inv == ControlInv /\ QuietInv /\ CloseInv /\ StopInv /\ DrainInv
<1>1. Init => Inv
  <2> SUFFICES ASSUME Init PROVE Inv OBVIOUS
  <2>1. ControlInv /\ QuietInv
    BY Zenon DEF Init, ControlInv, QuietInv, BeforeStart, WorkersStopped, NoSection, IdleSubmit, IdleResponse,
       IdleWatchdog
  <2>2. shut.pc = "idle" BY Zenon DEF Init
  <2>3. WorkersStopped BY <2>1, Zenon DEF Init, QuietInv, BeforeStart
  <2> QED BY <2>1, <2>2, <2>3, Zenon DEF CloseInv, StopInv, DrainInv, Late
<1>2. TypeOK /\ SectionInv /\ LocalsInv /\ Inv /\ [Next]_vars => Inv'
  BY ControlInvStep, QuietInvStep, CloseInvStep, StopInvStep, DrainInvStep, Zenon
<1>3. TypeInv => TypeOK BY Zenon DEF TypeInv
<1> QED BY <1>1, <1>2, <1>3, TypeInvariant, SectionInvariant, OwnedInvariant, PTL DEF Spec

\* When Shutdown does not overlap Init, a client that has finished Shutdown holds
\* nothing: the session is closed for good, the workers are joined, the queue and
\* requestStore_ are empty, and every future that was ever handed out is resolved.
THEOREM ShutdownIsComplete == ASSUME ~ConcurrentInit PROVE Spec => []ShutdownComplete
<1>1. LocalsInv /\ OwnedInv /\ ControlInv /\ CloseInv /\ StopInv /\ DrainInv => ShutdownComplete
  <2> SUFFICES ASSUME LocalsInv, OwnedInv, ControlInv, CloseInv, StopInv, DrainInv, control = "Closed"
               PROVE  /\ session = None /\ lifecycle = "Closed" /\ ~running /\ WorkersStopped
                      /\ queued = {} /\ admitting = NoRequest /\ In(store) = {}
                      /\ \A r \in Requests : result[r] # "waiting"
    BY Zenon DEF ShutdownComplete
  <2>1. shut.pc = "done" BY Zenon DEF ControlInv
  <2>2. session = None /\ lifecycle = "Closed" BY <2>1, Zenon DEF CloseInv, Late
  <2>3. ~running /\ WorkersStopped BY <2>1, Zenon DEF StopInv, Late
  <2>4. queued = {} /\ admitting = NoRequest /\ \A r \in Requests : store[r] = Absent
    BY <2>1, Zenon DEF DrainInv
  <2>5. In(store) = {} BY <2>4, Zenon DEF In
  <2>6. ASSUME NEW r \in Requests PROVE result[r] # "waiting"
    <3>0. sub.pc = "stopped" /\ rsp.pc = "stopped" /\ wd.pc = "stopped" BY <2>3, Zenon DEF WorkersStopped
    <3>1. r # NoRequest BY RequestsAssumption, Zenon
    <3>2. sub.req = NoRequest BY <3>0, Zenon DEF LocalsInv
    <3>3. wd.taken[r] = Absent BY <3>0, Zenon DEF LocalsInv
    <3>4. shut.taken[r] = Absent BY <2>1, Zenon DEF LocalsInv
    <3>5. rsp.pc \notin {"taken", "failing"} BY <3>0, Zenon
    <3>6. ~Owned(r) BY <2>4, <3>1, <3>2, <3>3, <3>4, <3>5, Zenon DEF Owned
    <3> QED BY <3>6, Zenon DEF OwnedInv
  <2> QED BY <2>2, <2>3, <2>4, <2>5, <2>6, Zenon
<1> QED BY <1>1, OwnedInvariant, ShutdownInvariant, PTL

=============================================================================
