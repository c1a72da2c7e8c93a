--------------------------- MODULE ControlChannel ---------------------------
(***************************************************************************)
(* VesClient and its control channel (VesBootstrapChannel): how a client   *)
(* finds the engine, opens and closes the session of its RpcClient, checks *)
(* its health, hears of the death of the engine, counts restarts against a *)
(* budget, and loses access to the engine when a newer VesClient of the    *)
(* same process claims it.                                                 *)
(*                                                                         *)
(* The RpcClient is here as its session id and the actions it takes under  *)
(* lifecycleMutex_; module RpcClient has the rest of it.  The engine is    *)
(* here as the incarnation that runs and the session it serves; module     *)
(* EngineSession has the rest of it.  A control object stands for the      *)
(* incarnation it was loaded for, but its calls connect to the service     *)
(* path and so reach whichever incarnation listens there.                  *)
(***************************************************************************)
EXTENDS Naturals

CONSTANTS
    Generations,  \* number of VesClient instances, in the order of instanceGeneration_
    DeathLimit,   \* maxEngineDeathsBeforePermanentStop; 0 means no limit
    MaxEngines,   \* bound: incarnations of the engine
    MaxSessions,  \* session ids: more than the instances can remember, six each
    Scenarios     \* bounds: how many of the instances connect, and how many troubles there are
                  \* (engine deaths, failed loads, late heartbeats, timed out requests, closed
                  \* sessions and clients)

ASSUME ControlAssumption ==
    /\ Generations \in Nat /\ DeathLimit \in Nat
    /\ MaxEngines \in Nat \ {0} /\ MaxSessions \in Nat /\ MaxSessions > 6 * Generations
    /\ Scenarios \subseteq [clients : Nat, troubles : Nat]

Instances == 1 .. Generations
Engines == 1 .. MaxEngines
Sessions == 1 .. MaxSessions

VARIABLES
    state,     \* VesClient: not initialised, open or shut down
    active,    \* g_activeVesClientGeneration
    deaths,    \* engineDeathCount_
    chan,      \* VesBootstrapChannelState: control_ (is its remote object dead?), sessionId_,
               \* fatalControlLoadFailure_
    live,      \* session id snapshot of the RpcClient, 0 without a session
    op,        \* what the holder of lifecycleMutex_ is doing
    dog,       \* CheckHealth of the watchdog thread
    notice,    \* HandleRemoteDied of the death recipient
    engine,    \* incarnation of the engine that runs, 0 when none does
    started,   \* incarnations so far
    served,    \* session the engine serves, 0 when none
    attached,  \* client attached to each session, 0 when none
    watching,  \* instances registered as death recipient of an incarnation's remote object
    told,      \* death notices under way
    replied,   \* instances with a call that has its reply and has not reset the budget yet
    unsent,    \* instances whose submit worker failed to push and has not closed the session yet
    clients,   \* instances that connect
    troubles   \* troubles to come

vars == <<state, active, deaths, chan, live, op, dog, notice, engine, started, served, attached,
          watching, told, replied, unsent, clients, troubles>>
engineVars == <<engine, started, served>>
remoteVars == <<watching, told>>
calls == <<replied, unsent>>
bounds == <<clients, troubles>>

IdleOp == [pc |-> "free", peer |-> 0, got |-> 0, retry |-> FALSE, next |-> "done"]
IdleDog == [pc |-> "idle", observed |-> 0]
NoNotice == [pc |-> "idle", session |-> 0, observed |-> 0]

Init ==
    /\ state = [i \in Instances |-> "new"] /\ active = 0
    /\ deaths = [i \in Instances |-> 0]
    /\ chan = [i \in Instances |-> [control |-> 0, dead |-> FALSE, session |-> 0, fatal |-> FALSE]]
    /\ live = [i \in Instances |-> 0]
    /\ op = [i \in Instances |-> IdleOp] /\ dog = [i \in Instances |-> IdleDog]
    /\ notice = [i \in Instances |-> NoNotice]
    /\ engine = 1 /\ started = 1 /\ served = 0
    /\ attached = [s \in Sessions |-> 0]
    /\ watching = {} /\ told = {} /\ replied = {} /\ unsent = {}
    /\ \E s \in Scenarios : clients = s.clients /\ troubles = s.troubles

Trouble == troubles > 0 /\ troubles' = troubles - 1 /\ UNCHANGED clients

-----------------------------------------------------------------------------
(* Access to the engine: process ownership and the restart budget.          *)

EngineDeathLimitReached(i) == DeathLimit > 0 /\ deaths[i] >= DeathLimit

\* Mutant: whoever has claimed the process once owns it.
IsProcessOwner_Forever(i) == active >= i

IsProcessOwner(i) == active = i

\* Mutant: the access policy does not look at the restart budget.
Allowed_OwnerOnly(i) == IsProcessOwner(i)

\* AccessAllowed of the channel: the policy that InitClient hands to it.
Allowed(i) == IsProcessOwner(i) /\ ~EngineDeathLimitReached(i)

\* VesClient::Connect: the constructor draws the generation, InitClient claims the
\* ownership, installs channel and policy and starts the RpcClient without a session.
Connect(i) ==
    /\ i <= clients /\ state[i] = "new" /\ \A j \in Instances : j < i => state[j] # "new"
    /\ state' = [state EXCEPT ![i] = "open"] /\ active' = i
    /\ UNCHANGED <<deaths, chan, live, op, dog, notice, engineVars, attached, remoteVars, calls, bounds>>

\* InvokeApi: the engine replies, and the caller's thread resets the restart budget when
\* it runs again.
ReplyArrives(i) ==
    /\ state[i] = "open" /\ live[i] # 0 /\ live[i] = served
    /\ i \notin replied /\ replied' = replied \cup {i}
    /\ UNCHANGED <<state, active, deaths, chan, live, op, dog, notice, engineVars, attached, remoteVars, unsent, bounds>>

InvokeSucceeds(i) ==
    /\ i \in replied /\ replied' = replied \ {i}
    /\ deaths' = [deaths EXCEPT ![i] = 0]
    /\ UNCHANGED <<state, active, chan, live, op, dog, notice, engineVars, attached, remoteVars, unsent, bounds>>

\* ApplyRestartBudget: counts the restart; the budget decides whether it happens.
Charge(i) == deaths' = [deaths EXCEPT ![i] = IF DeathLimit > 0 /\ @ >= DeathLimit THEN @ ELSE @ + 1]

-----------------------------------------------------------------------------
(* The parts of the channel that every operation uses.                      *)

\* mutex_ of the channel is held while the loader runs.
ChannelFree(i) == op[i].pc \notin {"closeOld", "load"}

\* Mutant: the previous control keeps the death recipient.
Rebind_KeepsRecipient(i, c, session) ==
    /\ chan' = [chan EXCEPT ![i] = [@ EXCEPT !.control = c, !.dead = FALSE, !.session = session]]
    /\ watching' = watching \cup ({i} \X ({c} \ {0}))

\* RebindControlLocked together with the sessionId_ its callers leave: the death
\* recipient moves from the previous control to the next one.
Rebind(i, c, session) ==
    /\ chan' = [chan EXCEPT ![i] = [@ EXCEPT !.control = c, !.dead = FALSE, !.session = session]]
    /\ watching' = (watching \ ({i} \X {chan[i].control})) \cup ({i} \X ({c} \ {0}))

Goto(i, pc) == op' = [op EXCEPT ![i] = [@ EXCEPT !.pc = pc]]
Release(i) == op' = [op EXCEPT ![i] = IdleOp]

-----------------------------------------------------------------------------
(* OpenSession, run by EnsureLiveSessionLocked under lifecycleMutex_.       *)

\* The first access check of OpenSession, when lifecycleMutex_ is held at the time.
TryOpen(i) == op' = [op EXCEPT ![i] = IF Allowed(i) THEN [IdleOp EXCEPT !.pc = "bind"] ELSE IdleOp]

\* SubmitOne needs a session and there is none.
NeedSession(i) ==
    /\ state[i] = "open" /\ live[i] = 0 /\ i \notin unsent /\ op[i].pc = "free" /\ TryOpen(i)
    /\ UNCHANGED <<state, active, deaths, chan, live, dog, notice, engineVars, attached, remoteVars, calls, bounds>>

\* RefreshControlLocked as far as the loader, unless a load has failed before.
RefreshControl(i, retry) ==
    op' = [op EXCEPT ![i] = IF Allowed(i) /\ ~chan[i].fatal
                            THEN [@ EXCEPT !.pc = "closeOld", !.retry = retry]
                            ELSE IdleOp]

\* LoadOpenSessionControl: EnsureControlBoundLocked, and RefreshControlLocked when the
\* control is known to be dead.
OpenBind(i) ==
    LET c == chan[i].control IN
    /\ op[i].pc = "bind"
    /\ \/ ~Allowed(i) /\ Rebind(i, 0, 0) /\ Release(i)
       \/ /\ Allowed(i) /\ c # 0 /\ ~chan[i].dead
          /\ Goto(i, "call") /\ UNCHANGED <<chan, watching>>
       \/ /\ Allowed(i) /\ (c = 0 \/ chan[i].dead)
          /\ RefreshControl(i, FALSE) /\ UNCHANGED <<chan, watching>>
    /\ UNCHANGED <<state, active, deaths, live, dog, notice, engineVars, attached, told, calls, bounds>>

\* The loader: CloseSession on the service it finds, then LoadSystemAbility.
LoaderCloses(i) ==
    /\ op[i].pc = "closeOld" /\ Goto(i, "load")
    /\ served' = 0
    /\ UNCHANGED <<state, active, deaths, chan, live, dog, notice, engine, started, attached, remoteVars, calls, bounds>>

\* Mutant: an engine is started even if one runs.
LoaderLoads_Always(i) ==
    /\ op[i].pc = "load" /\ engine' = started + 1 /\ started' = started + 1
    /\ Rebind(i, engine', chan[i].session) /\ Goto(i, "call")
    /\ UNCHANGED <<state, active, deaths, live, dog, notice, served, attached, told, calls, bounds>>

\* The service manager starts the engine unless it runs.  OpenSession looks once more at
\* a control that replaces a dead one (deadBeforeOpen).
LoaderLoads(i) ==
    LET deadBeforeOpen == chan[i].control # 0 /\ ~op[i].retry IN
    /\ op[i].pc = "load"
    /\ IF engine = 0
       THEN engine' = started + 1 /\ started' = started + 1
       ELSE UNCHANGED <<engine, started>>
    /\ Rebind(i, engine', chan[i].session)
    /\ op' = [op EXCEPT ![i] = [@ EXCEPT !.pc = "call", !.peer = IF deadBeforeOpen THEN engine' ELSE 0]]
    /\ UNCHANGED <<state, active, deaths, live, dog, notice, served, attached, told, calls, bounds>>

\* It cannot: the channel remembers that for good.
LoaderFails(i) ==
    /\ op[i].pc = "load" /\ Trouble
    /\ chan' = [chan EXCEPT ![i] = [@ EXCEPT !.control = 0, !.dead = FALSE, !.fatal = TRUE]]
    /\ watching' = watching \ ({i} \X {chan[i].control})
    /\ Release(i)
    /\ UNCHANGED <<state, active, deaths, live, dog, notice, engineVars, attached, told, calls>>

\* A session id that nobody remembers.
FreshSession ==
    LET Remembered(i) == {live[i], chan[i].session, op[i].got, dog[i].observed, notice[i].session, notice[i].observed} IN
    CHOOSE s \in Sessions : attached[s] = 0 /\ \A i \in Instances : s \notin Remembered(i)

\* The control that replaced a dead one is dead by now.
OpenStillDead(i) ==
    /\ op[i].pc = "call" /\ op[i].peer \notin {0, engine}
    /\ chan[i].control = op[i].peer => chan[i].dead
    /\ Release(i)
    /\ UNCHANGED <<state, active, deaths, chan, live, dog, notice, engineVars, attached, remoteVars, calls, bounds>>

\* VesControlProxy::OpenSession connects and sends the command.  When it cannot, the
\* channel refreshes the control, the first time.
OpenConnect(i) ==
    /\ op[i].pc = "call"
    /\ CASE engine # 0 -> op' = [op EXCEPT ![i] = [@ EXCEPT !.pc = "sent", !.peer = engine]]
         [] engine = 0 /\ ~op[i].retry -> op' = [op EXCEPT ![i] = [@ EXCEPT !.pc = "refresh", !.peer = 0]]
         [] engine = 0 /\ op[i].retry -> Release(i)
    /\ UNCHANGED <<state, active, deaths, chan, live, dog, notice, engineVars, attached, remoteVars, calls, bounds>>

\* ReceiveSessionHandles: the engine hands out its session, a new one if it has none.  A
\* connection that breaks is a protocol mismatch, after which nothing is refreshed.
OpenReceive(i) ==
    /\ op[i].pc = "sent"
    /\ IF engine = op[i].peer
       THEN /\ served' = IF served = 0 THEN FreshSession ELSE served
            /\ op' = [op EXCEPT ![i] = [@ EXCEPT !.pc = "store", !.peer = 0, !.got = served']]
       ELSE Release(i) /\ UNCHANGED served
    /\ UNCHANGED <<state, active, deaths, chan, live, dog, notice, engine, started, attached, remoteVars, calls, bounds>>

\* RetryOpenSessionAfterRefresh.
OpenRefresh(i) ==
    /\ op[i].pc = "refresh" /\ RefreshControl(i, TRUE)
    /\ UNCHANGED <<state, active, deaths, chan, live, dog, notice, engineVars, attached, remoteVars, calls, bounds>>

OpenStore(i) ==
    /\ op[i].pc = "store" /\ Goto(i, "attach")
    /\ chan' = [chan EXCEPT ![i] = [@ EXCEPT !.session = op[i].got]]
    /\ UNCHANGED <<state, active, deaths, live, dog, notice, engineVars, attached, remoteVars, calls, bounds>>

\* Session::Attach: refused while another client of a live process is attached.
OpenAttach(i) ==
    LET s == op[i].got IN
    /\ op[i].pc = "attach" /\ Release(i)
    /\ IF attached[s] = 0
       THEN attached' = [attached EXCEPT ![s] = i] /\ live' = [live EXCEPT ![i] = s]
       ELSE UNCHANGED <<attached, live>>
    /\ UNCHANGED <<state, active, deaths, chan, dog, notice, engineVars, remoteVars, calls, bounds>>

-----------------------------------------------------------------------------
(* Closing the session, under lifecycleMutex_.                              *)

\* The RpcClient forgets its session and detaches from it; CloseSession of the channel
\* follows, and then "next".
StartClose(i, next) ==
    /\ op' = [op EXCEPT ![i] = [IdleOp EXCEPT !.pc = "closing", !.next = next]]
    /\ live' = [live EXCEPT ![i] = 0]
    /\ attached' = [s \in Sessions |-> IF s = live[i] THEN 0 ELSE attached[s]]

\* What the RpcClient does when CloseSession has returned.
AfterClose(i) ==
    /\ IF op[i].next = "reopen" THEN TryOpen(i) ELSE Release(i)
    /\ IF op[i].next = "charge" THEN Charge(i) ELSE UNCHANGED deaths

\* CloseSession: the access check comes first.
CloseAccess(i) ==
    /\ op[i].pc = "closing" /\ Goto(i, IF Allowed(i) THEN "take" ELSE "unbind")
    /\ UNCHANGED <<state, active, deaths, chan, live, dog, notice, engineVars, attached, remoteVars, calls, bounds>>

\* Control and session are let go; with access the engine is told.
CloseUnbind(i) ==
    /\ op[i].pc \in {"take", "unbind"} /\ Rebind(i, 0, 0)
    /\ IF op[i].pc = "take" /\ chan[i].control # 0
       THEN Goto(i, "tell") /\ UNCHANGED deaths
       ELSE AfterClose(i)
    /\ UNCHANGED <<state, active, live, dog, notice, engineVars, attached, told, calls, bounds>>

\* VesControlProxy::CloseSession: whatever session the engine has is closed.  The proxy
\* does not wait for that, but the engine takes the connections in turn.
CloseTell(i) ==
    /\ op[i].pc = "tell" /\ AfterClose(i) /\ served' = 0
    /\ UNCHANGED <<state, active, chan, live, dog, notice, engine, started, attached, remoteVars, calls, bounds>>

\* A request timed out: the failure policy restarts the session, if the budget allows.
RequestTimesOut(i) ==
    /\ state[i] = "open" /\ live[i] # 0 /\ op[i].pc = "free"
    /\ Trouble
    /\ Charge(i)
    /\ IF DeathLimit > 0 /\ deaths[i] + 1 >= DeathLimit
       THEN UNCHANGED <<op, live, attached>>
       ELSE StartClose(i, "done")
    /\ UNCHANGED <<state, active, chan, dog, notice, engineVars, remoteVars, calls>>

\* The idle policy closes the session: no restart is counted.
IdleClose(i) ==
    /\ state[i] = "open" /\ live[i] # 0 /\ op[i].pc = "free"
    /\ Trouble
    /\ StartClose(i, "done")
    /\ UNCHANGED <<state, active, deaths, chan, dog, notice, engineVars, remoteVars, calls>>

\* TryAdmitSubmit of the submit worker: a push fails ...
PushFails(i) ==
    /\ state[i] = "open" /\ live[i] # 0 /\ i \notin unsent /\ Trouble
    /\ unsent' = unsent \cup {i}
    /\ UNCHANGED <<state, active, deaths, chan, live, op, dog, notice, engineVars, attached, remoteVars, replied>>

\* ... and CloseLiveSessionForTransportFailure closes whatever session there is when it
\* gets lifecycleMutex_: the one of the push, a newer one, or none, which still makes the
\* channel close the engine's.  No restart is counted.
DropSession(i) ==
    /\ i \in unsent /\ unsent' = unsent \ {i} /\ op[i].pc = "free"
    /\ StartClose(i, "done")
    /\ UNCHANGED <<state, active, deaths, chan, dog, notice, engineVars, remoteVars, replied, bounds>>

\* VesClient::Shutdown.  The ownership of the process stays with the instance.
Shutdown(i) ==
    /\ state[i] = "open" /\ op[i].pc = "free" /\ Trouble
    /\ state' = [state EXCEPT ![i] = "closed"] /\ StartClose(i, "done")
    /\ UNCHANGED <<active, deaths, chan, dog, notice, engineVars, remoteVars, calls>>

\* InvokeApi: an open that fails because of a failed load answers ClientClosed, and the
\* client shuts itself down.
GiveUp(i) ==
    /\ state[i] = "open" /\ live[i] = 0 /\ op[i].pc = "free" /\ Allowed(i) /\ chan[i].fatal
    /\ state' = [state EXCEPT ![i] = "closed"] /\ StartClose(i, "done")
    /\ UNCHANGED <<active, deaths, chan, dog, notice, engineVars, remoteVars, calls, bounds>>

-----------------------------------------------------------------------------
(* MaybeRunHealthCheck of the watchdog thread.                              *)

HealthStart(i) ==
    /\ state[i] = "open" /\ live[i] # 0 /\ dog[i].pc = "idle"
    /\ dog' = [dog EXCEPT ![i] = [pc |-> "ask", observed |-> live[i]]]
    /\ UNCHANGED <<state, active, deaths, chan, live, op, notice, engineVars, attached, remoteVars, calls, bounds>>

\* Mutant: the session id of the heartbeat is not compared.
HeartbeatFails_AnySession(observed) == engine = 0 \/ served = 0

\* Heartbeat and ToHealthResult: no answer without an engine, unhealthy without a
\* session, a mismatch with another session.
HeartbeatFails(observed) == engine = 0 \/ served = 0 \/ served # observed

\* Mutant: without access every session counts as healthy.
Unhealthy_NotWhenDenied(i, observed) == Allowed(i) /\ (chan[i].dead \/ HeartbeatFails(observed))

\* CheckHealth.  Without access or without a control the engine is not asked, and a
\* session the channel knows of is unhealthy.
Unhealthy(i, observed) ==
    IF Allowed(i) /\ chan[i].control # 0
    THEN chan[i].dead \/ HeartbeatFails(observed)
    ELSE chan[i].session # 0

HealthAsk(i) ==
    /\ dog[i].pc = "ask" /\ ChannelFree(i)
    /\ dog' = [dog EXCEPT ![i] = IF Unhealthy(i, @.observed) THEN [@ EXCEPT !.pc = "unhealthy"] ELSE IdleDog]
    /\ UNCHANGED <<state, active, deaths, chan, live, op, notice, engineVars, attached, remoteVars, calls, bounds>>

\* The accept thread of the engine is busy for longer than the heartbeat waits.
HealthTimesOut(i) ==
    /\ dog[i].pc = "ask" /\ ChannelFree(i) /\ Allowed(i) /\ chan[i].control # 0 /\ engine # 0 /\ Trouble
    /\ dog' = [dog EXCEPT ![i] = [@ EXCEPT !.pc = "unhealthy"]]
    /\ UNCHANGED <<state, active, deaths, chan, live, op, notice, engineVars, attached, remoteVars, calls>>

\* HandleExternalRecovery: the session is closed and opened again, and no restart is
\* counted.  Nothing happens when the session has changed meanwhile.
HealthRecover(i) ==
    /\ dog[i].pc = "unhealthy" /\ op[i].pc = "free" /\ dog' = [dog EXCEPT ![i] = IdleDog]
    /\ IF state[i] = "open" /\ live[i] = dog[i].observed
       THEN StartClose(i, "reopen")
       ELSE UNCHANGED <<op, live, attached>>
    /\ UNCHANGED <<state, active, deaths, chan, notice, engineVars, remoteVars, calls, bounds>>

-----------------------------------------------------------------------------
(* The engine dies and the death recipients hear of it, or not.             *)

EngineDies ==
    /\ engine # 0 /\ started < MaxEngines /\ Trouble
    /\ engine' = 0 /\ served' = 0
    /\ UNCHANGED <<state, active, deaths, chan, live, op, dog, notice, started, attached, remoteVars, calls>>

\* NotifyRemoteDied: the remote object behind a control is flagged and its recipients
\* are copied; they are called later.
ObjectDies(i) ==
    LET e == chan[i].control IN
    /\ e \notin {0, engine} /\ ~chan[i].dead
    /\ chan' = [chan EXCEPT ![i] = [@ EXCEPT !.dead = TRUE]]
    /\ told' = told \cup (watching \cap {<<i, e>>})
    /\ UNCHANGED <<state, active, deaths, live, op, dog, notice, engineVars, attached, watching, calls, bounds>>

\* Mutant: the session id goes with the control.
NoticeArrives_ClearsSession(i) ==
    /\ notice[i].pc = "idle" /\ ChannelFree(i)
    /\ \E w \in told : w[1] = i /\ told' = told \ {w}
    /\ Rebind(i, 0, 0)
    /\ notice' = [notice EXCEPT ![i] = [NoNotice EXCEPT !.pc = "read", !.session = chan[i].session]]
    /\ UNCHANGED <<state, active, deaths, live, op, dog, engineVars, attached, calls, bounds>>

\* HandleRemoteDied under mutex_: whatever control is bound is unbound.
NoticeArrives(i) ==
    /\ notice[i].pc = "idle" /\ ChannelFree(i)
    /\ \E w \in told : w[1] = i /\ told' = told \ {w}
    /\ Rebind(i, 0, chan[i].session)
    /\ notice' = [notice EXCEPT ![i] = [NoNotice EXCEPT !.pc = "read", !.session = chan[i].session]]
    /\ UNCHANGED <<state, active, deaths, live, op, dog, engineVars, attached, calls, bounds>>

\* The death callback of the RpcClient samples the session it has now.
NoticeReads(i) ==
    /\ notice[i].pc = "read"
    /\ notice' = [notice EXCEPT ![i] = [@ EXCEPT !.pc = "lock", !.observed = live[i]]]
    /\ UNCHANGED <<state, active, deaths, chan, live, op, dog, engineVars, attached, remoteVars, calls, bounds>>

\* HandleEngineDeath: the session is closed if it is the one the notice names (or the
\* notice names none), and the restart is counted.
NoticeCloses(i) ==
    LET n == notice[i] IN
    /\ n.pc = "lock" /\ op[i].pc = "free"
    /\ notice' = [notice EXCEPT ![i] = NoNotice]
    /\ IF state[i] = "open" /\ n.observed # 0 /\ n.observed = live[i] /\ n.session \in {0, n.observed}
       THEN StartClose(i, "charge")
       ELSE UNCHANGED <<op, live, attached>>
    /\ UNCHANGED <<state, active, deaths, chan, dog, engineVars, remoteVars, calls, bounds>>

-----------------------------------------------------------------------------
(* The specification.                                                       *)

Opening(i) ==
    \/ OpenBind(i) \/ LoaderCloses(i) \/ LoaderLoads(i) \/ LoaderFails(i)
    \/ OpenStillDead(i) \/ OpenConnect(i) \/ OpenReceive(i) \/ OpenRefresh(i) \/ OpenStore(i) \/ OpenAttach(i)
Closing(i) == CloseAccess(i) \/ CloseUnbind(i) \/ CloseTell(i)
Watching(i) == HealthStart(i) \/ HealthAsk(i) \/ HealthTimesOut(i) \/ HealthRecover(i)
Hearing(i) == NoticeArrives(i) \/ NoticeReads(i) \/ NoticeCloses(i)

Next ==
    \/ \E i \in Instances :
          \/ Connect(i) \/ ReplyArrives(i) \/ InvokeSucceeds(i) \/ NeedSession(i)
          \/ RequestTimesOut(i) \/ IdleClose(i) \/ PushFails(i) \/ DropSession(i) \/ Shutdown(i) \/ GiveUp(i)
          \/ Opening(i) \/ Closing(i) \/ Watching(i) \/ ObjectDies(i) \/ Hearing(i)
    \/ EngineDies

Spec == Init /\ [][Next]_vars

\* The threads run and mutexes are granted, the application keeps calling (so that the
\* submit thread needs a session), and the watchdog repeats its health check.  Replies,
\* death notices and troubles need not come.
Fairness ==
    \A i \in Instances :
        /\ WF_vars(NeedSession(i) \/ Opening(i) \/ Closing(i)) /\ WF_vars(DropSession(i))
        /\ WF_vars(Watching(i))

FairSpec == Spec /\ Fairness

-----------------------------------------------------------------------------
(* Properties.                                                              *)

TypeOK ==
    /\ state \in [Instances -> {"new", "open", "closed"}] /\ active \in 0 .. Generations
    /\ deaths \in [Instances -> Nat]
    /\ chan \in [Instances -> [control : 0 .. MaxEngines, dead : BOOLEAN, session : 0 .. MaxSessions, fatal : BOOLEAN]]
    /\ live \in [Instances -> 0 .. MaxSessions]
    /\ op \in [Instances -> [pc : {"free", "bind", "closeOld", "load", "call", "sent", "refresh", "store", "attach",
                                   "closing", "take", "unbind", "tell"},
                             peer : 0 .. MaxEngines, got : 0 .. MaxSessions, retry : BOOLEAN,
                             next : {"done", "charge", "reopen"}]]
    /\ dog \in [Instances -> [pc : {"idle", "ask", "unhealthy"}, observed : 0 .. MaxSessions]]
    /\ notice \in [Instances -> [pc : {"idle", "read", "lock"}, session : 0 .. MaxSessions,
                                 observed : 0 .. MaxSessions]]
    /\ engine \in 0 .. MaxEngines /\ started \in 0 .. MaxEngines
    /\ served \in 0 .. MaxSessions
    /\ attached \in [Sessions -> 0 .. Generations]
    /\ watching \subseteq Instances \X Engines /\ told \subseteq Instances \X Engines
    /\ replied \subseteq Instances /\ unsent \subseteq Instances
    /\ clients \in Nat /\ troubles \in Nat

\* The channel listens to the death of the control it has bound and of no other, over
\* all the ways in which a control is bound, refreshed, lost and given back.
RecipientFollowsControl ==
    \A i \in Instances, e \in Engines : <<i, e>> \in watching <=> chan[i].control = e

\* Between two operations the channel knows the session its RpcClient uses: the health
\* check relies on it to find a session unhealthy that has no control or no access, and
\* the death report to name the session that died.
SessionIsKnown ==
    \A i \in Instances : live[i] # 0 /\ op[i].pc = "free" => chan[i].session = live[i]

\* A client does not sit on a session that its engine no longer serves, whether the
\* engine died, was started again, or gave its session up for another client.
StaleSessionIsLeft ==
    \A i \in Instances : []<>(state[i] = "open" => live[i] \in {0, served})

\* An instance that has lost access for good (a newer one owns the process, or its
\* restart budget is spent) ends without a session, also when it was in the middle of
\* opening one.
LostAccessEndsSession ==
    \A i \in Instances : <>[](~Allowed(i)) => <>[](live[i] = 0)

\* Permanently stopped: the budget is spent, and no call has a reply that is not counted.
Stopped(i) == EngineDeathLimitReached(i) /\ live[i] = 0 /\ i \notin replied

\* A spent restart budget is final: an instance that has used it up and has no session
\* never gets one again, although its threads go on asking for one.  Only a caller whose
\* reply came before that and who has not been scheduled since can revive it.
SpentBudgetIsFinal ==
    [][\A i \in Instances : Stopped(i) => Stopped(i)']_vars

\* The instance that owns the process ends with the session that the engine serves,
\* whatever an older instance still does to that session.
OwnerIsServed ==
    \A i \in Instances :
        <>[](state[i] = "open" /\ Allowed(i) /\ ~chan[i].fatal) => <>[](live[i] # 0 /\ live[i] = served)

\* docs/recovery_ownership.md: an engine death only says that an old session or an old
\* control is gone.  Violated: a notice that was under way when the channel bound the
\* next control takes that control away and names its session.
DeathNamesOldSession ==
    \A i \in Instances : notice[i].pc # "idle" /\ notice[i].session # 0 => notice[i].session # served
=============================================================================
