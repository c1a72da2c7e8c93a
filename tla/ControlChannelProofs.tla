------------------------ MODULE ControlChannelProofs ------------------------
(***************************************************************************)
(* The control channel for any number of VesClient instances and of        *)
(* incarnations of the engine: its death recipient is where its control    *)
(* is, and it knows the session of its RpcClient.                          *)
(*                                                                         *)
(* A step changes the records of one instance.  What makes the properties  *)
(* inductive is what the holder of lifecycleMutex_ may rely on: whoever is *)
(* opening or closing has no session, and an attach follows the store of   *)
(* the session it attaches to.                                             *)
(***************************************************************************)
EXTENDS ControlChannel, FiniteSetTheorems, TLAPS

OpPc == {"free", "bind", "closeOld", "load", "call", "sent", "refresh", "store", "attach",
         "closing", "take", "unbind", "tell"}
OpRecord == [pc : OpPc, peer : 0 .. MaxEngines, got : 0 .. MaxSessions, retry : BOOLEAN,
             next : {"done", "charge", "reopen"}]
ChanRecord == [control : 0 .. MaxEngines, dead : BOOLEAN, session : 0 .. MaxSessions, fatal : BOOLEAN]
DogRecord == [pc : {"idle", "ask", "unhealthy"}, observed : 0 .. MaxSessions]
NoticeRecord == [pc : {"idle", "read", "lock"}, session : 0 .. MaxSessions, observed : 0 .. MaxSessions]

\* TypeOK, by parts.
ThreadTypes ==
    /\ op \in [Instances -> OpRecord] /\ dog \in [Instances -> DogRecord]
    /\ notice \in [Instances -> NoticeRecord]
ChannelTypes ==
    /\ chan \in [Instances -> ChanRecord]
    /\ watching \subseteq Instances \X Engines /\ told \subseteq Instances \X Engines
SessionTypes ==
    /\ live \in [Instances -> 0 .. MaxSessions] /\ served \in 0 .. MaxSessions
    /\ attached \in [Sessions -> 0 .. Generations]
\* An engine that is not running can be started: the bound leaves room for it.
EngineTypes ==
    /\ engine \in 0 .. MaxEngines /\ started \in 0 .. MaxEngines
    /\ engine = 0 => started < MaxEngines
ClientTypes ==
    /\ state \in [Instances -> {"new", "open", "closed"}] /\ active \in 0 .. Generations
    /\ deaths \in [Instances -> Nat] /\ clients \in Nat /\ troubles \in Nat

Types == ThreadTypes /\ ChannelTypes /\ SessionTypes /\ EngineTypes /\ ClientTypes

\* What the holder of lifecycleMutex_ relies on, and what the others do.
Holding(i) ==
    /\ op[i].pc # "free" => live[i] = 0
    /\ op[i].pc \in {"store", "attach"} => op[i].got # 0
    /\ op[i].pc = "attach" => chan[i].session = op[i].got
    /\ live[i] # 0 /\ op[i].pc = "free" => chan[i].session = live[i]

\* The client that is attached to a session uses it.
AttachedUse == \A s \in Sessions : attached[s] # 0 => live[attached[s]] = s

Inner == (\A i \in Instances : Holding(i)) /\ AttachedUse

CInv == Types /\ Inner /\ RecipientFollowsControl

-----------------------------------------------------------------------------
(* Session ids.                                                             *)

\* An instance remembers six session ids at most, and a client is attached to the one
\* that it uses, so that one of MaxSessions is unused.
LEMMA FreshSessionExists ==
    ASSUME Types, AttachedUse
    PROVE  FreshSession \in Sessions
<1> DEFINE Remembered(i) == {live[i], chan[i].session, op[i].got, dog[i].observed, notice[i].session,
                             notice[i].observed}
           Name(i, k) == IF k = 1 THEN live[i] ELSE IF k = 2 THEN chan[i].session ELSE IF k = 3 THEN op[i].got
                         ELSE IF k = 4 THEN dog[i].observed ELSE IF k = 5 THEN notice[i].session
                         ELSE notice[i].observed
           f == [p \in Instances \X (1 .. 6) |-> IF Name(p[1], p[2]) \in Sessions THEN Name(p[1], p[2]) ELSE 1]
<1>1. SUFFICES ASSUME \A s \in Sessions : attached[s] # 0 \/ \E i \in Instances : s \in Remembered(i)
               PROVE  FALSE
  BY Zenon DEF FreshSession
<1>2. 1 \in Sessions
  BY ControlAssumption DEF Sessions, Instances
<1>3. ASSUME NEW s \in Sessions PROVE \E i \in Instances : s \in Remembered(i)
  <2>1. CASE attached[s] # 0
    <3>1. attached[s] \in Instances /\ live[attached[s]] = s
      BY <2>1 DEF Types, SessionTypes, AttachedUse, Instances
    <3> QED
      BY <3>1, Zenon
  <2> QED
    BY <1>1, <2>1, Zenon
<1>4. f \in Surjection(Instances \X (1 .. 6), Sessions)
  <2>1. f \in [Instances \X (1 .. 6) -> Sessions]
    BY <1>2, Zenon
  <2>2. ASSUME NEW s \in Sessions PROVE \E p \in Instances \X (1 .. 6) : f[p] = s
    <3>1. PICK i \in Instances : s \in Remembered(i)
      BY <1>3, Zenon
    <3>2. PICK k \in 1 .. 6 : Name(i, k) = s
      BY <3>1
    <3>3. <<i, k>> \in Instances \X (1 .. 6) /\ f[<<i, k>>] = s
      BY <3>2, Zenon
    <3> QED
      BY <3>3, Zenon
  <2> QED
    BY <2>1, <2>2, Zenon DEF Surjection
<1>5. /\ IsFiniteSet(Instances) /\ Cardinality(Instances) = Generations
      /\ IsFiniteSet(1 .. 6) /\ Cardinality(1 .. 6) = 6
      /\ Cardinality(Sessions) = MaxSessions
  <2>1. ASSUME NEW n \in Nat PROVE IsFiniteSet(1 .. n) /\ Cardinality(1 .. n) = n
    <3>1. IsFiniteSet(1 .. n) /\ Cardinality(1 .. n) = IF 1 > n THEN 0 ELSE n - 1 + 1
      BY FS_Interval
    <3> QED
      BY <3>1
  <2>2. 6 \in Nat /\ Generations \in Nat /\ MaxSessions \in Nat
    BY ControlAssumption, Zenon
  <2> QED
    BY <2>1, <2>2, Zenon DEF Instances, Sessions
<1>6. IsFiniteSet(Instances \X (1 .. 6)) /\ Cardinality(Instances \X (1 .. 6)) = Generations * 6
  <2>1. IsFiniteSet(Instances \X (1 .. 6))
        /\ Cardinality(Instances \X (1 .. 6)) = Cardinality(Instances) * Cardinality(1 .. 6)
    BY <1>5, FS_Product, Zenon
  <2> QED
    BY <1>5, <2>1, Zenon
<1> HIDE DEF f
<1>7. Cardinality(Sessions) <= Cardinality(Instances \X (1 .. 6))
  BY <1>4, <1>6, FS_Surjection, Zenon
<1> QED
  BY <1>5, <1>6, <1>7, ControlAssumption

-----------------------------------------------------------------------------
(* What the parts of the steps do.                                          *)

\* Zero stands for "none" everywhere.
LEMMA ZeroIsThere == 0 \in 0 .. MaxEngines /\ 0 \in 0 .. MaxSessions /\ IdleOp \in OpRecord
<1>1. 0 \in 0 .. MaxEngines /\ 0 \in 0 .. MaxSessions
  BY ControlAssumption
<1> QED
  BY <1>1, Zenon DEF IdleOp, OpRecord, OpPc

\* Whoever has lifecycleMutex_ goes on, without a session.
LEMMA OperationGoesOn ==
    ASSUME Types, Inner, NEW i \in Instances, NEW x \in OpRecord, NEW y \in ChanRecord,
           op' = [op EXCEPT ![i] = x], chan' = [chan EXCEPT ![i] = y], UNCHANGED <<live, attached>>,
           live[i] = 0, x.pc = "attach" => y.session = x.got, x.pc \in {"store", "attach"} => x.got # 0
    PROVE  op' \in [Instances -> OpRecord] /\ chan' \in [Instances -> ChanRecord] /\ Inner'
<1>1. op' \in [Instances -> OpRecord] /\ op'[i] = x /\ \A j \in Instances : j # i => op'[j] = op[j]
  BY Zenon DEF Types, ThreadTypes
<1>2. chan' \in [Instances -> ChanRecord] /\ chan'[i] = y /\ \A j \in Instances : j # i => chan'[j] = chan[j]
  BY Zenon DEF Types, ChannelTypes
<1>3. ASSUME NEW j \in Instances PROVE Holding(j)'
  <2>1. CASE j = i
    BY <1>1, <1>2, <2>1, Zenon DEF Holding
  <2>2. CASE j # i
    BY <1>1, <1>2, <2>2, Zenon DEF Holding, Inner
  <2> QED
    BY <2>1, <2>2, Zenon
<1>4. AttachedUse'
  BY Zenon DEF AttachedUse, Inner
<1> QED
  BY <1>1, <1>2, <1>3, <1>4, Zenon DEF Inner

\* The same, while the channel stays as it is.
LEMMA OperationOnly ==
    ASSUME Types, Inner, NEW i \in Instances, NEW x \in OpRecord,
           op' = [op EXCEPT ![i] = x], UNCHANGED <<chan, live, attached>>,
           live[i] = 0, x.pc # "attach", x.pc = "store" => x.got # 0
    PROVE  op' \in [Instances -> OpRecord] /\ Inner'
<1>1. chan[i] \in ChanRecord /\ chan' = [chan EXCEPT ![i] = chan[i]]
  BY Zenon DEF Types, ChannelTypes
<1> QED
  BY <1>1, OperationGoesOn, Zenon

\* The channel changes, and not its session.
LEMMA SessionsStay ==
    ASSUME Inner, UNCHANGED <<op, live, attached>>, \A j \in Instances : chan'[j].session = chan[j].session
    PROVE  Inner'
<1>1. ASSUME NEW j \in Instances PROVE Holding(j)'
  BY Zenon DEF Holding, Inner
<1>2. AttachedUse'
  BY Zenon DEF AttachedUse, Inner
<1> QED
  BY <1>1, <1>2, Zenon DEF Inner

\* The RpcClient lets its session go.
LEMMA StartCloseEffect ==
    ASSUME Types, Inner, NEW i \in Instances, NEW next \in {"done", "charge", "reopen"},
           StartClose(i, next), UNCHANGED chan
    PROVE  /\ op' \in [Instances -> OpRecord] /\ live' \in [Instances -> 0 .. MaxSessions]
           /\ attached' \in [Sessions -> 0 .. Generations] /\ Inner'
<1> DEFINE x == [IdleOp EXCEPT !.pc = "closing", !.next = next]
<1>1. x \in OpRecord /\ x.pc = "closing"
  BY ZeroIsThere, Zenon DEF OpRecord, OpPc
<1>2. op' = [op EXCEPT ![i] = x] /\ live' = [live EXCEPT ![i] = 0]
      /\ attached' = [s \in Sessions |-> IF s = live[i] THEN 0 ELSE attached[s]]
  BY Zenon DEF StartClose
<1> HIDE DEF x
<1>3. op' \in [Instances -> OpRecord] /\ op'[i] = x /\ \A j \in Instances : j # i => op'[j] = op[j]
  BY <1>1, <1>2, Zenon DEF Types, ThreadTypes
<1>4. live' \in [Instances -> 0 .. MaxSessions] /\ live'[i] = 0 /\ \A j \in Instances : j # i => live'[j] = live[j]
  BY <1>2, ControlAssumption DEF Types, SessionTypes
<1>5. attached' \in [Sessions -> 0 .. Generations]
  BY <1>2, ControlAssumption DEF Types, SessionTypes
<1>6. ASSUME NEW j \in Instances PROVE Holding(j)'
  BY <1>1, <1>3, <1>4, Zenon DEF Holding, Inner
<1>7. ASSUME NEW s \in Sessions, attached'[s] # 0 PROVE live'[attached'[s]] = s
  <2>1. attached'[s] = attached[s] /\ s # live[i]
    BY <1>2, <1>7, Zenon
  <2>2. attached[s] \in Instances /\ live[attached[s]] = s
    BY <1>7, <2>1 DEF Types, SessionTypes, AttachedUse, Inner, Instances
  <2> QED
    BY <1>4, <2>1, <2>2, Zenon
<1> QED
  BY <1>3, <1>4, <1>5, <1>6, <1>7, Zenon DEF Inner, AttachedUse

\* The death recipient moves with the control.
LEMMA RecipientMoves ==
    ASSUME Types, RecipientFollowsControl, NEW i \in Instances, NEW c \in 0 .. MaxEngines, NEW y \in ChanRecord,
           y.control = c, chan' = [chan EXCEPT ![i] = y],
           watching' = (watching \ ({i} \X {chan[i].control})) \cup ({i} \X ({c} \ {0}))
    PROVE  watching' \subseteq Instances \X Engines /\ RecipientFollowsControl'
<1>1. chan'[i] = y /\ \A j \in Instances : j # i => chan'[j] = chan[j]
  BY Zenon DEF Types, ChannelTypes
<1>2. c # 0 => c \in Engines
  BY DEF Engines
<1>3. watching' \subseteq Instances \X Engines
  <2>1. watching \subseteq Instances \X Engines
    BY Zenon DEF Types, ChannelTypes
  <2> QED
    BY <1>2, <2>1, Zenon
<1>4. ASSUME NEW j \in Instances, NEW e \in Engines PROVE <<j, e>> \in watching' <=> chan'[j].control = e
  <2>1. e # 0 /\ (<<j, e>> \in watching <=> chan[j].control = e)
    BY DEF Engines, RecipientFollowsControl
  <2>2. CASE j = i
    <3>1. <<j, e>> \in watching' <=> e = c
      BY <2>1, <2>2, Zenon
    <3> QED
      BY <1>1, <2>2, <3>1, Zenon
  <2>3. CASE j # i
    <3>1. <<j, e>> \in watching' <=> <<j, e>> \in watching
      BY <2>3, Zenon
    <3> QED
      BY <1>1, <2>1, <2>3, <3>1, Zenon
  <2> QED
    BY <2>2, <2>3, Zenon
<1> QED
  BY <1>3, <1>4, Zenon DEF RecipientFollowsControl

\* RebindControlLocked.
LEMMA RebindEffect ==
    ASSUME Types, RecipientFollowsControl, NEW i \in Instances, NEW c \in 0 .. MaxEngines,
           NEW s \in 0 .. MaxSessions, Rebind(i, c, s)
    PROVE  /\ \E y \in ChanRecord : y.session = s /\ chan' = [chan EXCEPT ![i] = y]
           /\ watching' \subseteq Instances \X Engines /\ RecipientFollowsControl'
<1> DEFINE y == [chan[i] EXCEPT !.control = c, !.dead = FALSE, !.session = s]
<1>1. y \in ChanRecord /\ y.control = c /\ y.session = s
  BY Zenon DEF Types, ChannelTypes, ChanRecord
<1>2. chan' = [chan EXCEPT ![i] = y]
      /\ watching' = (watching \ ({i} \X {chan[i].control})) \cup ({i} \X ({c} \ {0}))
  BY Zenon DEF Rebind
<1> HIDE DEF y
<1> QED
  BY <1>1, <1>2, RecipientMoves, Zenon

\* A control that is only marked or gets a session is the same control.
LEMMA RecipientStays ==
    ASSUME RecipientFollowsControl, UNCHANGED watching, \A j \in Instances : chan'[j].control = chan[j].control
    PROVE  RecipientFollowsControl'
BY Zenon DEF RecipientFollowsControl

\* A step that leaves operations, sessions and channels alone.
LEMMA Aside ==
    ASSUME CInv, Types', UNCHANGED <<op, live, chan, attached, watching>>
    PROVE  CInv'
<1>1. Inner'
  BY SessionsStay, Zenon DEF CInv
<1>2. RecipientFollowsControl'
  BY RecipientStays, Zenon DEF CInv
<1> QED
  BY <1>1, <1>2, Zenon DEF CInv

\* The records that Goto, Release and TryOpen leave behind.
LEMMA Records ==
    ASSUME Types, NEW i \in Instances
    PROVE  /\ op[i] \in OpRecord /\ chan[i] \in ChanRecord /\ dog[i] \in DogRecord /\ notice[i] \in NoticeRecord
           /\ \A p \in OpPc : [op[i] EXCEPT !.pc = p] \in OpRecord /\ [op[i] EXCEPT !.pc = p].pc = p
           /\ [IdleOp EXCEPT !.pc = "bind"] \in OpRecord /\ [IdleOp EXCEPT !.pc = "bind"].pc = "bind"
           /\ IdleOp \in OpRecord /\ IdleOp.pc = "free"
<1>1. op[i] \in OpRecord /\ chan[i] \in ChanRecord /\ dog[i] \in DogRecord /\ notice[i] \in NoticeRecord
  BY Zenon DEF Types, ThreadTypes, ChannelTypes
<1>2. \A p \in OpPc : [op[i] EXCEPT !.pc = p] \in OpRecord /\ [op[i] EXCEPT !.pc = p].pc = p
  BY <1>1, Zenon DEF OpRecord
<1>3. [IdleOp EXCEPT !.pc = "bind"] \in OpRecord /\ [IdleOp EXCEPT !.pc = "bind"].pc = "bind"
  BY ZeroIsThere, Zenon DEF OpRecord, OpPc
<1>4. IdleOp.pc = "free"
  BY Zenon DEF IdleOp
<1> QED
  BY <1>1, <1>2, <1>3, <1>4, ZeroIsThere, Zenon

-----------------------------------------------------------------------------
(* The steps.                                                               *)

\* A trouble less is to come.
LEMMA TroubleEffect == ASSUME Types, Trouble PROVE troubles' \in Nat /\ clients' = clients
<1>1. troubles \in Nat
  BY Zenon DEF Types, ClientTypes
<1> QED
  BY <1>1, SMT, Z3 DEF Trouble

\* Clients come and go, and calls return.
LEMMA ClientStep ==
    ASSUME CInv, NEW i \in Instances, Connect(i) \/ ReplyArrives(i) \/ InvokeSucceeds(i) \/ PushFails(i) PROVE CInv'
<1>1. UNCHANGED <<op, live, chan, attached, watching, dog, notice, told, engineVars>>
  BY Zenon DEF Connect, ReplyArrives, InvokeSucceeds, PushFails, remoteVars
<1>2. ClientTypes'
  <2>1. CASE Connect(i)
    <3>1. i \in 0 .. Generations
      BY DEF Instances
    <3> QED
      BY <2>1, <3>1, Zenon DEF Connect, CInv, Types, ClientTypes, bounds
  <2>2. CASE InvokeSucceeds(i)
    BY <2>2, Zenon DEF InvokeSucceeds, CInv, Types, ClientTypes, bounds
  <2>3. CASE ReplyArrives(i)
    BY <2>3, Zenon DEF ReplyArrives, CInv, Types, ClientTypes, bounds
  <2>4. CASE PushFails(i)
    <3>1. troubles' \in Nat
      BY <2>4, TroubleEffect, Zenon DEF PushFails, CInv
    <3> QED
      BY <2>4, <3>1, Zenon DEF PushFails, Trouble, CInv, Types, ClientTypes
  <2> QED
    BY <2>1, <2>2, <2>3, <2>4, Zenon
<1>3. Types'
  BY <1>1, <1>2, Zenon DEF CInv, Types, ThreadTypes, ChannelTypes, SessionTypes, EngineTypes, engineVars
<1> QED
  BY <1>1, <1>3, Aside, Zenon

\* The watchdog asks for the health of the session.
LEMMA HealthStep ==
    ASSUME CInv, NEW i \in Instances, HealthStart(i) \/ HealthAsk(i) \/ HealthTimesOut(i) PROVE CInv'
<1>1. UNCHANGED <<op, live, chan, attached, watching, notice, told, engineVars, state, active, deaths, clients>>
  BY Zenon DEF HealthStart, HealthAsk, HealthTimesOut, Trouble, remoteVars, bounds
<1>2. troubles' \in Nat
  BY DEF HealthStart, HealthAsk, HealthTimesOut, Trouble, bounds, CInv, Types, ClientTypes
<1>3. dog[i] \in DogRecord /\ IdleDog \in DogRecord /\ live[i] \in 0 .. MaxSessions
  BY Records, ZeroIsThere, Zenon DEF CInv, Types, SessionTypes, IdleDog, DogRecord
<1>4. [dog[i] EXCEPT !.pc = "unhealthy"] \in DogRecord /\ [pc |-> "ask", observed |-> live[i]] \in DogRecord
  BY <1>3, Zenon DEF DogRecord
<1>5. \E x \in DogRecord : dog' = [dog EXCEPT ![i] = x]
  <2>1. CASE HealthStart(i)
    BY <1>4, <2>1, Zenon DEF HealthStart
  <2>2. CASE HealthAsk(i)
    <3>1. CASE Unhealthy(i, dog[i].observed)
      BY <1>4, <2>2, <3>1, Zenon DEF HealthAsk
    <3>2. CASE ~Unhealthy(i, dog[i].observed)
      BY <1>3, <2>2, <3>2, Zenon DEF HealthAsk
    <3> QED
      BY <3>1, <3>2, Zenon
  <2>3. CASE HealthTimesOut(i)
    BY <1>4, <2>3, Zenon DEF HealthTimesOut
  <2> QED
    BY <2>1, <2>2, <2>3, Zenon
<1>6. dog' \in [Instances -> DogRecord]
  BY <1>5, Zenon DEF CInv, Types, ThreadTypes
<1>7. Types'
  BY <1>1, <1>2, <1>6, Zenon DEF CInv, Types, ThreadTypes, ChannelTypes, SessionTypes, EngineTypes, ClientTypes, engineVars
<1> QED
  BY <1>1, <1>7, Aside, Zenon

\* The engine dies; the death callback samples the session.
LEMMA DeathStep == ASSUME CInv, EngineDies \/ \E i \in Instances : NoticeReads(i) PROVE CInv'
<1>1. CASE EngineDies
  <2>1. UNCHANGED <<op, live, chan, attached, watching, dog, notice, told, state, active, deaths, clients, started>>
    BY <1>1, Zenon DEF EngineDies, Trouble, remoteVars
  <2>2. engine' = 0 /\ served' = 0 /\ started < MaxEngines /\ troubles' \in Nat
    BY <1>1 DEF EngineDies, Trouble, CInv, Types, ClientTypes
  <2>3. Types'
    BY <2>1, <2>2, ZeroIsThere, Zenon DEF CInv, Types, ThreadTypes, ChannelTypes, SessionTypes, EngineTypes, ClientTypes
  <2> QED
    BY <2>1, <2>3, Aside, Zenon
<1>2. ASSUME NEW i \in Instances, NoticeReads(i) PROVE CInv'
  <2>1. UNCHANGED <<op, live, chan, attached, watching, dog, told, state, active, deaths, engineVars, bounds>>
    BY <1>2, Zenon DEF NoticeReads, remoteVars
  <2>0. notice[i] \in NoticeRecord /\ live[i] \in 0 .. MaxSessions
    BY Records, Zenon DEF CInv, Types, SessionTypes
  <2>2. [notice[i] EXCEPT !.pc = "lock", !.observed = live[i]] \in NoticeRecord
    BY <2>0, Zenon DEF NoticeRecord
  <2>3. notice' \in [Instances -> NoticeRecord]
    BY <1>2, <2>2, Zenon DEF NoticeReads, CInv, Types, ThreadTypes
  <2>4. Types'
    BY <2>1, <2>3, Zenon DEF CInv, Types, ThreadTypes, ChannelTypes, SessionTypes, EngineTypes, ClientTypes, engineVars,
                      bounds
  <2> QED
    BY <2>1, <2>4, Aside, Zenon
<1> QED
  BY <1>1, <1>2, Zenon

\* The record of an operation that refreshes the control.
LEMMA RefreshRecord ==
    ASSUME NEW o \in OpRecord, NEW r \in BOOLEAN
    PROVE  /\ [o EXCEPT !.pc = "closeOld", !.retry = r] \in OpRecord
           /\ [o EXCEPT !.pc = "closeOld", !.retry = r].pc = "closeOld"
BY Zenon DEF OpRecord, OpPc

\* The record of an operation that has sent its command.
LEMMA SendRecord ==
    ASSUME NEW o \in OpRecord, NEW e \in 0 .. MaxEngines
    PROVE  /\ [o EXCEPT !.pc = "sent", !.peer = e] \in OpRecord
           /\ [o EXCEPT !.pc = "sent", !.peer = e].pc = "sent"
BY Zenon DEF OpRecord, OpPc

\* The records of an operation that has a control, and of one that found nobody behind it.
LEMMA CallRecord ==
    ASSUME NEW o \in OpRecord, NEW e \in 0 .. MaxEngines, NEW p \in {"call", "refresh"}
    PROVE  /\ [o EXCEPT !.pc = p, !.peer = e] \in OpRecord
           /\ [o EXCEPT !.pc = p, !.peer = e].pc = p
BY Zenon DEF OpRecord, OpPc

\* The record of an operation that has received a session.
LEMMA ReceiveRecord ==
    ASSUME NEW o \in OpRecord, NEW s \in 0 .. MaxSessions
    PROVE  /\ [o EXCEPT !.pc = "store", !.peer = 0, !.got = s] \in OpRecord
           /\ [o EXCEPT !.pc = "store", !.peer = 0, !.got = s].pc = "store"
           /\ [o EXCEPT !.pc = "store", !.peer = 0, !.got = s].got = s
BY ZeroIsThere, Zenon DEF OpRecord, OpPc

\* The holder of lifecycleMutex_ goes on and leaves the channel alone.
LEMMA HolderMoves ==
    ASSUME CInv, NEW i \in Instances, NEW x \in OpRecord, op' = [op EXCEPT ![i] = x],
           live[i] = 0, x.pc # "attach", x.pc = "store" => x.got # 0, served' \in 0 .. MaxSessions,
           deaths' \in [Instances -> Nat],
           UNCHANGED <<chan, live, attached, watching, told, dog, notice, state, active, engine, started, clients, troubles>>
    PROVE  CInv'
<1>1. op' \in [Instances -> OpRecord] /\ Inner'
  BY OperationOnly, Zenon DEF CInv
<1>2. RecipientFollowsControl'
  BY RecipientStays, Zenon DEF CInv
<1>3. Types'
  BY <1>1, Zenon DEF CInv, Types, ThreadTypes, ChannelTypes, SessionTypes, EngineTypes, ClientTypes
<1> QED
  BY <1>1, <1>2, <1>3, Zenon DEF CInv

\* What TryOpen leaves behind.
LEMMA TryOpenEffect ==
    ASSUME Types, NEW i \in Instances, TryOpen(i)
    PROVE  \E x \in OpRecord : op' = [op EXCEPT ![i] = x] /\ x.pc \in {"bind", "free"}
<1>1. CASE Allowed(i)
  BY <1>1, Records, Zenon DEF TryOpen
<1>2. CASE ~Allowed(i)
  BY <1>2, Records, Zenon DEF TryOpen
<1> QED
  BY <1>1, <1>2, Zenon

\* What RefreshControl leaves behind.
LEMMA RefreshEffect ==
    ASSUME Types, NEW i \in Instances, NEW retry \in BOOLEAN, RefreshControl(i, retry)
    PROVE  \E x \in OpRecord : op' = [op EXCEPT ![i] = x] /\ x.pc \in {"closeOld", "free"}
<1> DEFINE y == [op[i] EXCEPT !.pc = "closeOld", !.retry = retry]
<1>1. y \in OpRecord /\ y.pc = "closeOld"
  <2>1. op[i] \in OpRecord
    BY Records, Zenon
  <2> QED
    BY <2>1, RefreshRecord, Zenon
<1>2. op' = [op EXCEPT ![i] = IF Allowed(i) /\ ~chan[i].fatal THEN y ELSE IdleOp]
  BY Zenon DEF RefreshControl
<1> HIDE DEF y
<1>3. CASE Allowed(i) /\ ~chan[i].fatal
  BY <1>1, <1>2, <1>3, Zenon
<1>4. CASE ~(Allowed(i) /\ ~chan[i].fatal)
  BY <1>2, <1>4, Records, Zenon
<1> QED
  BY <1>3, <1>4, Zenon

\* A restart is counted, as far as the budget goes.
LEMMA ChargeEffect ==
    ASSUME Types, NEW i \in Instances, Charge(i)
    PROVE  /\ deaths' \in [Instances -> Nat]
           /\ \A j \in Instances : EngineDeathLimitReached(j) => deaths'[j] = deaths[j]
           /\ \A j \in Instances : j # i => deaths'[j] = deaths[j]
<1> DEFINE n == IF DeathLimit > 0 /\ deaths[i] >= DeathLimit THEN deaths[i] ELSE deaths[i] + 1
<1>1. deaths \in [Instances -> Nat] /\ deaths[i] \in Nat
  BY Zenon DEF Types, ClientTypes
<1>2. deaths' = [deaths EXCEPT ![i] = n]
  BY Zenon DEF Charge
<1>3. n \in Nat /\ (EngineDeathLimitReached(i) => n = deaths[i])
  BY <1>1, SMT, Z3 DEF EngineDeathLimitReached
<1> HIDE DEF n
<1> QED
  BY <1>1, <1>2, <1>3, Zenon

\* What AfterClose leaves behind.
LEMMA AfterCloseEffect ==
    ASSUME Types, NEW i \in Instances, AfterClose(i)
    PROVE  /\ \E x \in OpRecord : op' = [op EXCEPT ![i] = x] /\ x.pc \in {"bind", "free"}
           /\ deaths' \in [Instances -> Nat]
<1>1. \E x \in OpRecord : op' = [op EXCEPT ![i] = x] /\ x.pc \in {"bind", "free"}
  <2>1. CASE op[i].next = "reopen"
    BY <2>1, TryOpenEffect, Zenon DEF AfterClose
  <2>2. CASE op[i].next # "reopen"
    BY <2>2, Records, Zenon DEF AfterClose, Release
  <2> QED
    BY <2>1, <2>2, Zenon
<1>2. deaths' \in [Instances -> Nat]
  BY ChargeEffect, Zenon DEF AfterClose, Types, ClientTypes
<1> QED
  BY <1>1, <1>2, Zenon

\* Opening and closing, as far as the channel is left alone.
LEMMA OperationStep ==
    ASSUME CInv, NEW i \in Instances,
           \/ NeedSession(i) \/ LoaderCloses(i) \/ OpenStillDead(i) \/ OpenConnect(i) \/ OpenRefresh(i)
           \/ OpenReceive(i) \/ CloseAccess(i) \/ CloseTell(i)
    PROVE  CInv'
<1> USE Records, ZeroIsThere
<1>0. Types /\ deaths \in [Instances -> Nat] /\ served \in 0 .. MaxSessions /\ (op[i].pc # "free" => live[i] = 0)
  BY Zenon DEF CInv, Types, ClientTypes, SessionTypes, Inner, Holding
<1>1. CASE NeedSession(i)
  <2>1. PICK x \in OpRecord : op' = [op EXCEPT ![i] = x] /\ x.pc \in {"bind", "free"}
    BY <1>0, <1>1, TryOpenEffect, Zenon DEF NeedSession
  <2>2. live[i] = 0
    BY <1>1, Zenon DEF NeedSession
  <2> QED
    BY <1>0, <1>1, <2>1, <2>2, HolderMoves, Zenon DEF NeedSession, engineVars, remoteVars, bounds
<1>2. CASE LoaderCloses(i)
  <2> DEFINE x == [op[i] EXCEPT !.pc = "load"]
  <2>1. x \in OpRecord /\ x.pc = "load"
    BY <1>0, Zenon DEF OpPc
  <2>2. op' = [op EXCEPT ![i] = x] /\ op[i].pc = "closeOld"
    BY <1>2, Zenon DEF LoaderCloses, Goto
  <2> HIDE DEF x
  <2> QED
    BY <1>0, <1>2, <2>1, <2>2, HolderMoves, Zenon DEF LoaderCloses, remoteVars, bounds
<1>3. CASE OpenConnect(i)
  <2> DEFINE y == [op[i] EXCEPT !.pc = "sent", !.peer = engine]
             z == [op[i] EXCEPT !.pc = "refresh", !.peer = 0]
  <2>1. y \in OpRecord /\ y.pc = "sent"
    <3>1. op[i] \in OpRecord /\ engine \in 0 .. MaxEngines
      BY <1>0, Zenon DEF Types, EngineTypes
    <3> QED
      BY <3>1, SendRecord, Zenon
  <2>2. z \in OpRecord /\ z.pc = "refresh"
    <3>1. op[i] \in OpRecord /\ "refresh" \in {"call", "refresh"}
      BY <1>0, Zenon
    <3> QED
      BY <3>1, CallRecord, Zenon
  <2>3. op[i].pc = "call" /\ (op' = [op EXCEPT ![i] = y] \/ op' = [op EXCEPT ![i] = z] \/ op' = [op EXCEPT ![i] = IdleOp])
    BY <1>3, Zenon DEF OpenConnect, Goto, Release
  <2> HIDE DEF y, z
  <2>4. PICK x \in OpRecord : op' = [op EXCEPT ![i] = x] /\ x.pc \in {"sent", "refresh", "free"}
    BY <1>0, <2>1, <2>2, <2>3, Zenon
  <2> QED
    BY <1>0, <1>3, <2>3, <2>4, HolderMoves, Zenon DEF OpenConnect, engineVars, remoteVars, bounds
<1>4. CASE OpenRefresh(i)
  <2>1. PICK x \in OpRecord : op' = [op EXCEPT ![i] = x] /\ x.pc \in {"closeOld", "free"}
    BY <1>0, <1>4, RefreshEffect, Zenon DEF OpenRefresh
  <2>2. op[i].pc = "refresh"
    BY <1>4, Zenon DEF OpenRefresh
  <2> QED
    BY <1>0, <1>4, <2>1, <2>2, HolderMoves, Zenon DEF OpenRefresh, engineVars, remoteVars, bounds
<1>5. CASE OpenReceive(i)
  <2>1. FreshSession \in Sessions
    BY FreshSessionExists, Zenon DEF CInv, Inner
  <2>2. CASE engine = op[i].peer
    <3> DEFINE x == [op[i] EXCEPT !.pc = "store", !.peer = 0, !.got = served']
    <3>1. served' \in 0 .. MaxSessions /\ served' # 0
      BY <1>0, <1>5, <2>1, <2>2, SMT, Z3 DEF OpenReceive, Sessions
    <3>2. x \in OpRecord /\ x.pc = "store" /\ x.got # 0
      <4>1. op[i] \in OpRecord
        BY <1>0, Zenon
      <4> QED
        BY <3>1, <4>1, ReceiveRecord, ZenonT(60)
    <3>3. op' = [op EXCEPT ![i] = x] /\ op[i].pc = "sent"
      BY <1>5, <2>2, Zenon DEF OpenReceive
    <3> HIDE DEF x
    <3> QED
      BY <1>0, <1>5, <3>1, <3>2, <3>3, HolderMoves, Zenon DEF OpenReceive, remoteVars, bounds
  <2>3. CASE engine # op[i].peer
    <3>1. op' = [op EXCEPT ![i] = IdleOp] /\ op[i].pc = "sent" /\ served' = served
      BY <1>5, <2>3, Zenon DEF OpenReceive, Release
    <3> QED
      BY <1>0, <1>5, <3>1, HolderMoves, Zenon DEF OpenReceive, remoteVars, bounds
  <2> QED
    BY <2>2, <2>3, Zenon
<1>6. CASE CloseAccess(i)
  <2>1. PICK p \in {"take", "unbind"} : op' = [op EXCEPT ![i] = [op[i] EXCEPT !.pc = p]] /\ op[i].pc = "closing"
    BY <1>6, Zenon DEF CloseAccess, Goto
  <2> DEFINE x == [op[i] EXCEPT !.pc = p]
  <2>2. x \in OpRecord /\ x.pc = p
    <3>1. p \in OpPc
      BY Zenon DEF OpPc
    <3> QED
      BY <1>0, <3>1, Zenon
  <2>3. op' = [op EXCEPT ![i] = x]
    BY <2>1, Zenon
  <2> HIDE DEF x
  <2> QED
    BY <1>0, <1>6, <2>1, <2>2, <2>3, HolderMoves, Zenon DEF CloseAccess, engineVars, remoteVars, bounds
<1>7. CASE CloseTell(i)
  <2>1. /\ op[i].pc = "tell" /\ served' = 0 /\ deaths' \in [Instances -> Nat]
        /\ \E x \in OpRecord : op' = [op EXCEPT ![i] = x] /\ x.pc \in {"bind", "free"}
    BY <1>0, <1>7, AfterCloseEffect, Zenon DEF CloseTell
  <2> QED
    BY <1>0, <1>7, <2>1, HolderMoves, Zenon DEF CloseTell, remoteVars, bounds
<1>8. CASE OpenStillDead(i)
  <2>1. op[i].pc = "call" /\ op' = [op EXCEPT ![i] = IdleOp] /\ IdleOp.pc = "free"
    BY <1>8, Zenon DEF OpenStillDead, Release, IdleOp
  <2> QED
    BY <1>0, <1>8, <2>1, HolderMoves, Zenon DEF OpenStillDead, engineVars, remoteVars, bounds
<1> QED
  BY <1>1, <1>2, <1>3, <1>4, <1>5, <1>6, <1>7, <1>8, Zenon

\* The holder of lifecycleMutex_ goes on and changes its channel.
LEMMA HolderBinds ==
    ASSUME CInv, NEW i \in Instances, NEW x \in OpRecord, op' = [op EXCEPT ![i] = x], live[i] = 0,
           NEW y \in ChanRecord, chan' = [chan EXCEPT ![i] = y],
           x.pc # "attach", x.pc # "store", watching' \subseteq Instances \X Engines, RecipientFollowsControl',
           EngineTypes', deaths' \in [Instances -> Nat], troubles' \in Nat,
           UNCHANGED <<live, served, attached, told, dog, notice, state, active, clients>>
    PROVE  CInv'
<1>1. op' \in [Instances -> OpRecord] /\ chan' \in [Instances -> ChanRecord] /\ Inner'
  BY OperationGoesOn, Zenon DEF CInv
<1>2. Types'
  BY <1>1, Zenon DEF CInv, Types, ThreadTypes, ChannelTypes, SessionTypes, ClientTypes
<1> QED
  BY <1>1, <1>2, Zenon DEF CInv

\* LoadOpenSessionControl.
LEMMA BindStep == ASSUME CInv, NEW i \in Instances, OpenBind(i) PROVE CInv'
<1>0. /\ Types /\ op[i].pc = "bind" /\ live[i] = 0
      /\ deaths' = deaths /\ troubles' = troubles /\ UNCHANGED engineVars
      /\ UNCHANGED <<live, served, attached, told, dog, notice, state, active, clients>>
  BY Zenon DEF OpenBind, CInv, Inner, Holding, engineVars, bounds
<1>1. EngineTypes' /\ deaths' \in [Instances -> Nat] /\ troubles' \in Nat
  BY <1>0, Zenon DEF engineVars, Types, EngineTypes, ClientTypes
<1>2. CASE Rebind(i, 0, 0) /\ Release(i)
  <2>1. 0 \in 0 .. MaxEngines /\ 0 \in 0 .. MaxSessions /\ IdleOp \in OpRecord
    BY ZeroIsThere, Zenon
  <2>2. /\ \E y \in ChanRecord : y.session = 0 /\ chan' = [chan EXCEPT ![i] = y]
        /\ watching' \subseteq Instances \X Engines /\ RecipientFollowsControl'
    BY <1>2, <2>1, RebindEffect, Zenon DEF CInv
  <2>3. op' = [op EXCEPT ![i] = IdleOp] /\ IdleOp.pc = "free"
    BY <1>2, Zenon DEF Release, IdleOp
  <2> QED
    BY <1>0, <1>1, <2>1, <2>2, <2>3, HolderBinds, Zenon
<1>3. CASE /\ UNCHANGED <<chan, watching>>
           /\ \E x \in OpRecord : op' = [op EXCEPT ![i] = x] /\ x.pc \in {"call", "closeOld", "free"}
  <2>1. served' \in 0 .. MaxSessions
    BY <1>0, Zenon DEF engineVars, Types, SessionTypes
  <2> QED
    BY <1>0, <1>1, <1>3, <2>1, HolderMoves, Zenon DEF engineVars
<1>4. \/ Rebind(i, 0, 0) /\ Release(i)
      \/ UNCHANGED <<chan, watching>> /\ (Goto(i, "call") \/ RefreshControl(i, FALSE))
  BY Zenon DEF OpenBind
<1>5. Goto(i, "call") => \E x \in OpRecord : op' = [op EXCEPT ![i] = x] /\ x.pc = "call"
  <2>1. "call" \in OpPc
    BY Zenon DEF OpPc
  <2> QED
    BY <1>0, <2>1, Records, Zenon DEF Goto
<1>6. RefreshControl(i, FALSE) => \E x \in OpRecord : op' = [op EXCEPT ![i] = x] /\ x.pc \in {"closeOld", "free"}
  BY <1>0, RefreshEffect, Zenon
<1> QED
  BY <1>2, <1>3, <1>4, <1>5, <1>6, Zenon

\* The loader answers.
LEMMA LoadStep == ASSUME CInv, NEW i \in Instances, LoaderLoads(i) \/ LoaderFails(i) PROVE CInv'
<1>0. /\ Types /\ op[i].pc = "load" /\ live[i] = 0 /\ chan[i] \in ChanRecord /\ chan[i].session \in 0 .. MaxSessions
      /\ UNCHANGED <<deaths, live, served, attached, told, dog, notice, state, active, clients>>
  BY Zenon DEF LoaderLoads, LoaderFails, Trouble, CInv, Types, ChannelTypes, ChanRecord, Inner, Holding, engineVars, bounds
<1>1. deaths' \in [Instances -> Nat] /\ troubles' \in Nat
  BY <1>0 DEF LoaderLoads, LoaderFails, Trouble, Types, ClientTypes, bounds
<1>2. CASE LoaderLoads(i)
  <2>1. EngineTypes' /\ engine' \in 0 .. MaxEngines
    BY <1>0, <1>2, ControlAssumption, SMT, Z3 DEF LoaderLoads, Types, EngineTypes
  <2>2. /\ \E y \in ChanRecord : y.session = chan[i].session /\ chan' = [chan EXCEPT ![i] = y]
        /\ watching' \subseteq Instances \X Engines /\ RecipientFollowsControl'
    BY <1>0, <1>2, <2>1, RebindEffect, Zenon DEF LoaderLoads, CInv
  <2>3. \E x \in OpRecord : op' = [op EXCEPT ![i] = x] /\ x.pc = "call"
    <3>1. PICK e \in {0, engine'} : op' = [op EXCEPT ![i] = [op[i] EXCEPT !.pc = "call", !.peer = e]]
      BY <1>2, Zenon DEF LoaderLoads
    <3>2. e \in 0 .. MaxEngines /\ op[i] \in OpRecord /\ "call" \in {"call", "refresh"}
      BY <1>0, <2>1, <3>1, ZeroIsThere, Records, Zenon
    <3> QED
      BY <3>1, <3>2, CallRecord, Zenon
  <2> QED
    BY <1>0, <1>1, <2>1, <2>2, <2>3, HolderBinds, Zenon
<1>3. CASE LoaderFails(i)
  <2> DEFINE y == [chan[i] EXCEPT !.control = 0, !.dead = FALSE, !.fatal = TRUE]
  <2>1. y \in ChanRecord /\ y.control = 0
    BY <1>0, ZeroIsThere, Zenon DEF ChanRecord
  <2>2. chan' = [chan EXCEPT ![i] = y] /\ watching' = watching \ ({i} \X {chan[i].control})
    BY <1>3, Zenon DEF LoaderFails
  <2> HIDE DEF y
  <2>3. watching' = (watching \ ({i} \X {chan[i].control})) \cup ({i} \X ({0} \ {0}))
    BY <2>2, Zenon
  <2>4. watching' \subseteq Instances \X Engines /\ RecipientFollowsControl'
    BY <1>0, <2>1, <2>2, <2>3, ZeroIsThere, RecipientMoves, Zenon DEF CInv
  <2>5. op' = [op EXCEPT ![i] = IdleOp] /\ IdleOp.pc = "free" /\ IdleOp \in OpRecord
    BY <1>3, ZeroIsThere, Zenon DEF LoaderFails, Release, IdleOp
  <2>6. EngineTypes'
    BY <1>0, <1>3, Zenon DEF LoaderFails, engineVars, Types, EngineTypes
  <2> QED
    BY <1>0, <1>1, <2>1, <2>2, <2>4, <2>5, <2>6, HolderBinds, Zenon
<1> QED
  BY <1>2, <1>3, Zenon

\* The channel stores the session, and the RpcClient attaches to it.
LEMMA AttachStep == ASSUME CInv, NEW i \in Instances, OpenStore(i) \/ OpenAttach(i) PROVE CInv'
<1> DEFINE s == op[i].got
<1>0. /\ Types /\ live[i] = 0 /\ op[i] \in OpRecord /\ chan[i] \in ChanRecord
      /\ s \in 0 .. MaxSessions /\ s # 0
  BY Records, Zenon DEF OpenStore, OpenAttach, CInv, Inner, Holding, OpRecord
<1>1. CASE OpenStore(i)
  <2> DEFINE x == [op[i] EXCEPT !.pc = "attach"]
             y == [chan[i] EXCEPT !.session = s]
  <2>1. x \in OpRecord /\ x.pc = "attach" /\ x.got = s
    BY <1>0, Zenon DEF OpRecord, OpPc
  <2>2. y \in ChanRecord /\ y.session = s /\ y.control = chan[i].control
    BY <1>0, Zenon DEF ChanRecord
  <2>3. op' = [op EXCEPT ![i] = x] /\ chan' = [chan EXCEPT ![i] = y]
    BY <1>1, Zenon DEF OpenStore, Goto
  <2> HIDE DEF x, y
  <2>4. UNCHANGED <<live, attached, watching, told, dog, notice, state, active, deaths, engineVars, bounds>>
    BY <1>1, Zenon DEF OpenStore, remoteVars
  <2>5. op' \in [Instances -> OpRecord] /\ chan' \in [Instances -> ChanRecord] /\ Inner'
    BY <1>0, <2>1, <2>2, <2>3, <2>4, OperationGoesOn, Zenon DEF CInv
  <2>6. \A j \in Instances : chan'[j].control = chan[j].control
    BY <1>0, <2>2, <2>3, Zenon DEF Types, ChannelTypes
  <2>7. RecipientFollowsControl'
    BY <2>4, <2>6, RecipientStays, Zenon DEF CInv
  <2>8. Types'
    BY <1>0, <2>4, <2>5, Zenon DEF Types, ThreadTypes, ChannelTypes, SessionTypes, EngineTypes, ClientTypes, engineVars,
                            bounds
  <2> QED
    BY <2>5, <2>7, <2>8, Zenon DEF CInv
<1>2. CASE OpenAttach(i)
  <2>1. /\ op' = [op EXCEPT ![i] = IdleOp] /\ op[i].pc = "attach" /\ chan[i].session = s
        /\ UNCHANGED <<chan, watching, told, dog, notice, state, active, deaths, engineVars, bounds>>
    BY <1>2, Zenon DEF OpenAttach, Release, remoteVars, CInv, Inner, Holding
  <2>2. RecipientFollowsControl'
    BY <2>1, RecipientStays, Zenon DEF CInv
  <2>3. CASE attached[s] = 0
    <3>1. attached' = [attached EXCEPT ![s] = i] /\ live' = [live EXCEPT ![i] = s]
      BY <1>2, <2>3, Zenon DEF OpenAttach
    <3>2. s \in Sessions /\ i \in 0 .. Generations
      BY <1>0, SMT, Z3 DEF Sessions, Instances
    <3>3. /\ op' \in [Instances -> OpRecord] /\ live' \in [Instances -> 0 .. MaxSessions]
          /\ attached' \in [Sessions -> 0 .. Generations]
      BY <1>0, <2>1, <3>1, <3>2, ZeroIsThere, Zenon DEF Types, ThreadTypes, SessionTypes
    <3>4. Types'
      BY <1>0, <2>1, <3>3, Zenon DEF Types, ThreadTypes, ChannelTypes, SessionTypes, EngineTypes, ClientTypes, engineVars,
                              bounds
    <3>5. ASSUME NEW j \in Instances PROVE Holding(j)'
      <4>1. CASE j = i
        <5>1. op'[j].pc = "free" /\ live'[j] = s /\ chan'[j].session = s
          BY <1>0, <2>1, <3>1, <4>1, Zenon DEF Types, ThreadTypes, SessionTypes, IdleOp
        <5> QED
          BY <5>1, Zenon DEF Holding
      <4>2. CASE j # i
        <5>1. op'[j] = op[j] /\ live'[j] = live[j] /\ chan'[j] = chan[j]
          BY <1>0, <2>1, <3>1, <4>2, Zenon DEF Types, ThreadTypes, SessionTypes
        <5> QED
          BY <5>1, Zenon DEF Holding, CInv, Inner
      <4> QED
        BY <4>1, <4>2, Zenon
    <3>6. ASSUME NEW r \in Sessions, attached'[r] # 0 PROVE live'[attached'[r]] = r
      <4>1. CASE r = s
        BY <1>0, <3>1, <3>2, <4>1, Zenon DEF Types, SessionTypes
      <4>2. CASE r # s
        <5>1. attached'[r] = attached[r]
          BY <1>0, <3>1, <4>2, Zenon DEF Types, SessionTypes
        <5>2. attached[r] \in Instances /\ live[attached[r]] = r /\ r # 0
          BY <1>0, <3>6, <5>1, SMT, Z3 DEF CInv, Inner, AttachedUse, Types, SessionTypes, Instances, Sessions
        <5>3. attached[r] # i
          BY <1>0, <5>2, Zenon
        <5> QED
          BY <1>0, <3>1, <5>1, <5>2, <5>3, Zenon DEF Types, SessionTypes
      <4> QED
        BY <4>1, <4>2, Zenon
    <3> QED
      BY <2>2, <3>4, <3>5, <3>6, Zenon DEF CInv, Inner, AttachedUse
  <2>4. CASE attached[s] # 0
    <3>1. UNCHANGED <<attached, live>> /\ IdleOp.pc = "free" /\ served' \in 0 .. MaxSessions
          /\ deaths' \in [Instances -> Nat]
      BY <1>0, <1>2, <2>1, <2>4, Zenon DEF OpenAttach, IdleOp, engineVars, Types, SessionTypes, ClientTypes
    <3> QED
      BY <1>0, <2>1, <3>1, ZeroIsThere, HolderMoves, Zenon DEF engineVars, bounds
  <2> QED
    BY <2>3, <2>4, Zenon
<1> QED
  BY <1>1, <1>2, Zenon

\* CloseSession lets control and session go.
LEMMA UnbindStep == ASSUME CInv, NEW i \in Instances, CloseUnbind(i) PROVE CInv'
<1>0. /\ Types /\ op[i].pc # "free" /\ live[i] = 0
      /\ UNCHANGED <<live, served, attached, told, dog, notice, state, active, clients, troubles, engineVars>>
  BY Zenon DEF CloseUnbind, CInv, Inner, Holding, engineVars, bounds
<1>1. EngineTypes' /\ troubles' \in Nat
  BY <1>0, Zenon DEF engineVars, Types, EngineTypes, ClientTypes
<1>2. /\ \E y \in ChanRecord : y.session = 0 /\ chan' = [chan EXCEPT ![i] = y]
      /\ watching' \subseteq Instances \X Engines /\ RecipientFollowsControl'
  <2>1. 0 \in 0 .. MaxEngines /\ 0 \in 0 .. MaxSessions
    BY ZeroIsThere, Zenon
  <2>2. Rebind(i, 0, 0)
    BY Zenon DEF CloseUnbind
  <2> QED
    BY <2>1, <2>2, RebindEffect, Zenon DEF CInv
<1>3. /\ \E x \in OpRecord : op' = [op EXCEPT ![i] = x] /\ x.pc \in {"tell", "bind", "free"}
      /\ deaths' \in [Instances -> Nat]
  <2>1. CASE op[i].pc = "take" /\ chan[i].control # 0
    <3>1. "tell" \in OpPc /\ deaths' = deaths /\ Goto(i, "tell")
      BY <2>1, Zenon DEF OpPc, CloseUnbind
    <3>2. op[i] \in OpRecord /\ deaths \in [Instances -> Nat]
      BY <1>0, Records, Zenon DEF Types, ClientTypes
    <3>3. [op[i] EXCEPT !.pc = "tell"] \in OpRecord /\ [op[i] EXCEPT !.pc = "tell"].pc = "tell"
      BY <3>1, <3>2, Zenon DEF OpRecord
    <3>4. op' = [op EXCEPT ![i] = [op[i] EXCEPT !.pc = "tell"]]
      BY <3>1, Zenon DEF Goto
    <3> QED
      BY <3>1, <3>2, <3>3, <3>4, Zenon
  <2>2. CASE ~(op[i].pc = "take" /\ chan[i].control # 0)
    <3>1. AfterClose(i)
      BY <2>2, Zenon DEF CloseUnbind
    <3> QED
      BY <1>0, <3>1, AfterCloseEffect, Zenon
  <2> QED
    BY <2>1, <2>2, Zenon
<1> QED
  BY <1>0, <1>1, <1>2, <1>3, HolderBinds, Zenon

\* The remote object of a control dies, and the channel hears of a death.
LEMMA HearStep == ASSUME CInv, NEW i \in Instances, ObjectDies(i) \/ NoticeArrives(i) PROVE CInv'
<1>0. /\ Types /\ chan[i] \in ChanRecord /\ chan[i].session \in 0 .. MaxSessions
      /\ UNCHANGED <<op, live, attached, dog, state, active, deaths, engineVars, bounds>>
  BY Zenon DEF ObjectDies, NoticeArrives, CInv, Types, ChannelTypes, ChanRecord
<1>1. CASE ObjectDies(i)
  <2> DEFINE y == [chan[i] EXCEPT !.dead = TRUE]
  <2>1. y \in ChanRecord /\ y.session = chan[i].session /\ y.control = chan[i].control
    BY <1>0, Zenon DEF ChanRecord
  <2>2. chan' = [chan EXCEPT ![i] = y] /\ UNCHANGED <<watching, notice>> /\ told' \subseteq told \cup watching
    BY <1>1, Zenon DEF ObjectDies
  <2> HIDE DEF y
  <2>3. /\ chan' \in [Instances -> ChanRecord]
        /\ \A j \in Instances : chan'[j].session = chan[j].session /\ chan'[j].control = chan[j].control
    BY <1>0, <2>1, <2>2, Zenon DEF Types, ChannelTypes
  <2>4. Inner' /\ RecipientFollowsControl'
    BY <1>0, <2>2, <2>3, SessionsStay, RecipientStays, Zenon DEF CInv
  <2>5. Types'
    BY <1>0, <2>2, <2>3, Zenon DEF Types, ThreadTypes, ChannelTypes, SessionTypes, EngineTypes, ClientTypes, engineVars,
                            bounds
  <2> QED
    BY <2>4, <2>5, Zenon DEF CInv
<1>2. CASE NoticeArrives(i)
  <2>1. PICK y \in ChanRecord : y.session = chan[i].session /\ chan' = [chan EXCEPT ![i] = y]
    BY <1>0, <1>2, ZeroIsThere, RebindEffect, ZenonT(60) DEF NoticeArrives, CInv
  <2>2. watching' \subseteq Instances \X Engines /\ RecipientFollowsControl'
    BY <1>0, <1>2, ZeroIsThere, RebindEffect, Zenon DEF NoticeArrives, CInv
  <2>3. chan' \in [Instances -> ChanRecord] /\ \A j \in Instances : chan'[j].session = chan[j].session
    BY <1>0, <2>1, Zenon DEF Types, ChannelTypes
  <2>4. told' \subseteq told
    BY <1>2, Zenon DEF NoticeArrives
  <2>5. [NoNotice EXCEPT !.pc = "read", !.session = chan[i].session] \in NoticeRecord
    BY <1>0, ZeroIsThere, Zenon DEF NoNotice, NoticeRecord
  <2>6. notice' \in [Instances -> NoticeRecord]
    BY <1>0, <1>2, <2>5, Zenon DEF NoticeArrives, Types, ThreadTypes
  <2>7. Inner'
    BY <1>0, <2>3, SessionsStay, Zenon DEF CInv
  <2>8. Types'
    BY <1>0, <2>2, <2>3, <2>4, <2>6, Zenon DEF Types, ThreadTypes, ChannelTypes, SessionTypes, EngineTypes, ClientTypes,
                                        engineVars, bounds
  <2> QED
    BY <2>2, <2>7, <2>8, Zenon DEF CInv
<1> QED
  BY <1>1, <1>2, Zenon

\* The RpcClient lets its session go, or does nothing.
LEMMA LetGo ==
    ASSUME CInv, NEW i \in Instances, NEW next \in {"done", "charge", "reopen"},
           StartClose(i, next) \/ UNCHANGED <<op, live, attached>>,
           ClientTypes', dog' \in [Instances -> DogRecord], notice' \in [Instances -> NoticeRecord],
           UNCHANGED <<chan, engineVars, remoteVars>>
    PROVE  CInv'
<1>1. /\ op' \in [Instances -> OpRecord] /\ live' \in [Instances -> 0 .. MaxSessions]
      /\ attached' \in [Sessions -> 0 .. Generations] /\ Inner'
  <2>1. CASE StartClose(i, next)
    BY <2>1, StartCloseEffect, Zenon DEF CInv
  <2>2. CASE UNCHANGED <<op, live, attached>>
    BY <2>2, SessionsStay, Zenon DEF CInv, Types, ThreadTypes, SessionTypes
  <2> QED
    BY <2>1, <2>2, Zenon
<1>2. RecipientFollowsControl'
  BY RecipientStays, Zenon DEF CInv, remoteVars
<1>3. Types'
  BY <1>1, Zenon DEF CInv, Types, ThreadTypes, ChannelTypes, SessionTypes, EngineTypes, engineVars, remoteVars
<1> QED
  BY <1>1, <1>2, <1>3, Zenon DEF CInv

\* The ways to lose a session: a request times out, the session is dropped, the client
\* shuts down or gives up, the watchdog recovers, the engine has died.
LEMMA LetGoStep ==
    ASSUME CInv, NEW i \in Instances,
           \/ RequestTimesOut(i) \/ IdleClose(i) \/ DropSession(i) \/ Shutdown(i) \/ GiveUp(i)
           \/ HealthRecover(i) \/ NoticeCloses(i)
    PROVE  CInv'
<1>1. UNCHANGED <<chan, engineVars, remoteVars>>
  BY Zenon DEF RequestTimesOut, IdleClose, DropSession, Shutdown, GiveUp, HealthRecover, NoticeCloses
<1>2. ClientTypes'
  <2>1. Trouble \/ UNCHANGED bounds
    BY Zenon DEF RequestTimesOut, IdleClose, DropSession, Shutdown, GiveUp, HealthRecover, NoticeCloses
  <2>2. troubles' \in Nat /\ clients' \in Nat
    BY <2>1, TroubleEffect, Zenon DEF bounds, CInv, Types, ClientTypes
  <2>3. Charge(i) \/ UNCHANGED deaths
    BY Zenon DEF RequestTimesOut, IdleClose, DropSession, Shutdown, GiveUp, HealthRecover, NoticeCloses
  <2>4. deaths' \in [Instances -> Nat]
    BY <2>3, ChargeEffect, Zenon DEF CInv, Types, ClientTypes
  <2>5. state' \in [Instances -> {"new", "open", "closed"}] /\ active' \in 0 .. Generations
    BY Zenon DEF RequestTimesOut, IdleClose, DropSession, Shutdown, GiveUp, HealthRecover, NoticeCloses, CInv, Types,
                 ClientTypes
  <2> QED
    BY <2>2, <2>4, <2>5, Zenon DEF ClientTypes
<1>3. IdleDog \in DogRecord /\ NoNotice \in NoticeRecord
  BY ZeroIsThere, Zenon DEF IdleDog, NoNotice, DogRecord, NoticeRecord
<1>4. dog' \in [Instances -> DogRecord]
  BY <1>3, Zenon DEF RequestTimesOut, IdleClose, DropSession, Shutdown, GiveUp, HealthRecover, NoticeCloses, CInv, Types,
               ThreadTypes
<1>5. notice' \in [Instances -> NoticeRecord]
  BY <1>3, Zenon DEF RequestTimesOut, IdleClose, DropSession, Shutdown, GiveUp, HealthRecover, NoticeCloses, CInv, Types,
               ThreadTypes
<1>6. (\E next \in {"done", "charge", "reopen"} : StartClose(i, next)) \/ UNCHANGED <<op, live, attached>>
  BY Zenon DEF RequestTimesOut, IdleClose, DropSession, Shutdown, GiveUp, HealthRecover, NoticeCloses
<1> QED
  BY <1>1, <1>2, <1>4, <1>5, <1>6, LetGo, Zenon

-----------------------------------------------------------------------------
(* The theorems.                                                            *)

\* The initial state satisfies the invariant.
LEMMA InitHolds == Init => CInv
<1> SUFFICES ASSUME Init PROVE CInv
  BY Zenon
<1> USE ZeroIsThere
<1>1. ThreadTypes
  <2>1. IdleDog \in DogRecord /\ NoNotice \in NoticeRecord
    BY Zenon DEF IdleDog, NoNotice, DogRecord, NoticeRecord
  <2> QED
    BY <2>1, Zenon DEF Init, ThreadTypes
<1>2. ChannelTypes
  <2>1. [control |-> 0, dead |-> FALSE, session |-> 0, fatal |-> FALSE] \in ChanRecord
    BY Zenon DEF ChanRecord
  <2> QED
    BY <2>1, Zenon DEF Init, ChannelTypes
<1>3. SessionTypes /\ EngineTypes
  BY ControlAssumption, SMT, Z3 DEF Init, SessionTypes, EngineTypes
<1>4. ClientTypes
  BY ControlAssumption, SMT, Z3 DEF Init, ClientTypes
<1>5. Inner
  BY Zenon DEF Init, Inner, Holding, AttachedUse, IdleOp
<1>6. RecipientFollowsControl
  BY DEF Init, RecipientFollowsControl, Engines
<1> QED
  BY <1>1, <1>2, <1>3, <1>4, <1>5, <1>6, Zenon DEF CInv, Types

\* The records of the channels agree in every state of clients and engine.
THEOREM ChannelsAgree == Spec => []CInv
<1>1. ASSUME CInv, [Next]_vars PROVE CInv'
  <2>1. ASSUME NEW i \in Instances,
               \/ Connect(i) \/ ReplyArrives(i) \/ InvokeSucceeds(i) \/ NeedSession(i)
               \/ RequestTimesOut(i) \/ IdleClose(i) \/ PushFails(i) \/ DropSession(i) \/ Shutdown(i) \/ GiveUp(i)
               \/ Opening(i) \/ Closing(i) \/ Watching(i) \/ ObjectDies(i) \/ Hearing(i)
        PROVE  CInv'
    <3>1. CASE Opening(i)
      BY <1>1, <3>1, BindStep, LoadStep, OperationStep, AttachStep, Zenon DEF Opening
    <3>2. CASE Closing(i)
      BY <1>1, <3>2, OperationStep, UnbindStep, Zenon DEF Closing
    <3>3. CASE Watching(i)
      BY <1>1, <3>3, HealthStep, LetGoStep, Zenon DEF Watching
    <3>4. CASE Hearing(i)
      BY <1>1, <3>4, HearStep, DeathStep, LetGoStep, Zenon DEF Hearing
    <3> QED
      BY <1>1, <2>1, <3>1, <3>2, <3>3, <3>4, ClientStep, OperationStep, LetGoStep, HearStep, Zenon
  <2>2. CASE EngineDies
    BY <1>1, <2>2, DeathStep, Zenon
  <2>3. CASE UNCHANGED vars
    <3>1. Types'
      BY <1>1, <2>3, Zenon DEF vars, CInv, Types, ThreadTypes, ChannelTypes, SessionTypes, EngineTypes, ClientTypes
    <3> QED
      BY <1>1, <2>3, <3>1, Aside, Zenon DEF vars
  <2> QED
    BY <1>1, <2>1, <2>2, <2>3, Zenon DEF Next
<1> QED
  BY <1>1, InitHolds, PTL DEF Spec

\* The calls that InvokeApi and the submit worker have not finished are those of instances.
CallTypes == replied \subseteq Instances /\ unsent \subseteq Instances

\* Replies come to instances, and pushes fail in them.
LEMMA CallsStay == Spec => []CallTypes
<1>1. Init => CallTypes
  BY Zenon DEF Init, CallTypes
<1>2. ASSUME CallTypes, [Next]_vars PROVE CallTypes'
  <2>1. CASE UNCHANGED calls
    BY <1>2, <2>1, Zenon DEF CallTypes, calls
  <2>2. ASSUME NEW i \in Instances, ReplyArrives(i) \/ InvokeSucceeds(i) \/ PushFails(i) \/ DropSession(i)
        PROVE  CallTypes'
    BY <1>2, <2>2, Zenon DEF CallTypes, ReplyArrives, InvokeSucceeds, PushFails, DropSession
  <2>3. ASSUME NEW i \in Instances,
               \/ Connect(i) \/ NeedSession(i) \/ RequestTimesOut(i) \/ IdleClose(i) \/ Shutdown(i) \/ GiveUp(i)
               \/ Closing(i) \/ ObjectDies(i) \/ Hearing(i)
        PROVE  UNCHANGED calls
    BY <2>3, Zenon DEF Connect, NeedSession, RequestTimesOut, IdleClose, Shutdown, GiveUp, Closing, CloseAccess,
                       CloseUnbind, CloseTell, ObjectDies, Hearing, NoticeArrives, NoticeReads, NoticeCloses
  <2>4. ASSUME NEW i \in Instances, Opening(i) \/ Watching(i) PROVE UNCHANGED calls
    BY <2>4, Zenon DEF Opening, OpenBind, LoaderCloses, LoaderLoads, LoaderFails, OpenStillDead, OpenConnect,
                       OpenReceive, OpenRefresh, OpenStore, OpenAttach, Watching, HealthStart, HealthAsk,
                       HealthTimesOut, HealthRecover
  <2>5. EngineDies \/ UNCHANGED vars => UNCHANGED calls
    BY Zenon DEF EngineDies, vars, calls
  <2> QED
    BY <1>2, <2>1, <2>2, <2>3, <2>4, <2>5, Zenon DEF Next
<1> QED
  BY <1>1, <1>2, PTL DEF Spec

\* Every variable has its type.  In particular an incarnation is left whenever the service
\* manager has to start the engine, and a session id that no client
\* remembers whenever a session has to be handed out.
THEOREM TypeCorrect == Spec => []TypeOK
<1>1. CInv /\ CallTypes => TypeOK
  BY Zenon DEF CInv, Types, ThreadTypes, ChannelTypes, SessionTypes, EngineTypes, ClientTypes, CallTypes, TypeOK,
         OpRecord, OpPc, ChanRecord, DogRecord, NoticeRecord
<1> QED
  BY <1>1, ChannelsAgree, CallsStay, PTL

\* RebindControlLocked and its callers keep the death recipient with the control, for
\* any number of clients: no channel is deaf to the death of its engine, and none hears
\* of the death of another.
THEOREM RecipientIsBound == Spec => []RecipientFollowsControl
<1>1. CInv => RecipientFollowsControl
  BY Zenon DEF CInv
<1> QED
  BY <1>1, ChannelsAgree, PTL

\* Whenever lifecycleMutex_ is free, the channel's sessionId_ is the session that the
\* RpcClient uses: the death reports and lost controls that come between the steps of an
\* open do not part them.
THEOREM ChannelKnowsSession == Spec => []SessionIsKnown
<1>1. CInv => SessionIsKnown
  BY Zenon DEF CInv, Inner, Holding, SessionIsKnown
<1> QED
  BY <1>1, ChannelsAgree, PTL

-----------------------------------------------------------------------------
(* The restart budget.                                                      *)

OpenPc == {"bind", "closeOld", "load", "call", "sent", "refresh", "store", "attach"}

\* Whoever is opening a session has restarts left: the access policy is asked first, and
\* nothing is counted before lifecycleMutex_ is free again.
WithinBudget == \A i \in Instances : op[i].pc \in OpenPc => ~EngineDeathLimitReached(i)

\* An open moves on, and touches no other operation.
LEMMA OpeningMoves ==
    ASSUME NEW i \in Instances, Opening(i)
    PROVE  /\ op[i].pc \in OpenPc /\ deaths' = deaths /\ replied' = replied
           /\ \E x : op' = [op EXCEPT ![i] = x]
           /\ op[i].pc = "attach" \/ live' = live
<1>1. CASE OpenBind(i)
  <2>1. op[i].pc = "bind" /\ deaths' = deaths /\ replied' = replied /\ live' = live
    BY <1>1, Zenon DEF OpenBind, calls
  <2>2. \E x : op' = [op EXCEPT ![i] = x]
    BY <1>1, Zenon DEF OpenBind, Goto, Release, RefreshControl
  <2> QED
    BY <2>1, <2>2, Zenon DEF OpenPc
<1>2. CASE LoaderCloses(i) \/ LoaderLoads(i) \/ LoaderFails(i)
  <2>1. op[i].pc \in {"closeOld", "load"} /\ deaths' = deaths /\ replied' = replied /\ live' = live
    BY <1>2, Zenon DEF LoaderCloses, LoaderLoads, LoaderFails, calls
  <2>2. \E x : op' = [op EXCEPT ![i] = x]
    BY <1>2, Zenon DEF LoaderCloses, LoaderLoads, LoaderFails, Goto, Release
  <2> QED
    BY <2>1, <2>2, Zenon DEF OpenPc
<1>3. CASE OpenStillDead(i) \/ OpenConnect(i)
  <2>1. op[i].pc = "call" /\ deaths' = deaths /\ replied' = replied /\ live' = live
    BY <1>3, Zenon DEF OpenStillDead, OpenConnect, calls
  <2>2. \E x : op' = [op EXCEPT ![i] = x]
    <3>1. CASE OpenStillDead(i)
      BY <3>1, Zenon DEF OpenStillDead, Release
    <3>2. CASE OpenConnect(i)
      <4>1. \/ op' = [op EXCEPT ![i] = [@ EXCEPT !.pc = "sent", !.peer = engine]]
            \/ op' = [op EXCEPT ![i] = [@ EXCEPT !.pc = "refresh", !.peer = 0]]
            \/ Release(i)
        BY <3>2, Zenon DEF OpenConnect
      <4> QED
        BY <4>1, Zenon DEF Release
    <3> QED
      BY <1>3, <3>1, <3>2, Zenon
  <2> QED
    BY <2>1, <2>2, Zenon DEF OpenPc
<1>4. CASE OpenReceive(i) \/ OpenRefresh(i) \/ OpenStore(i)
  <2>1. op[i].pc \in {"sent", "refresh", "store"} /\ deaths' = deaths /\ replied' = replied /\ live' = live
    BY <1>4, Zenon DEF OpenReceive, OpenRefresh, OpenStore, calls
  <2>2. \E x : op' = [op EXCEPT ![i] = x]
    BY <1>4, Zenon DEF OpenReceive, OpenRefresh, OpenStore, RefreshControl, Goto, Release
  <2> QED
    BY <2>1, <2>2, Zenon DEF OpenPc
<1>5. CASE OpenAttach(i)
  BY <1>5, Zenon DEF OpenAttach, Release, calls, OpenPc
<1> QED
  BY <1>1, <1>2, <1>3, <1>4, <1>5, Zenon DEF Opening

\* A close moves on, and opens again or counts a restart at its end, not both.
LEMMA ClosingMoves ==
    ASSUME Types, NEW i \in Instances, Closing(i)
    PROVE  /\ replied' = replied /\ live' = live
           /\ \E x : op' = [op EXCEPT ![i] = x] /\ (x.pc \in OpenPc => Allowed(i) /\ deaths' = deaths)
           /\ deaths' = deaths \/ Charge(i)
<1>0. ASSUME NEW p \in {"take", "unbind", "tell"}, Goto(i, p), deaths' = deaths
      PROVE  \E x : op' = [op EXCEPT ![i] = x] /\ (x.pc \in OpenPc => Allowed(i) /\ deaths' = deaths)
  <2>1. [op[i] EXCEPT !.pc = p].pc \notin OpenPc
    BY <1>0, Records, Zenon DEF OpenPc, OpPc
  <2> QED
    BY <1>0, <2>1, Zenon DEF Goto
<1>1. ASSUME AfterClose(i)
      PROVE  /\ \E x : op' = [op EXCEPT ![i] = x] /\ (x.pc \in OpenPc => Allowed(i) /\ deaths' = deaths)
             /\ deaths' = deaths \/ Charge(i)
  <2>1. IdleOp.pc \notin OpenPc
    BY Records, Zenon DEF OpenPc
  <2>2. CASE op[i].next = "reopen"
    <3>1. deaths' = deaths
      BY <1>1, <2>2, Zenon DEF AfterClose
    <3>2. TryOpen(i)
      BY <1>1, <2>2, Zenon DEF AfterClose
    <3> QED
      BY <2>1, <3>1, <3>2, Zenon DEF TryOpen
  <2>3. CASE op[i].next # "reopen"
    BY <1>1, <2>1, <2>3, Zenon DEF AfterClose, Release
  <2> QED
    BY <2>2, <2>3, Zenon
<1>2. CASE CloseAccess(i)
  <2>1. replied' = replied /\ live' = live /\ deaths' = deaths
    BY <1>2, Zenon DEF CloseAccess, calls
  <2> QED
    BY <1>0, <1>2, <2>1, Zenon DEF CloseAccess
<1>3. CASE CloseUnbind(i)
  <2>1. replied' = replied /\ live' = live
    BY <1>3, Zenon DEF CloseUnbind, calls
  <2> QED
    BY <1>0, <1>1, <1>3, <2>1, Zenon DEF CloseUnbind
<1>4. CASE CloseTell(i)
  BY <1>1, <1>4, Zenon DEF CloseTell, calls
<1> QED
  BY <1>2, <1>3, <1>4, Zenon DEF Closing

\* What a step does to the budget and to the session of an instance: an open goes on or is
\* begun with restarts left, and a spent budget is given back by a reply only.
Thrifty(i) ==
    /\ op'[i].pc \in OpenPc => (op[i].pc \in OpenPc \/ ~EngineDeathLimitReached(i)) /\ deaths'[i] \in {deaths[i], 0}
    /\ EngineDeathLimitReached(i) /\ i \notin replied => deaths'[i] = deaths[i]
    /\ live[i] = 0 /\ op[i].pc # "attach" => live'[i] = 0
    /\ live[i] = 0 /\ i \notin replied => i \notin replied'

\* A step that leaves all that alone.
LEMMA ThriftyAside ==
    ASSUME UNCHANGED <<op, deaths, live>>, NEW i \in Instances, live[i] # 0 \/ i \in replied \/ i \notin replied'
    PROVE  Thrifty(i)
BY Zenon DEF Thrifty

\* A step of one operation, seen from every instance.
LEMMA ThriftyMove ==
    ASSUME Types, NEW i \in Instances, NEW j \in Instances, NEW x, op' = [op EXCEPT ![i] = x],
           x.pc \in OpenPc => (op[i].pc \in OpenPc \/ Allowed(i)) /\ deaths' = deaths,
           deaths' = deaths \/ Charge(i),
           live' = live \/ live' = [live EXCEPT ![i] = 0] \/ (op[i].pc = "attach" /\ \E s : live' = [live EXCEPT ![i] = s]),
           replied' = replied
    PROVE  Thrifty(j)
<1>1. op \in [Instances -> OpRecord] /\ live \in [Instances -> 0 .. MaxSessions]
  BY Zenon DEF Types, ThreadTypes, SessionTypes
<1>2. EngineDeathLimitReached(j) => deaths'[j] = deaths[j]
  BY ChargeEffect, Zenon
<1>3. op[j].pc # "attach" /\ live[j] = 0 => live'[j] = 0
  BY <1>1, Zenon
<1>4. op'[j].pc \in OpenPc => (op[j].pc \in OpenPc \/ ~EngineDeathLimitReached(j)) /\ deaths'[j] = deaths[j]
  <2>1. CASE i = j
    BY <1>1, <2>1, Zenon DEF Allowed
  <2>2. CASE i # j
    <3>1. op'[j] = op[j] /\ deaths'[j] = deaths[j]
      BY <1>1, <2>2, ChargeEffect, Zenon
    <3> QED
      BY <3>1, Zenon
  <2> QED
    BY <2>1, <2>2, Zenon
<1> QED
  BY <1>2, <1>3, <1>4, Zenon DEF Thrifty

\* Every step is thrifty.
LEMMA EveryStepIsThrifty == ASSUME Types, [Next]_vars, NEW j \in Instances PROVE Thrifty(j)
<1>1. ASSUME NEW i \in Instances, StartClose(i, "done") \/ StartClose(i, "charge") \/ StartClose(i, "reopen"),
             deaths' = deaths \/ Charge(i), replied' = replied
      PROVE  Thrifty(j)
  <2>1. \A next : [IdleOp EXCEPT !.pc = "closing", !.next = next].pc \notin OpenPc
    BY Zenon DEF IdleOp, OpenPc
  <2>2. PICK next : StartClose(i, next)
    BY <1>1, Zenon
  <2>3. /\ op' = [op EXCEPT ![i] = [IdleOp EXCEPT !.pc = "closing", !.next = next]]
        /\ live' = [live EXCEPT ![i] = 0]
    BY <2>2, Zenon DEF StartClose
  <2> QED
    BY <1>1, <2>1, <2>3, ThriftyMove, Zenon
<1>2. CASE UNCHANGED <<op, deaths, live, replied>>
  BY <1>2, ThriftyAside, Zenon
<1>3. ASSUME NEW i \in Instances, Opening(i) PROVE Thrifty(j)
  <2>1. PICK x : op' = [op EXCEPT ![i] = x]
    BY <1>3, OpeningMoves, Zenon
  <2>2. op[i].pc \in OpenPc /\ deaths' = deaths /\ replied' = replied
    BY <1>3, OpeningMoves, Zenon
  <2>3. live' = live \/ (op[i].pc = "attach" /\ \E s : live' = [live EXCEPT ![i] = s])
    <3>1. CASE OpenAttach(i)
      BY <3>1, Zenon DEF OpenAttach
    <3>2. CASE ~OpenAttach(i)
      BY <1>3, <3>2, Zenon DEF Opening, OpenBind, LoaderCloses, LoaderLoads, LoaderFails, OpenStillDead, OpenConnect,
                               OpenReceive, OpenRefresh, OpenStore
    <3> QED
      BY <3>1, <3>2, Zenon
  <2> QED
    BY <2>1, <2>2, <2>3, ThriftyMove, Zenon
<1>4. ASSUME NEW i \in Instances, Closing(i) PROVE Thrifty(j)
  <2>1. PICK x : op' = [op EXCEPT ![i] = x] /\ (x.pc \in OpenPc => Allowed(i) /\ deaths' = deaths)
    BY <1>4, ClosingMoves, Zenon
  <2>2. replied' = replied /\ live' = live /\ (deaths' = deaths \/ Charge(i))
    BY <1>4, ClosingMoves, Zenon
  <2> QED
    BY <2>1, <2>2, ThriftyMove, Zenon
<1>5. ASSUME NEW i \in Instances, NeedSession(i) PROVE Thrifty(j)
  <2>1. deaths' = deaths /\ live' = live /\ replied' = replied /\ TryOpen(i)
    BY <1>5, Zenon DEF NeedSession, calls
  <2>2. IdleOp.pc \notin OpenPc
    BY Records, Zenon DEF OpenPc
  <2>3. PICK x : op' = [op EXCEPT ![i] = x] /\ (x.pc \in OpenPc => Allowed(i))
    BY <2>1, <2>2, Zenon DEF TryOpen
  <2> QED
    BY <2>1, <2>3, ThriftyMove, Zenon
<1>6. ASSUME NEW i \in Instances, Connect(i) \/ PushFails(i) \/ Watching(i) \/ ObjectDies(i) \/ Hearing(i) PROVE Thrifty(j)
  <2>1. CASE HealthRecover(i) \/ NoticeCloses(i)
    <3>1. deaths' = deaths /\ replied' = replied
      BY <2>1, Zenon DEF HealthRecover, NoticeCloses, calls
    <3>2. StartClose(i, "charge") \/ StartClose(i, "reopen") \/ UNCHANGED <<op, live>>
      BY <2>1, Zenon DEF HealthRecover, NoticeCloses
    <3> QED
      BY <1>1, <1>2, <3>1, <3>2, Zenon
  <2>2. CASE ~(HealthRecover(i) \/ NoticeCloses(i))
    <3>1. UNCHANGED <<op, deaths, live, replied>>
      BY <1>6, <2>2, Zenon DEF Connect, PushFails, Watching, HealthStart, HealthAsk, HealthTimesOut, ObjectDies, Hearing,
                               NoticeArrives, NoticeReads, calls
    <3> QED
      BY <1>2, <3>1, Zenon
  <2> QED
    BY <2>1, <2>2, Zenon
<1>7. ASSUME NEW i \in Instances, RequestTimesOut(i) PROVE Thrifty(j)
  <2>1. Charge(i) /\ replied' = replied
    BY <1>7, Zenon DEF RequestTimesOut, calls
  <2>2. CASE StartClose(i, "done")
    BY <1>1, <2>1, <2>2, Zenon
  <2>3. CASE UNCHANGED <<op, live>>
    <3>1. op[i].pc = "free" /\ op \in [Instances -> OpRecord]
      BY <1>7, Zenon DEF RequestTimesOut, Types, ThreadTypes
    <3>2. op' = [op EXCEPT ![i] = op[i]] /\ op[i].pc \notin OpenPc
      BY <2>3, <3>1, Zenon DEF OpenPc
    <3> QED
      BY <2>1, <2>3, <3>2, ThriftyMove, Zenon
  <2> QED
    BY <1>7, <2>2, <2>3, Zenon DEF RequestTimesOut
<1>8. ASSUME NEW i \in Instances, IdleClose(i) \/ DropSession(i) \/ Shutdown(i) \/ GiveUp(i) PROVE Thrifty(j)
  <2>1. StartClose(i, "done") /\ deaths' = deaths /\ replied' = replied
    BY <1>8, Zenon DEF IdleClose, DropSession, Shutdown, GiveUp, calls
  <2> QED
    BY <1>1, <2>1, Zenon
<1>9. ASSUME NEW i \in Instances, ReplyArrives(i) PROVE Thrifty(j)
  <2>1. UNCHANGED <<op, deaths, live>> /\ live[i] # 0 /\ replied' = replied \cup {i}
    BY <1>9, Zenon DEF ReplyArrives
  <2> QED
    BY <2>1, ThriftyAside, Zenon
<1>10. ASSUME NEW i \in Instances, InvokeSucceeds(i) PROVE Thrifty(j)
  <2>1. op' = op /\ live' = live /\ i \in replied /\ replied' = replied \ {i} /\ deaths' = [deaths EXCEPT ![i] = 0]
    BY <1>10, Zenon DEF InvokeSucceeds
  <2>2. deaths \in [Instances -> Nat]
    BY Zenon DEF Types, ClientTypes
  <2>3. deaths'[j] \in {deaths[j], 0} /\ (j # i => deaths'[j] = deaths[j])
    BY <2>1, <2>2, Zenon
  <2> QED
    BY <2>1, <2>3, Zenon DEF Thrifty
<1>11. EngineDies \/ UNCHANGED vars => UNCHANGED <<op, deaths, live, replied>>
  BY Zenon DEF EngineDies, vars, calls
<1> QED
  BY <1>2, <1>3, <1>4, <1>5, <1>6, <1>7, <1>8, <1>9, <1>10, <1>11, Zenon DEF Next

\* A spent restart budget is final, for any number of instances and any limit: no open
\* is under way when the limit is reached, none is begun from then on, and the only step
\* that gives the budget back is the return of a call that had its reply before.
THEOREM BudgetIsFinal == Spec => SpentBudgetIsFinal
<1>1. Init => WithinBudget
  <2>1. IdleOp.pc \notin OpenPc
    BY Zenon DEF IdleOp, OpenPc
  <2> QED
    BY <2>1, Zenon DEF Init, WithinBudget
<1>2. ASSUME CInv, WithinBudget, [Next]_vars PROVE WithinBudget'
  <2> SUFFICES ASSUME NEW i \in Instances, op'[i].pc \in OpenPc PROVE ~EngineDeathLimitReached(i)'
    BY Zenon DEF WithinBudget
  <2>1. Thrifty(i)
    BY <1>2, EveryStepIsThrifty, Zenon DEF CInv
  <2>2. ~EngineDeathLimitReached(i) /\ deaths'[i] \in {deaths[i], 0}
    BY <1>2, <2>1, Zenon DEF Thrifty, WithinBudget
  <2> QED
    BY <2>2, ControlAssumption, SMT, Z3 DEF EngineDeathLimitReached
<1>3. ASSUME CInv, WithinBudget, [Next]_vars PROVE [\A i \in Instances : Stopped(i) => Stopped(i)']_vars
  <2> SUFFICES ASSUME NEW i \in Instances, Stopped(i) PROVE Stopped(i)'
    BY Zenon
  <2>1. Thrifty(i) /\ op[i].pc # "attach"
    BY <1>3, EveryStepIsThrifty, Zenon DEF CInv, WithinBudget, Stopped, OpenPc
  <2>2. deaths'[i] = deaths[i] /\ live'[i] = 0 /\ i \notin replied'
    BY <2>1, Zenon DEF Thrifty, Stopped
  <2> QED
    BY <2>2, Zenon DEF Stopped, EngineDeathLimitReached
<1> QED
  BY <1>1, <1>2, <1>3, ChannelsAgree, PTL DEF Spec, SpentBudgetIsFinal
=============================================================================
