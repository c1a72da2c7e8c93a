--------------------------- MODULE RpcServerProofs ---------------------------
(***************************************************************************)
(* What RpcServer guarantees for every workload and any number of executor *)
(* threads: types, the completion count, no missed wakeup or credit, and a *)
(* Stop that unmaps the session after its last use.                        *)
(***************************************************************************)
EXTENDS RpcServer, FiniteSetTheorems, TLAPS

-----------------------------------------------------------------------------
(* What the steps of each thread leave alone.                               *)

\* What the dispatcher thread leaves alone.
LEMMA DispatcherKeeps ==
    Dispatcher => UNCHANGED <<load, running, writerRunning, mapped, broken, respRing, respEvent, respCredit, task,
                              completions, pending, done, writer, pub, stop, cli, crs, pushed, received>>
    BY Zenon DEF Dispatcher, DispatcherFrame, DispatcherOnly, DispatcherLoop, DrainPop, DrainSubmit, DrainReturn,
        HandleBackloggedQueues, SpinForRingActivity, DispatcherPoll, flags, completion, client, execution

\* What an executor thread leaves alone.
LEMMA WorkerKeeps ==
    ASSUME NEW w, Worker(w)
    PROVE UNCHANGED <<load, running, writerRunning, mapped, reqRing, reqEvent, reqCredit, respRing, respCredit, disp,
                      pub, stop, cli, crs, pushed, received>>
    BY Zenon DEF Worker, ExecutorFrame, WorkerTake, WorkerExit, WriteResponse, WriteRefused, AwaitWriteCompletion, flags, client

\* What the response writer leaves alone.
LEMMA WriterKeeps ==
    Writer => UNCHANGED <<load, running, writerRunning, mapped, reqRing, reqEvent, reqCredit, disp, pool, task, tokens,
                          pub, stop, cli, crs, pushed, received>>
    BY Zenon DEF Writer, WriterFrame, WriterOnly, WaitAndPopCompletionItem, WriterBlocks, PushResponse, PushResponseRecheck,
        WaitForResponseCredit, ResponseCreditPoll, WriterSignal, CompleteItem, OnCompletionItemFinished,
        flags, execution, client

\* What PublishEvent leaves alone.
LEMMA PublisherKeeps ==
    Publisher => UNCHANGED <<load, running, writerRunning, mapped, broken, reqRing, reqEvent, reqCredit, respRing,
                             respEvent, respCredit, disp, pool, task, tokens, stop, cli, crs, pushed, received>>
    BY Zenon DEF Publisher, PublishFrame, PublishEvent, PublishEnqueue, PublishReturn, flags, shm, execution, client

Stopper == StopBegins \/ StopSteps \/ StopTimesOut

\* What Stop leaves alone.
LEMMA StopperKeeps ==
    Stopper => UNCHANGED <<load, reqRing, reqCredit, respRing, disp, task, tokens, pub, cli, crs, pushed, received>>
    BY Zenon DEF Stopper, StopFrame, StopBegins, StopSteps, StopTimesOut, StopBreaksSession, StopWriterFlag, StopSignalsCredit,
        StopNotifiesWriter, StopJoinsWriter, FailPendingCompletionItems, StopWakesDispatcher, OnlySessionBroken,
        StopJoinsDispatcher, StopExecutor, StopJoinsExecutor, StopResetsSession, shm, client

\* What the client's submit worker leaves alone.
LEMMA SubmitterKeeps ==
    Submitter => UNCHANGED <<load, running, writerRunning, mapped, broken, respRing, respEvent, respCredit, disp, pool, task,
                             tokens, completions, pending, done, writer, pub, stop, crs, received>>
    BY Zenon DEF Submitter, SubmitFrame, ClientFrame, SubmitTakes, PushRequest, PushRequestRecheck, SignalRequest,
        WaitForRequestCredit, flags, execution, completion

\* What the client's response worker leaves alone.
LEMMA ReceiverKeeps ==
    Receiver => UNCHANGED <<load, running, writerRunning, mapped, broken, reqRing, reqEvent, reqCredit, disp, pool, task,
                            tokens, completions, pending, done, writer, pub, stop, cli, pushed>>
    BY Zenon DEF Receiver, ResponseFrame, ClientFrame, CountResponses, PopResponse, SignalResponseCredit, WaitForResponseSignal,
        flags, execution, completion

\* Every step is of one of the threads.
LEMMA StepIsOfAThread ==
    ASSUME [Next]_vars
    PROVE \/ Dispatcher \/ (\E w \in Workers : Worker(w)) \/ Writer \/ Publisher \/ Stopper \/ Submitter \/ Receiver
          \/ UNCHANGED vars
    BY Zenon DEF Next, Server, Stopper

-----------------------------------------------------------------------------
(* Types, by the thread that mostly writes the variables.  A thread that is *)
(* busy has something in hand.                                              *)

FlagTypes ==
    /\ running \in BOOLEAN /\ writerRunning \in BOOLEAN /\ mapped \in BOOLEAN /\ broken \in BOOLEAN
    /\ reqEvent \in [Kinds -> BOOLEAN] /\ reqCredit \in BOOLEAN
    /\ respEvent \in BOOLEAN /\ respCredit \in BOOLEAN

RingTypes == reqRing \in [Kinds -> Seq(Requests)] /\ respRing \in Seq(Items)

DispatcherStates ==
    [pc : {"loop", "drain", "popped", "drained", "backlog", "spin", "poll", "exit"},
     kind : Kinds, from : {"loop", "poll"}, req : Requests \cup {NoItem},
     freed : BOOLEAN, drained : BOOLEAN, high : BOOLEAN, ready : SUBSET Kinds]

DispatcherTypes ==
    /\ disp \in DispatcherStates
    /\ disp.pc = "popped" => disp.req \in Requests

Busy(w) == task[w].pc \in {"run", "await", "refused"}

ExecutorTypes ==
    /\ pool \in [Kinds -> [open : BOOLEAN, queue : Seq(Requests)]]
    /\ task \in [Workers -> [pc : {"idle", "run", "await", "refused", "exit"},
                             req : Requests \cup {NoItem}]]
    /\ \A w \in Workers : Busy(w) => task[w].req \in Requests

CompletionTypes ==
    /\ completions \in Seq(Items) /\ pending \in Nat
    /\ done \in [Items -> {"none", "Ok", "PeerDisconnected", "QueueFull"}]
    /\ writer \in [pc : {"test", "blocking", "blocked", "push", "pushed", "credit", "creditPoll",
                         "finish", "complete", "account", "exit"},
                   item : Items \cup {NoItem}, status : {"Ok", "PeerDisconnected", "QueueFull"}]
    /\ WriterHolds => writer.item \in Items

CallerTypes ==
    /\ load \in Workloads
    /\ pub \in [pc : {"idle", "enqueue", "await"}, count : 0 .. load.events]
    /\ stop \in {"idle", "break", "flag", "credit", "notify", "joinWriter", "failPending",
                 "wakeDispatcher", "joinDispatcher", "stopHigh", "joinHigh", "stopNormal",
                 "joinNormal", "waitTasks", "done", "exited"}

ClientTypes ==
    /\ cli \in [pc : {"idle", "push", "pushed", "signal", "wait", "gone"}, req : Requests \cup {NoItem}]
    /\ cli.pc \in {"push", "pushed", "signal", "wait"} => cli.req \in Requests
    /\ crs \in [pc : {"count", "pop", "popped", "poll"}, full : BOOLEAN]
    /\ pushed \subseteq Requests /\ IsFiniteSet(pushed) /\ received \subseteq Items

Queued(k) == Len(pool[k].queue)
BusyWorkers == {w \in Workers : Busy(w)}

\* A token is a task in the queue of an executor, or one that a thread runs.
TokensAreTasks ==
    /\ IsFiniteSet(BusyWorkers)
    /\ tokens = Queued("High") + Queued("Normal") + Cardinality(BusyWorkers)

\* The inductive invariant of the types.
Types ==
    /\ FlagTypes /\ RingTypes /\ DispatcherTypes /\ ExecutorTypes /\ CompletionTypes
    /\ CallerTypes /\ ClientTypes /\ TokensAreTasks

\* The initial state has its types.
LEMMA InitTypes == Init => Types
<1> SUFFICES ASSUME Init PROVE Types
    BY Zenon
<1>0. FlagTypes
    BY Zenon DEF Init, FlagTypes
<1>1. RingTypes
    BY DEF Init, RingTypes
<1>2. DispatcherTypes
    BY Zenon DEF Init, DispatcherTypes, DispatcherStates, DispatcherTop, Kinds
<1>3. ExecutorTypes
    BY DEF Init, ExecutorTypes, Busy
<1>4. CompletionTypes
    BY DEF Init, CompletionTypes, WriterHolds
<1>5. CallerTypes
  <2>1. load \in Workloads /\ load.events \in Nat
    BY WorkloadsAssumption, Zenon DEF Init
  <2> QED
    BY <2>1 DEF Init, CallerTypes
<1>6. ClientTypes
    BY FS_EmptySet, Zenon DEF Init, ClientTypes
<1>7. TokensAreTasks
  <2>1. BusyWorkers = {}
    BY Zenon DEF Init, Busy, BusyWorkers
  <2>2. tokens = 0 /\ Queued("High") = 0 /\ Queued("Normal") = 0
    BY Zenon DEF Init, Kinds, Queued
  <2> QED
    BY <2>1, <2>2, FS_EmptySet, SMT, Z3 DEF TokensAreTasks
<1> QED
    BY <1>0, <1>1, <1>2, <1>3, <1>4, <1>5, <1>6, <1>7, Zenon DEF Types

\* The token count is a sum of numbers, and a thread that runs a task holds a token.
LEMMA TokensCount ==
    ASSUME ExecutorTypes, TokensAreTasks
    PROVE /\ Queued("High") \in Nat /\ Queued("Normal") \in Nat /\ Cardinality(BusyWorkers) \in Nat
          /\ tokens \in Nat
          /\ \A w \in Workers : Busy(w) => tokens > 0
<1>1. Queued("High") \in Nat /\ Queued("Normal") \in Nat
    BY DEF ExecutorTypes, Kinds, Queued
<1>2. Cardinality(BusyWorkers) \in Nat
    BY FS_CardinalityType, Zenon DEF TokensAreTasks
<1>3. tokens \in Nat
    BY <1>1, <1>2 DEF TokensAreTasks
<1>4. ASSUME NEW w \in Workers, Busy(w) PROVE tokens > 0
  <2>1. BusyWorkers # {}
    BY <1>4, Zenon DEF BusyWorkers
  <2>2. Cardinality(BusyWorkers) # 0
    BY <2>1, FS_EmptySet, Zenon DEF TokensAreTasks
  <2> QED
    BY <1>1, <1>2, <2>2, SMTT(60), Z3T(60) DEF TokensAreTasks
<1> QED
    BY <1>1, <1>2, <1>3, <1>4, Zenon

\* The types by thread are TypeOK.
LEMMA TypesAreRight == Types => TypeOK
<1> SUFFICES ASSUME Types PROVE TypeOK
    BY Zenon
<1>1. tokens \in Nat
    BY TokensCount, Zenon DEF Types
<1> QED
    BY <1>1, Zenon DEF Types, TypeOK, FlagTypes, RingTypes, DispatcherTypes, DispatcherStates,
        ExecutorTypes, CompletionTypes, CallerTypes, ClientTypes

\* Flags and events stay Boolean.
LEMMA FlagStep ==
    ASSUME Types, [Next]_vars
    PROVE FlagTypes'
<1> USE DEF FlagTypes, flags, shm, MarkSessionBroken, OnlySessionBroken
<1>1. CASE Dispatcher
    BY <1>1, DispatcherKeeps, ZenonT(60) DEF Types, Dispatcher, DispatcherFrame, DispatcherOnly, DispatcherLoop, DrainPop, DrainSubmit,
        DrainReturn, HandleBackloggedQueues, SpinForRingActivity, DispatcherPoll, DispatcherTypes, DispatcherStates
<1>2. CASE \E w \in Workers : Worker(w)
  <2>1. PICK w \in Workers : Worker(w)
    BY <1>2, Zenon
  <2> QED
    BY <2>1, WorkerKeeps, ZenonT(60) DEF Types, Worker, WorkerTake, WorkerExit, WriteResponse, WriteRefused, AwaitWriteCompletion
<1>3. CASE Writer
    BY <1>3, WriterKeeps, ZenonT(200) DEF Types, Writer, WriterOnly, WaitAndPopCompletionItem, WriterBlocks, PushResponse,
        PushResponseRecheck, WaitForResponseCredit, ResponseCreditPoll, WriterSignal, CompleteItem, OnCompletionItemFinished
<1>4. CASE Stopper
    BY <1>4, ZenonT(60) DEF Stopper, Types, StopBegins, StopSteps, StopTimesOut, StopBreaksSession, StopWriterFlag, StopSignalsCredit,
        StopNotifiesWriter, StopJoinsWriter, FailPendingCompletionItems, StopWakesDispatcher,
        StopJoinsDispatcher, StopExecutor, StopJoinsExecutor, StopResetsSession
<1>5. CASE Submitter
    BY <1>5, SubmitterKeeps, ZenonT(60) DEF Types, Submitter, SubmitFrame, SubmitTakes, PushRequest, PushRequestRecheck, SignalRequest,
        WaitForRequestCredit
<1>6. CASE Receiver
    BY <1>6, ReceiverKeeps, ZenonT(60) DEF Types, Receiver, CountResponses, PopResponse, SignalResponseCredit,
        WaitForResponseSignal, ClientTypes
<1>7. CASE Publisher \/ UNCHANGED vars
    BY <1>7, PublisherKeeps, Zenon DEF Types, vars
<1> QED
    BY <1>1, <1>2, <1>3, <1>4, <1>5, <1>6, <1>7, StepIsOfAThread, Zenon

\* The rings hold requests and responses.
LEMMA RingStep ==
    ASSUME Types, [Next]_vars
    PROVE RingTypes'
<1> USE DEF RingTypes
<1>1. CASE Dispatcher
  <2>1. CASE DrainPop
    <3> DEFINE k == disp.kind
    <3>1. /\ k \in Kinds /\ respRing' = respRing
          /\ reqRing' = reqRing \/ (reqRing[k] # <<>> /\ reqRing' = [reqRing EXCEPT ![k] = Tail(@)])
        BY <2>1, Zenon DEF DrainPop, DispatcherFrame, Types, DispatcherTypes, DispatcherStates
    <3> HIDE DEF k
    <3>2. reqRing[k] \in Seq(Requests) /\ reqRing \in [Kinds -> Seq(Requests)] /\ respRing \in Seq(Items)
        BY <3>1, Zenon DEF Types
    <3>3. reqRing[k] # <<>> => Tail(reqRing[k]) \in Seq(Requests)
        BY <3>2
    <3> QED
        BY <3>1, <3>2, <3>3, Zenon
  <2> QED
    BY <1>1, <2>1, DispatcherKeeps, Zenon DEF Types, Dispatcher, DispatcherOnly, DispatcherLoop, DrainSubmit,
        DrainReturn, HandleBackloggedQueues, SpinForRingActivity, DispatcherPoll
<1>2. CASE Writer
  <2>1. CASE PushResponse
    <3> DEFINE i == writer.item
    <3>1. i \in Items /\ reqRing' = reqRing /\ (respRing' = respRing \/ respRing' = Append(respRing, i))
        BY <2>1, Zenon DEF PushResponse, WriterFrame, Types, CompletionTypes, WriterHolds
    <3> HIDE DEF i
    <3> QED
        BY <3>1, SMT, Z3 DEF Types
  <2> QED
    BY <1>2, <2>1, WriterKeeps, Zenon DEF Types, Writer, WriterOnly, WaitAndPopCompletionItem, WriterBlocks,
        PushResponseRecheck, WaitForResponseCredit, ResponseCreditPoll, WriterSignal, CompleteItem, OnCompletionItemFinished
<1>3. CASE Submitter
  <2>1. CASE PushRequest
    <3> DEFINE k == KindOf(cli.req)
               r == cli.req
    <3>1. k \in Kinds /\ r \in Requests /\ respRing' = respRing
        BY <2>1, Zenon DEF PushRequest, SubmitFrame, ClientFrame, Types, ClientTypes, KindOf, Kinds
    <3>2. reqRing' = reqRing \/ reqRing' = [reqRing EXCEPT ![k] = Append(@, r)]
        BY <2>1, Zenon DEF PushRequest
    <3> HIDE DEF k, r
    <3>3. reqRing[k] \in Seq(Requests) /\ reqRing \in [Kinds -> Seq(Requests)] /\ respRing \in Seq(Items)
        BY <3>1, Zenon DEF Types
    <3>4. Append(reqRing[k], r) \in Seq(Requests)
        BY <3>1, <3>3
    <3> QED
        BY <3>1, <3>2, <3>3, <3>4, ZenonT(60)
  <2> QED
    BY <1>3, <2>1, SubmitterKeeps, Zenon DEF Types, Submitter, SubmitTakes, PushRequestRecheck, SignalRequest, WaitForRequestCredit
<1>4. CASE Receiver
  <2>1. respRing' = respRing \/ (respRing # <<>> /\ respRing' = Tail(respRing))
    BY <1>4, Zenon DEF Receiver, CountResponses, PopResponse, SignalResponseCredit, WaitForResponseSignal
  <2>2. respRing \in Seq(Items) /\ reqRing \in [Kinds -> Seq(Requests)] /\ reqRing' = reqRing
    BY <1>4, ReceiverKeeps, Zenon DEF Types
  <2>3. respRing # <<>> => Tail(respRing) \in Seq(Items)
    BY <2>2, SMT, Z3
  <2> QED
    BY <2>1, <2>2, <2>3, Zenon
<1>5. CASE (\E w \in Workers : Worker(w)) \/ Publisher \/ Stopper \/ UNCHANGED vars
    BY <1>5, WorkerKeeps, PublisherKeeps, StopperKeeps, Zenon DEF Types, vars, shm
<1> QED
    BY <1>1, <1>2, <1>3, <1>4, <1>5, StepIsOfAThread, Zenon

\* The dispatcher at the top of its loop, and with a backlog.
LEMMA TopState ==
    /\ DispatcherTop \in DispatcherStates /\ DispatcherTop.pc = "loop"
    /\ \A b \in BOOLEAN : /\ [DispatcherTop EXCEPT !.pc = "backlog", !.high = b] \in DispatcherStates
                          /\ [DispatcherTop EXCEPT !.pc = "backlog", !.high = b].pc = "backlog"
    BY Zenon DEF DispatcherTop, DispatcherStates, Kinds

\* The dispatcher that begins to drain a ring.
LEMMA DrainState ==
    ASSUME NEW d \in DispatcherStates, NEW k \in Kinds, NEW from \in {"loop", "poll"}
    PROVE Drain(d, k, from) \in DispatcherStates /\ Drain(d, k, from).pc = "drain"
    BY Zenon DEF DispatcherStates, Drain

\* The dispatcher goes to sleep only after SpinForRingActivity has found both rings empty.
LEMMA DispatcherStep ==
    ASSUME Types, [Next]_vars
    PROVE DispatcherTypes' /\ (Dispatcher /\ disp'.pc = "poll" => SpinForRingActivity)
<1> USE DEF DispatcherTypes, DispatcherGoto
<1>1. CASE DispatcherLoop \/ HandleBackloggedQueues \/ SpinForRingActivity
  <2>1. disp \in DispatcherStates
    BY Zenon DEF Types
  <2>2. \/ disp' = Drain(disp, "High", "loop") \/ disp' = DispatcherTop
        \/ disp' = [disp EXCEPT !.pc = "exit"] \/ disp' = [disp EXCEPT !.pc = "spin"]
        \/ SpinForRingActivity /\ disp' = [disp EXCEPT !.pc = "poll"]
    BY <1>1, Zenon DEF DispatcherLoop, HandleBackloggedQueues, SpinForRingActivity
  <2>3. CASE disp' = Drain(disp, "High", "loop")
    BY <2>1, <2>3, DrainState, Zenon DEF Kinds
  <2>4. CASE disp' = DispatcherTop
    BY <2>4, TopState, Zenon
  <2>5. CASE disp' = [disp EXCEPT !.pc = "exit"] \/ disp' = [disp EXCEPT !.pc = "spin"]
    BY <2>1, <2>5, Zenon DEF DispatcherStates
  <2>6. CASE SpinForRingActivity /\ disp' = [disp EXCEPT !.pc = "poll"]
    BY <2>1, <2>6, Zenon DEF DispatcherStates
  <2> QED
    BY <2>2, <2>3, <2>4, <2>5, <2>6, Zenon
<1>2. CASE DrainPop
  <2>1. reqRing[disp.kind] # <<>> => Head(reqRing[disp.kind]) \in Requests
    BY DEF Types, RingTypes, DispatcherStates
  <2> QED
    BY <1>2, <2>1, ZenonT(60) DEF DrainPop, Types, DispatcherStates
<1>3. CASE DrainSubmit
    BY <1>3, Zenon DEF DrainSubmit, Types, DispatcherStates
<1>4. CASE DrainReturn
  <2> DEFINE d == IF disp.kind = "High" THEN [disp EXCEPT !.high = disp.drained] ELSE disp
  <2>1. d \in DispatcherStates /\ d.high \in BOOLEAN
    BY Zenon DEF Types, DispatcherStates
  <2>2. \/ disp' = Drain(d, "Normal", "loop") \/ disp' = [DispatcherTop EXCEPT !.pc = "backlog", !.high = d.high]
        \/ disp' = Drain(d, "Normal", "poll") \/ disp' = DispatcherTop
    BY <1>4, Zenon DEF DrainReturn
  <2> HIDE DEF d
  <2>3. CASE disp' = Drain(d, "Normal", "loop") \/ disp' = Drain(d, "Normal", "poll")
    BY <2>1, <2>3, DrainState, Zenon DEF Kinds
  <2>4. CASE disp' = [DispatcherTop EXCEPT !.pc = "backlog", !.high = d.high]
    BY <2>1, <2>4, TopState, ZenonT(60) DEF DispatcherStates
  <2>5. CASE disp' = DispatcherTop
    BY <2>5, TopState, Zenon
  <2> QED
    BY <2>2, <2>3, <2>4, <2>5, Zenon
<1>5. CASE DispatcherPoll
  <2> DEFINE d == [disp EXCEPT !.ready = {k \in Kinds : reqEvent[k]}]
  <2>1. d \in DispatcherStates
    BY Zenon DEF Types, DispatcherStates
  <2>2. disp' = Drain(d, "High", "poll") \/ disp' = Drain(d, "Normal", "poll") \/ disp' = DispatcherTop
    BY <1>5, Zenon DEF DispatcherPoll
  <2> HIDE DEF d
  <2>3. CASE disp' = Drain(d, "High", "poll") \/ disp' = Drain(d, "Normal", "poll")
    BY <2>1, <2>3, DrainState, Zenon DEF Kinds
  <2>4. CASE disp' = DispatcherTop
    BY <2>4, TopState, Zenon
  <2> QED
    BY <2>2, <2>3, <2>4, Zenon
<1>6. CASE UNCHANGED disp /\ ~Dispatcher
    BY <1>6, Zenon DEF Types
<1> QED
    BY Zenon, <1>1, <1>2, <1>3, <1>4, <1>5, <1>6, StepIsOfAThread, WorkerKeeps, WriterKeeps, PublisherKeeps, StopperKeeps,
       SubmitterKeeps, ReceiverKeeps DEF Dispatcher, vars

\* An executor thread that is busy has a request.
LEMMA ExecutorStep ==
    ASSUME Types, [Next]_vars
    PROVE ExecutorTypes'
<1> DEFINE Pools == [open : BOOLEAN, queue : Seq(Requests)]
           Tasks == [pc : {"idle", "run", "await", "refused", "exit"}, req : Requests \cup {NoItem}]
<1>0. /\ pool \in [Kinds -> Pools] /\ task \in [Workers -> Tasks]
      /\ \A w \in Workers : Busy(w) => task[w].req \in Requests
    BY Zenon DEF Types, ExecutorTypes
<1>1. CASE Dispatcher
  <2>1. CASE DrainSubmit
    <3> DEFINE k == disp.kind
    <3>1. k \in Kinds /\ disp.req \in Requests
        BY <2>1, Zenon DEF DrainSubmit, Types, DispatcherTypes, DispatcherStates
    <3>2. Append(pool[k].queue, disp.req) \in Seq(Requests)
        BY <1>0, <3>1, SMT, Z3
    <3>3. pool' \in [Kinds -> Pools]
        BY <1>0, <2>1, <3>1, <3>2, ZenonT(60) DEF DrainSubmit
    <3> QED
        BY <1>0, <1>1, <3>3, DispatcherKeeps, Zenon DEF ExecutorTypes, Busy
  <2> QED
    BY <1>0, <1>1, <2>1, Zenon DEF Dispatcher, DispatcherOnly, DispatcherLoop, DrainPop, DrainReturn, HandleBackloggedQueues,
        SpinForRingActivity, DispatcherPoll, execution, ExecutorTypes, Busy
<1>2. ASSUME NEW w \in Workers, Worker(w) PROVE ExecutorTypes'
  <2>1. CASE WorkerTake(w)
    <3> DEFINE k == PoolOf(w)
    <3>1. k \in Kinds /\ pool[k].queue \in Seq(Requests) /\ pool[k].queue # <<>>
        BY <1>0, <2>1, Zenon DEF WorkerTake, PoolOf, Kinds
    <3>2. Tail(pool[k].queue) \in Seq(Requests) /\ Head(pool[k].queue) \in Requests
        BY <3>1
    <3>3. pool' \in [Kinds -> Pools]
        BY <1>0, <2>1, <3>1, <3>2, Zenon DEF WorkerTake
    <3>4. task' \in [Workers -> Tasks] /\ (\A v \in Workers : Busy(v) => task[v].req \in Requests)'
        BY <1>0, <2>1, <3>2, Zenon DEF WorkerTake, Busy
    <3> QED
        BY <3>3, <3>4, Zenon DEF ExecutorTypes
  <2>2. CASE WorkerExit(w) \/ WriteResponse(w) \/ WriteRefused(w) \/ AwaitWriteCompletion(w)
    <3>1. task' \in [Workers -> Tasks] /\ (\A v \in Workers : Busy(v) => task[v].req \in Requests)'
      <4>1. \/ \E p \in {"await", "refused"} : task[w].pc = "run" /\ task' = [task EXCEPT ![w].pc = p]
            \/ task' = [task EXCEPT ![w].pc = "exit"]
            \/ task' = [task EXCEPT ![w] = [pc |-> "idle", req |-> NoItem]]
        BY <2>2, Zenon DEF WorkerExit, WriteResponse, WriteRefused, AwaitWriteCompletion, TaskEnds
      <4> QED
        BY <1>0, <4>1, SMT, SMTT(30) DEF Busy
    <3>2. pool' = pool
        BY <2>2, Zenon DEF WorkerExit, WriteResponse, WriteRefused, AwaitWriteCompletion
    <3> QED
        BY <1>0, <3>1, <3>2, Zenon DEF ExecutorTypes
  <2> QED
    BY <1>2, <2>1, <2>2, Zenon DEF Worker
<1>3. CASE Stopper
  <2>1. pool' \in [Kinds -> Pools]
    BY <1>0, <1>3, ZenonT(60) DEF Stopper, StopBegins, StopSteps, StopTimesOut, StopBreaksSession, StopWriterFlag, StopSignalsCredit,
        StopNotifiesWriter, StopJoinsWriter, FailPendingCompletionItems, StopWakesDispatcher, StopJoinsDispatcher,
        StopExecutor, StopJoinsExecutor, StopResetsSession
  <2> QED
    BY <1>0, <1>3, <2>1, StopperKeeps, Zenon DEF ExecutorTypes, Busy
<1>4. CASE UNCHANGED <<pool, task>>
    BY <1>0, <1>4, Zenon DEF ExecutorTypes, Busy
<1> QED
    BY <1>1, <1>2, <1>3, <1>4, StepIsOfAThread, WriterKeeps, PublisherKeeps, SubmitterKeeps, ReceiverKeeps, Zenon
    DEF vars, execution

\* The completion queue and the writer hold items.
LEMMA CompletionStep ==
    ASSUME Types, [Next]_vars
    PROVE CompletionTypes'
<1> DEFINE Statuses == {"none", "Ok", "PeerDisconnected", "QueueFull"}
           Writers == [pc : {"test", "blocking", "blocked", "push", "pushed", "credit", "creditPoll",
                             "finish", "complete", "account", "exit"},
                       item : Items \cup {NoItem}, status : {"Ok", "PeerDisconnected", "QueueFull"}]
           Writing == writer \in Writers /\ (WriterHolds => writer.item \in Items)
<1>0. completions \in Seq(Items) /\ pending \in Nat /\ done \in [Items -> Statuses] /\ Writing
    BY Zenon DEF Types, CompletionTypes
<1>1. ASSUME NEW i \in Items, Enqueue(i) PROVE CompletionTypes'
  <2>1. Append(completions, i) \in Seq(Items) /\ pending + 1 \in Nat
    BY <1>0
  <2>2. Writing'
    BY <1>0, <1>1, Zenon DEF Enqueue, NotifyWriter, WriterHolds
  <2> QED
    BY <1>0, <1>1, <2>1, <2>2, Zenon DEF Enqueue, CompletionTypes
<1>2. ASSUME NEW w \in Workers, Worker(w) PROVE CompletionTypes'
  <2>1. CASE Enqueue(task[w].req) /\ task[w].pc = "run"
    BY <1>1, <2>1, Zenon DEF Types, ExecutorTypes, Busy, Items
  <2>2. CASE AwaitWriteCompletion(w)
    BY <1>0, <2>2, Zenon DEF AwaitWriteCompletion, CompletionTypes, WriterHolds
  <2>3. CASE UNCHANGED <<completions, pending, done, writer>>
    BY <1>0, <2>3, Zenon DEF CompletionTypes, WriterHolds
  <2> QED
    BY <1>2, <2>1, <2>2, <2>3, Zenon DEF Worker, WorkerTake, WorkerExit, WriteResponse, WriteRefused, completion
<1>3. CASE Writer
  <2>1. CASE WaitAndPopCompletionItem
    <3>1. completions # <<>> => Head(completions) \in Items /\ Tail(completions) \in Seq(Items)
        BY <1>0
    <3>2. Writing'
        BY <1>0, <2>1, <3>1, Zenon DEF WaitAndPopCompletionItem, WriterGoto, WriterHolds
    <3>3. completions' \in Seq(Items)
        BY <1>0, <2>1, <3>1, Zenon DEF WaitAndPopCompletionItem
    <3> QED
        BY <1>0, <2>1, <3>2, <3>3, Zenon DEF WaitAndPopCompletionItem, CompletionTypes
  <2>2. CASE WriterBlocks \/ PushResponse \/ PushResponseRecheck \/ WaitForResponseCredit \/ ResponseCreditPoll \/ WriterSignal
    <3>1. Writing'
        BY <1>0, <2>2, Zenon DEF WriterBlocks, PushResponse, PushResponseRecheck, WaitForResponseCredit, ResponseCreditPoll,
            WriterSignal, WriterGoto, WriterStatus, WriterHolds
    <3> QED
        BY <1>0, <2>2, <3>1, Zenon DEF WriterBlocks, PushResponse, PushResponseRecheck, WaitForResponseCredit,
            ResponseCreditPoll, WriterSignal, WriterOnly, completion, CompletionTypes
  <2>3. CASE CompleteItem
    <3>1. Writing' /\ done' \in [Items -> Statuses]
        BY <1>0, <2>3, Zenon DEF CompleteItem, WriterGoto, WriterHolds
    <3> QED
        BY <1>0, <2>3, <3>1, Zenon DEF CompleteItem, CompletionTypes
  <2>4. CASE OnCompletionItemFinished
    <3>1. Writing'
        BY <1>0, <2>4, Zenon DEF OnCompletionItemFinished, WriterHolds
    <3>2. pending' \in Nat
        BY <1>0, <2>4, SMT, Z3 DEF OnCompletionItemFinished
    <3> QED
        BY <1>0, <2>4, <3>1, <3>2, Zenon DEF OnCompletionItemFinished, CompletionTypes
  <2> QED
    BY <1>3, <2>1, <2>2, <2>3, <2>4, Zenon DEF Writer
<1>4. CASE Publisher
  <2>1. CASE Enqueue(Event)
    BY <1>1, <2>1, Zenon DEF Items
  <2>2. CASE PublishReturn
    BY <1>0, <2>2, Zenon DEF PublishReturn, CompletionTypes, WriterHolds
  <2>3. CASE UNCHANGED <<completions, pending, done, writer>>
    BY <1>0, <2>3, Zenon DEF CompletionTypes, WriterHolds
  <2> QED
    BY <1>4, <2>1, <2>2, <2>3, Zenon DEF Publisher, PublishEvent, PublishEnqueue, completion
<1>5. CASE Stopper
  <2>1. CASE StopNotifiesWriter
    BY <1>0, <2>1, Zenon DEF StopNotifiesWriter, NotifyWriter, CompletionTypes, WriterHolds, completion
  <2>2. CASE FailPendingCompletionItems
    BY <1>0, <2>2, SMT, Z3 DEF FailPendingCompletionItems, CompletionTypes, WriterHolds
  <2>3. CASE UNCHANGED <<completions, pending, done, writer>>
    BY <1>0, <2>3, Zenon DEF CompletionTypes, WriterHolds
  <2> QED
    BY <1>5, <2>1, <2>2, <2>3, Zenon DEF Stopper, StopBegins, StopSteps, StopTimesOut, StopBreaksSession, StopWriterFlag,
        StopSignalsCredit, StopJoinsWriter, StopWakesDispatcher, StopJoinsDispatcher, StopExecutor, StopJoinsExecutor,
        StopResetsSession, completion
<1>6. CASE UNCHANGED <<completions, pending, done, writer>>
    BY <1>0, <1>6, Zenon DEF CompletionTypes, WriterHolds
<1> QED
    BY <1>2, <1>3, <1>4, <1>5, <1>6, StepIsOfAThread, DispatcherKeeps, SubmitterKeeps, ReceiverKeeps, Zenon DEF vars, completion

\* PublishEvent and Stop stay in their places.
LEMMA CallerStep ==
    ASSUME Types, [Next]_vars
    PROVE CallerTypes'
<1> DEFINE Pubs == [pc : {"idle", "enqueue", "await"}, count : 0 .. load.events]
<1>0. load \in Workloads /\ load.events \in Nat /\ pub \in Pubs
    BY WorkloadsAssumption, Zenon DEF Types, CallerTypes
<1>1. load' = load
    BY Zenon, StepIsOfAThread, DispatcherKeeps, WorkerKeeps, WriterKeeps, PublisherKeeps, StopperKeeps, SubmitterKeeps,
       ReceiverKeeps DEF vars
<1>2. CASE Publisher
  <2>1. pub' \in Pubs
    BY <1>0, <1>2, SMTT(60), Z3T(60) DEF Publisher, PublishEvent, PublishEnqueue, PublishReturn
  <2> QED
    BY <1>0, <1>1, <1>2, <2>1, PublisherKeeps, Zenon DEF Types, CallerTypes
<1>3. CASE Stopper
    BY <1>0, <1>1, <1>3, StopperKeeps, Zenon DEF Types, CallerTypes, Stopper, StopBegins, StopSteps, StopTimesOut, StopBreaksSession,
        StopWriterFlag, StopSignalsCredit, StopNotifiesWriter, StopJoinsWriter, FailPendingCompletionItems,
        StopWakesDispatcher, StopJoinsDispatcher, StopExecutor, StopJoinsExecutor, StopResetsSession, StopFrom
<1>4. CASE UNCHANGED <<pub, stop>>
    BY <1>0, <1>1, <1>4, Zenon DEF Types, CallerTypes
<1> QED
    BY <1>2, <1>3, <1>4, StepIsOfAThread, DispatcherKeeps, WorkerKeeps, WriterKeeps, SubmitterKeeps, ReceiverKeeps, Zenon DEF vars

\* The client's workers that are busy have a request.
LEMMA ClientStep ==
    ASSUME Types, [Next]_vars
    PROVE ClientTypes'
<1>1. CASE Submitter
  <2>1. CASE SubmitTakes
    <3> DEFINE n == Cardinality(pushed)
    <3>1. load.requests \in Seq(Requests)
        BY WorkloadsAssumption, Zenon DEF Types, CallerTypes
    <3>2. n \in Nat
        BY FS_CardinalityType, Zenon DEF Types, ClientTypes
    <3>3. n < Len(load.requests) /\ cli' = [pc |-> "push", req |-> load.requests[n + 1]]
        BY <2>1, Zenon DEF SubmitTakes
    <3> HIDE DEF n
    <3>4. load.requests[n + 1] \in Requests
        BY <3>1, <3>2, <3>3, SMT, Z3
    <3> QED
        BY <1>1, <2>1, <3>3, <3>4, SubmitterKeeps, SMT, Z3 DEF SubmitTakes, Types, ClientTypes
  <2>2. CASE PushRequestRecheck
    <3>1. cli.req \in Requests /\ IsFiniteSet(pushed)
        BY <2>2, Zenon DEF PushRequestRecheck, Types, ClientTypes
    <3>2. IsFiniteSet(pushed \cup {cli.req})
        BY <3>1, FS_AddElement, Zenon
    <3> QED
        BY <1>1, <2>2, <3>1, <3>2, SubmitterKeeps, Zenon DEF PushRequestRecheck, Types, ClientTypes
  <2> QED
    BY <1>1, <2>1, <2>2, SubmitterKeeps, SMTT(60), Z3T(60) DEF Submitter, PushRequest, SignalRequest, WaitForRequestCredit, Types, ClientTypes
<1>2. CASE Receiver
  <2>1. respRing # <<>> => Head(respRing) \in Items
    BY DEF Types, RingTypes
  <2>2. received' \subseteq Items
    BY <1>2, <2>1, Zenon DEF Receiver, CountResponses, PopResponse, SignalResponseCredit, WaitForResponseSignal, Types, ClientTypes
  <2>3. crs' \in [pc : {"count", "pop", "popped", "poll"}, full : BOOLEAN]
    <3>1. CASE CountResponses
        BY <3>1, Zenon DEF CountResponses
    <3>2. CASE crs' = [crs EXCEPT !.pc = "popped"]
        BY <3>2, Zenon DEF Types, ClientTypes
    <3>3. CASE \E p \in {"poll", "count"} : crs' = [pc |-> p, full |-> FALSE]
        BY <3>3
    <3> QED
        BY <1>2, <3>1, <3>2, <3>3, Zenon DEF Receiver, PopResponse, SignalResponseCredit, WaitForResponseSignal
  <2> QED
    BY <1>2, <2>1, <2>2, <2>3, ReceiverKeeps, Zenon DEF Types, ClientTypes
<1>3. CASE UNCHANGED <<cli, crs, pushed, received>>
    BY <1>3, Zenon DEF Types, ClientTypes
<1> QED
    BY <1>1, <1>2, <1>3, StepIsOfAThread, DispatcherKeeps, WorkerKeeps, WriterKeeps, PublisherKeeps, StopperKeeps, Zenon
    DEF vars, client

\* Submitted tasks stay counted: TrySubmit, the take and the end of a task match.
LEMMA TokensStep ==
    ASSUME Types, [Next]_vars
    PROVE TokensAreTasks'
<1>0. /\ IsFiniteSet(BusyWorkers) /\ Cardinality(BusyWorkers) \in Nat
      /\ Queued("High") \in Nat /\ Queued("Normal") \in Nat
      /\ tokens = Queued("High") + Queued("Normal") + Cardinality(BusyWorkers)
    BY TokensCount, Zenon DEF Types, TokensAreTasks
<1>1. CASE Dispatcher
  <2>1. BusyWorkers' = BusyWorkers
    BY <1>1, DispatcherKeeps, Zenon DEF BusyWorkers, Busy
  <2>2. CASE DrainSubmit /\ tokens' = tokens + 1
    <3>1. \/ (Queued("High"))' = Queued("High") + 1 /\ (Queued("Normal"))' = Queued("Normal")
          \/ (Queued("High"))' = Queued("High") /\ (Queued("Normal"))' = Queued("Normal") + 1
        <4> DEFINE k == disp.kind
                   q == pool[k].queue
        <4>1. k \in Kinds /\ pool \in [Kinds -> [open : BOOLEAN, queue : Seq(Requests)]]
            BY Zenon DEF Types, DispatcherTypes, DispatcherStates, ExecutorTypes
        <4>2. pool' = [pool EXCEPT ![k].queue = Append(@, disp.req)]
            BY <2>2, <1>0, SMT, Z3 DEF DrainSubmit
        <4>3. Len(Append(q, disp.req)) = Len(q) + 1
            BY <4>1
        <4>4. pool'[k].queue = Append(q, disp.req) /\ \A j \in Kinds : j # k => pool'[j] = pool[j]
            BY <4>1, <4>2, Zenon
        <4> HIDE DEF q
        <4> QED
            BY <4>1, <4>3, <4>4, Zenon DEF Queued, Kinds, q
    <3> QED
        BY <1>0, <2>1, <2>2, <3>1, SMTT(60), Z3T(60) DEF TokensAreTasks
  <2>3. CASE UNCHANGED <<pool, tokens>>
    BY <1>0, <2>1, <2>3, Zenon DEF TokensAreTasks, Queued
  <2> QED
    BY <1>0, <1>1, <2>2, <2>3, Zenon DEF Dispatcher, DispatcherOnly, DispatcherLoop, DrainPop, DrainSubmit, DrainReturn,
        HandleBackloggedQueues, SpinForRingActivity, DispatcherPoll, execution
<1>2. ASSUME NEW w \in Workers, Worker(w) PROVE TokensAreTasks'
  <2>0. task \in [Workers -> [pc : {"idle", "run", "await", "refused", "exit"}, req : Requests \cup {NoItem}]]
    BY Zenon DEF Types, ExecutorTypes
  <2>1. CASE WorkerTake(w)
    <3>1. BusyWorkers' = BusyWorkers \cup {w} /\ w \notin BusyWorkers
        BY <2>0, <2>1, Zenon DEF WorkerTake, BusyWorkers, Busy
    <3>2. IsFiniteSet(BusyWorkers') /\ Cardinality(BusyWorkers') = Cardinality(BusyWorkers) + 1
        BY <1>0, <3>1, FS_AddElement, Zenon
    <3>3. \/ (Queued("High"))' = Queued("High") - 1 /\ (Queued("Normal"))' = Queued("Normal")
          \/ (Queued("High"))' = Queued("High") /\ (Queued("Normal"))' = Queued("Normal") - 1
        <4> DEFINE k == PoolOf(w)
                   q == pool[k].queue
        <4>1. k \in Kinds /\ pool \in [Kinds -> [open : BOOLEAN, queue : Seq(Requests)]]
            BY Zenon DEF Types, ExecutorTypes, PoolOf, Kinds
        <4>2. q # <<>> /\ pool' = [pool EXCEPT ![k].queue = Tail(@)]
            BY <2>1, Zenon DEF WorkerTake
        <4>3. Len(Tail(q)) = Len(q) - 1
            BY <4>1, <4>2, SMT, Z3
        <4>4. pool'[k].queue = Tail(q) /\ \A j \in Kinds : j # k => pool'[j] = pool[j]
            BY <4>1, <4>2, Zenon
        <4> HIDE DEF q
        <4> QED
            BY <4>1, <4>3, <4>4, Zenon DEF Queued, Kinds, q
    <3>4. tokens' = tokens
        BY <2>1, Zenon DEF WorkerTake
    <3> QED
        BY <1>0, <3>2, <3>3, <3>4, SMT, Z3 DEF TokensAreTasks
  <2>2. CASE WorkerExit(w) \/ WriteResponse(w)
    <3>1. BusyWorkers' = BusyWorkers
        BY <2>0, <2>2, Zenon DEF WorkerExit, WriteResponse, BusyWorkers, Busy
    <3>2. UNCHANGED <<pool, tokens>>
        BY <2>2, Zenon DEF WorkerExit, WriteResponse
    <3> QED
        BY <1>0, <3>1, <3>2, Zenon DEF TokensAreTasks, Queued
  <2>3. CASE WriteRefused(w) \/ AwaitWriteCompletion(w)
    <3>1. BusyWorkers' = BusyWorkers \ {w} /\ w \in BusyWorkers
        BY <2>0, <2>3, SMT, Z3 DEF WriteRefused, AwaitWriteCompletion, TaskEnds, BusyWorkers, Busy
    <3>2. IsFiniteSet(BusyWorkers') /\ Cardinality(BusyWorkers') = Cardinality(BusyWorkers) - 1
        BY <1>0, <3>1, FS_RemoveElement, Zenon
    <3>3. pool' = pool /\ tokens' = tokens - 1
        BY <2>3, Zenon DEF WriteRefused, AwaitWriteCompletion, TaskEnds
    <3>4. (Queued("High"))' = Queued("High") /\ (Queued("Normal"))' = Queued("Normal")
        BY <3>3, Zenon DEF Queued
    <3> QED
        BY <1>0, <3>2, <3>3, <3>4, SMTT(60), Z3T(60) DEF TokensAreTasks
  <2> QED
    BY <1>2, <2>1, <2>2, <2>3, Zenon DEF Worker
<1>3. CASE Stopper
  <2>1. BusyWorkers' = BusyWorkers /\ tokens' = tokens
    BY <1>3, StopperKeeps, Zenon DEF BusyWorkers, Busy
  <2>2. CASE StopExecutor
    <3>1. pool \in [Kinds -> [open : BOOLEAN, queue : Seq(Requests)]]
        BY Zenon DEF Types, ExecutorTypes
    <3>2. \A k \in Kinds : pool'[k].queue = pool[k].queue
      <4>1. PICK j \in Kinds : pool' = [pool EXCEPT ![j].open = FALSE]
        BY <2>2, Zenon DEF StopExecutor, Kinds
      <4> QED
        BY <3>1, <4>1, Zenon
    <3> QED
        BY <1>0, <2>1, <3>2, Zenon DEF TokensAreTasks, Queued, Kinds
  <2>3. CASE UNCHANGED pool
    BY <1>0, <2>1, <2>3, Zenon DEF TokensAreTasks, Queued
  <2> QED
    BY <1>3, <2>2, <2>3, Zenon DEF Stopper, StopBegins, StopSteps, StopTimesOut, StopBreaksSession, StopWriterFlag, StopSignalsCredit,
        StopNotifiesWriter, StopJoinsWriter, FailPendingCompletionItems, StopWakesDispatcher, StopJoinsDispatcher,
        StopJoinsExecutor, StopResetsSession
<1>4. CASE UNCHANGED <<pool, task, tokens>>
    BY <1>0, <1>4, Zenon DEF TokensAreTasks, Queued, BusyWorkers, Busy
<1> QED
    BY <1>1, <1>2, <1>3, <1>4, StepIsOfAThread, WriterKeeps, PublisherKeeps, SubmitterKeeps, ReceiverKeeps, Zenon
    DEF vars, execution

\* Every step preserves the types.
LEMMA StepTypes == Types /\ [Next]_vars => Types'
    BY FlagStep, RingStep, DispatcherStep, ExecutorStep, CompletionStep, CallerStep, ClientStep, TokensStep, Zenon DEF Types

\* Type correctness of the server.  In particular pendingSubmittedTasks and
\* pendingCompletionCount never fall below 0.
THEOREM TypeCorrect == Spec => []TypeOK
    BY InitTypes, StepTypes, TypesAreRight, PTL DEF Spec

-----------------------------------------------------------------------------
(* The order of Stop.                                                       *)

HighJoined == {"stopNormal", "joinNormal", "waitTasks", "done"}
DispatcherJoined == HighJoined \cup {"stopHigh", "joinHigh"}
WriterJoined == DispatcherJoined \cup {"failPending", "wakeDispatcher", "joinDispatcher"}

\* What Stop has behind it at each of its steps stays as it left it.
StopOrder ==
    /\ writer.pc = "exit" => ~writerRunning
    /\ stop \in WriterJoined \cup {"credit", "notify", "joinWriter"} => ~writerRunning
    /\ stop \in WriterJoined => writer.pc = "exit"
    /\ stop \in WriterJoined \ {"failPending"} => completions = <<>>
    /\ stop \in DispatcherJoined => disp.pc = "exit"
    /\ stop \in HighJoined => \A w \in HighWorkers : task[w].pc = "exit"
    /\ stop \in {"waitTasks", "done"} => \A w \in NormalWorkers : task[w].pc = "exit"
    /\ stop = "done" => tokens = 0
    /\ ~mapped => stop = "done"

\* Every step preserves what the places of Stop have joined and emptied.
LEMMA StopOrderStep ==
    ASSUME Types, StopOrder, [Next]_vars
    PROVE StopOrder'
<1> USE DEF StopOrder, WriterJoined, DispatcherJoined, HighJoined
<1>1. CASE Dispatcher
  <2>1. disp.pc # "exit"
    BY <1>1, Zenon DEF Dispatcher, DispatcherLoop, DrainPop, DrainSubmit, DrainReturn, HandleBackloggedQueues,
        SpinForRingActivity, DispatcherPoll
  <2> QED
    BY <1>1, <2>1, DispatcherKeeps, SMT, Z3
<1>2. ASSUME NEW w \in Workers, Worker(w) PROVE StopOrder'
  <2>1. task[w].pc # "exit"
    BY <1>2, Zenon DEF Worker, WorkerTake, WorkerExit, WriteResponse, WriteRefused, AwaitWriteCompletion
  <2>2. stop # "done"
    BY <2>1, Zenon DEF Workers
  <2>3. \A v \in Workers : task[v].pc = "exit" => task'[v].pc = "exit"
    BY <1>2, <2>1, Zenon DEF Worker, WorkerTake, WorkerExit, WriteResponse, WriteRefused, AwaitWriteCompletion, TaskEnds,
        Types, ExecutorTypes
  <2>4. writer'.pc = writer.pc \/ (writer.pc = "blocked" /\ writer'.pc = "test")
    <3>1. UNCHANGED writer \/ NotifyWriter
        BY <1>2, Zenon DEF Worker, WorkerTake, WorkerExit, WriteResponse, WriteRefused, AwaitWriteCompletion, Enqueue
    <3> QED
        BY <3>1, Zenon DEF NotifyWriter, Types, CompletionTypes
  <2>5. UNCHANGED completions \/ writerRunning
    BY <1>2, Zenon DEF Worker, WorkerTake, WorkerExit, WriteResponse, WriteRefused, AwaitWriteCompletion, CanEnqueue, completion
  <2>6. UNCHANGED <<writerRunning, stop, disp, mapped>>
    BY <1>2, WorkerKeeps, Zenon
  <2> QED
    BY <2>2, <2>3, <2>4, <2>5, <2>6, Zenon DEF Workers
<1>3. CASE Writer
  <2>1. writer.pc # "exit"
    BY <1>3, Zenon DEF Writer, WaitAndPopCompletionItem, WriterBlocks, PushResponse, PushResponseRecheck, WaitForResponseCredit,
        ResponseCreditPoll, WriterSignal, CompleteItem, OnCompletionItemFinished
  <2>2. writer'.pc # "exit" \/ ~writerRunning
    <3>1. CASE WaitAndPopCompletionItem
        BY <3>1, Zenon DEF WaitAndPopCompletionItem, WriterGoto, Types, CompletionTypes
    <3>2. CASE WriterBlocks \/ PushResponse \/ PushResponseRecheck \/ WaitForResponseCredit \/ ResponseCreditPoll
               \/ WriterSignal \/ CompleteItem
        BY <3>2, ZenonT(60) DEF WriterBlocks, PushResponse, PushResponseRecheck, WaitForResponseCredit,
            ResponseCreditPoll, WriterSignal, CompleteItem, WriterGoto, WriterStatus, Types, CompletionTypes
    <3>3. CASE OnCompletionItemFinished
        BY <3>3, Zenon DEF OnCompletionItemFinished
    <3> QED
        BY <1>3, <3>1, <3>2, <3>3, Zenon DEF Writer
  <2> QED
    BY <1>3, <2>1, <2>2, WriterKeeps, SMT, Z3
<1>4. CASE Publisher
  <2>1. writer'.pc = writer.pc \/ (writer.pc = "blocked" /\ writer'.pc = "test")
    <3>1. UNCHANGED writer \/ NotifyWriter
        BY <1>4, Zenon DEF Publisher, PublishEvent, PublishEnqueue, PublishReturn, Enqueue
    <3> QED
        BY <3>1, Zenon DEF NotifyWriter, Types, CompletionTypes
  <2>2. UNCHANGED completions \/ writerRunning
    BY <1>4, Zenon DEF Publisher, PublishEvent, PublishEnqueue, PublishReturn, CanEnqueue, completion
  <2> QED
    BY <1>4, <2>1, <2>2, PublisherKeeps, SMT, Z3
<1>5. CASE Stopper
  <2>1. writer'.pc = writer.pc \/ (writer.pc = "blocked" /\ writer'.pc = "test")
    BY <1>5, Zenon DEF Stopper, StopBegins, StopSteps, StopTimesOut, StopBreaksSession, StopWriterFlag, StopSignalsCredit,
        StopNotifiesWriter, StopJoinsWriter, FailPendingCompletionItems, StopWakesDispatcher, StopJoinsDispatcher,
        StopExecutor, StopJoinsExecutor, StopResetsSession, NotifyWriter, Types, CompletionTypes
  <2>2. completions' = completions \/ completions' = <<>>
    BY <1>5, Zenon DEF Stopper, StopBegins, StopSteps, StopTimesOut, StopBreaksSession, StopWriterFlag, StopSignalsCredit,
        StopNotifiesWriter, StopJoinsWriter, FailPendingCompletionItems, StopWakesDispatcher, StopJoinsDispatcher,
        StopExecutor, StopJoinsExecutor, StopResetsSession, completion
  <2>3. CASE StopSteps
    BY <1>5, <2>1, <2>2, <2>3, StopperKeeps, SMT, Z3 DEF StopSteps, StopBreaksSession, StopWriterFlag, StopSignalsCredit,
        StopNotifiesWriter, StopJoinsWriter, FailPendingCompletionItems, StopWakesDispatcher, StopJoinsDispatcher,
        StopExecutor, StopJoinsExecutor, StopResetsSession, StopFrom, flags
  <2>4. CASE StopBegins \/ StopTimesOut
    BY <1>5, <2>1, <2>2, <2>4, StopperKeeps, SMTT(60), Z3T(60) DEF StopBegins, StopTimesOut, StopFrom, flags
  <2> QED
    BY <1>5, <2>3, <2>4, Zenon DEF Stopper
<1>6. CASE UNCHANGED <<writer, writerRunning, stop, completions, disp, task, tokens, mapped>>
    BY <1>6, Zenon
<1> QED
    BY <1>1, <1>2, <1>3, <1>4, <1>5, <1>6, StepIsOfAThread, SubmitterKeeps, ReceiverKeeps, Zenon DEF vars, flags, execution, completion

\* Before Stop there is nothing to be joined.
LEMMA StopOrderInit == Init => StopOrder
    BY DEF Init, StopOrder, WriterJoined, DispatcherJoined, HighJoined

\* When the session is reset, everybody who uses it has ended.
LEMMA ResetIsLast == ASSUME Types, StopOrder PROVE ResetAfterLastUse
<1> SUFFICES ASSUME ~mapped PROVE ResetAfterLastUse
    BY Zenon DEF ResetAfterLastUse
<1>1. stop = "done" /\ tokens = 0
    BY Zenon DEF StopOrder
<1>2. /\ disp.pc = "exit" /\ writer.pc = "exit" /\ completions = <<>>
      /\ \A w \in Workers : task[w].pc = "exit"
    BY <1>1, Zenon DEF StopOrder, WriterJoined, DispatcherJoined, HighJoined, Workers
<1>3. Queued("High") = 0 /\ Queued("Normal") = 0
    BY <1>1, TokensCount, SMT, Z3 DEF Types, TokensAreTasks
<1>4. \A k \in Kinds : pool[k].queue \in Seq(Requests) /\ Len(pool[k].queue) = 0
    BY <1>3, Zenon DEF Types, ExecutorTypes, Queued, Kinds
<1>5. \A k \in Kinds : pool[k].queue = <<>>
    BY <1>4, SMT, Z3
<1> QED
    BY <1>2, <1>5, Zenon DEF ResetAfterLastUse

\* session.Reset() unmaps the memory after its last use, whatever the executors, the
\* writer and PublishEvent were doing when Stop was called.
THEOREM ResetComesLast == Spec => []ResetAfterLastUse
<1>1. Types /\ StopOrder /\ [Next]_vars => StopOrder'
    BY StopOrderStep, Zenon
<1>2. Types /\ StopOrder => ResetAfterLastUse
    BY ResetIsLast, Zenon
<1> QED
    BY <1>1, <1>2, InitTypes, StepTypes, StopOrderInit, PTL DEF Spec

-----------------------------------------------------------------------------
(* The completion count.                                                    *)

Holding == IF WriterHolds THEN 1 ELSE 0

\* Every step preserves the count of the completions.
LEMMA CountStep ==
    ASSUME Types, StopOrder, CompletionsAreCounted, [Next]_vars
    PROVE CompletionsAreCounted'
<1>0. /\ pending = Len(completions) + Holding /\ pending <= load.queue /\ pending \in Nat
      /\ completions \in Seq(Items) /\ Len(completions) \in Nat /\ Holding \in {0, 1} /\ load.queue \in Nat
    BY WorkloadsAssumption, SMTT(60), Z3T(60) DEF CompletionsAreCounted, CompletionQueueCapacity, Holding, Types, CompletionTypes, CallerTypes
<1>1. load' = load
    BY Zenon, StepIsOfAThread, DispatcherKeeps, WorkerKeeps, WriterKeeps, PublisherKeeps, StopperKeeps, SubmitterKeeps,
       ReceiverKeeps DEF vars
<1>2. SUFFICES pending' = Len(completions') + Holding' /\ pending' <= load.queue
    BY <1>1, Zenon DEF CompletionsAreCounted, CompletionQueueCapacity, Holding
<1>3. NotifyWriter => Holding' = Holding
    BY Zenon DEF NotifyWriter, Holding, WriterHolds, Types, CompletionTypes
<1>4. ASSUME NEW i \in Items, CanEnqueue, Enqueue(i)
      PROVE pending' = Len(completions') + Holding' /\ pending' <= load.queue
  <2>1. completions' = Append(completions, i) /\ pending' = pending + 1 /\ pending < load.queue
    BY <1>4, Zenon DEF Enqueue, CanEnqueue, CompletionQueueCapacity
  <2>2. Len(completions') = Len(completions) + 1
    BY <1>0, <2>1, SMT, Z3
  <2>3. Holding' = Holding
    BY <1>3, <1>4, Zenon DEF Enqueue
  <2> QED
    BY <1>0, <2>1, <2>2, <2>3, SMT, Z3
<1>5. CASE UNCHANGED <<completions, pending>> /\ Holding' = Holding
    BY <1>0, <1>5, Zenon
<1>6. ASSUME NEW w \in Workers, Worker(w)
      PROVE pending' = Len(completions') + Holding' /\ pending' <= load.queue
  <2>1. CASE CanEnqueue /\ Enqueue(task[w].req) /\ task[w].pc = "run"
    BY <1>4, <2>1, Zenon DEF Types, ExecutorTypes, Busy, Items
  <2>2. CASE UNCHANGED <<completions, pending, writer>>
    BY <1>5, <2>2, Zenon DEF Holding, WriterHolds
  <2> QED
    BY <1>6, <2>1, <2>2, Zenon DEF Worker, WorkerTake, WorkerExit, WriteResponse, WriteRefused, AwaitWriteCompletion, completion
<1>7. CASE Publisher
  <2>1. CASE CanEnqueue /\ Enqueue(Event)
    BY <1>4, <2>1, Zenon DEF Items
  <2>2. CASE UNCHANGED <<completions, pending, writer>>
    BY <1>5, <2>2, Zenon DEF Holding, WriterHolds
  <2> QED
    BY <1>7, <2>1, <2>2, Zenon DEF Publisher, PublishEvent, PublishEnqueue, PublishReturn, completion
<1>8. CASE Writer
  <2>1. CASE WaitAndPopCompletionItem /\ completions # <<>>
    <3>1. completions' = Tail(completions) /\ pending' = pending
        BY <2>1, Zenon DEF WaitAndPopCompletionItem
    <3>2. Len(completions') = Len(completions) - 1
        BY <1>0, <2>1, <3>1, SMT, Z3
    <3>3. Holding = 0 /\ Holding' = 1
        BY <2>1, Zenon DEF WaitAndPopCompletionItem, Holding, WriterHolds, Types, CompletionTypes
    <3> QED
        BY <1>0, <3>1, <3>2, <3>3, SMT, Z3
  <2>2. CASE OnCompletionItemFinished
    <3>1. completions' = completions /\ pending' = IF pending > 0 THEN pending - 1 ELSE 0
        BY <2>2, Zenon DEF OnCompletionItemFinished
    <3>2. Holding = 1 /\ Holding' = 0
        BY <2>2, Zenon DEF OnCompletionItemFinished, Holding, WriterHolds, Types, CompletionTypes
    <3> QED
        BY <1>0, <3>1, <3>2, SMT, Z3
  <2>3. CASE UNCHANGED <<completions, pending>> /\ ~WaitAndPopCompletionItem /\ ~OnCompletionItemFinished
    <3>1. Holding' = Holding
        BY <1>8, <2>3, Zenon DEF Writer, WriterBlocks, PushResponse, PushResponseRecheck, WaitForResponseCredit,
            ResponseCreditPoll, WriterSignal, CompleteItem, WriterGoto, WriterStatus,
            Holding, WriterHolds, Types, CompletionTypes
    <3> QED
        BY <1>5, <2>3, <3>1, Zenon
  <2>4. CASE WaitAndPopCompletionItem /\ completions = <<>>
    <3>1. Holding' = Holding /\ UNCHANGED <<completions, pending>>
        BY <2>4, Zenon DEF WaitAndPopCompletionItem, WriterGoto, Holding, WriterHolds, Types, CompletionTypes
    <3> QED
        BY <1>5, <3>1, Zenon
  <2> QED
    BY <1>8, <2>1, <2>2, <2>3, <2>4, Zenon DEF Writer, WriterBlocks, PushResponse, PushResponseRecheck, WaitForResponseCredit,
        ResponseCreditPoll, WriterSignal, CompleteItem, WriterOnly, completion
<1>9. CASE Stopper
  <2>1. CASE FailPendingCompletionItems
    <3>1. Holding' = 0 /\ pending' = 0 /\ completions' = <<>>
        BY <2>1, Zenon DEF FailPendingCompletionItems, StopFrom, StopOrder, WriterJoined, Holding, WriterHolds
    <3> QED
        BY <1>0, <3>1, SMT, Z3
  <2>2. CASE StopNotifiesWriter
    BY <1>3, <1>5, <2>2, Zenon DEF StopNotifiesWriter, completion
  <2>3. CASE UNCHANGED <<completions, pending, writer>>
    BY <1>5, <2>3, Zenon DEF Holding, WriterHolds
  <2> QED
    BY <1>9, <2>1, <2>2, <2>3, Zenon DEF Stopper, StopBegins, StopSteps, StopTimesOut, StopBreaksSession, StopWriterFlag,
        StopSignalsCredit, StopJoinsWriter, StopWakesDispatcher, StopJoinsDispatcher, StopExecutor, StopJoinsExecutor,
        StopResetsSession, completion
<1>10. CASE UNCHANGED <<completions, pending, writer>>
    BY <1>5, <1>10, Zenon DEF Holding, WriterHolds
<1> QED
    BY <1>6, <1>7, <1>8, <1>9, <1>10, StepIsOfAThread, DispatcherKeeps, SubmitterKeeps, ReceiverKeeps, Zenon DEF vars, completion

\* pendingCompletionCount is the number of completions the writer has not finished, and
\* completionQueueCapacity bounds it, for every capacity and any number of threads.
THEOREM CompletionsCounted == Spec => []CompletionsAreCounted
<1>1. Types /\ StopOrder /\ [Next]_vars => StopOrder'
    BY StopOrderStep, Zenon
<1>2. Types /\ StopOrder /\ CompletionsAreCounted /\ [Next]_vars => CompletionsAreCounted'
    BY CountStep, Zenon
<1>3. Init => CompletionsAreCounted
    BY WorkloadsAssumption, SMTT(60), Z3T(60) DEF Init, CompletionsAreCounted, CompletionQueueCapacity, WriterHolds
<1> QED
    BY <1>1, <1>2, <1>3, InitTypes, StepTypes, StopOrderInit, PTL DEF Spec

-----------------------------------------------------------------------------
(* Wakeups and credits.                                                     *)

\* A session is never repaired.
LEMMA BrokenStays == ASSUME Types, [Next]_vars PROVE broken => broken'
<1>1. ASSUME NEW w \in Workers, Worker(w) PROVE broken => broken'
    BY <1>1, Zenon DEF Worker, WorkerTake, WorkerExit, WriteResponse, WriteRefused, AwaitWriteCompletion, MarkSessionBroken
<1>2. CASE Writer
    BY <1>2, Zenon DEF Writer, WaitAndPopCompletionItem, WriterBlocks, PushResponse, PushResponseRecheck, WaitForResponseCredit,
        ResponseCreditPoll, WriterSignal, CompleteItem, OnCompletionItemFinished, WriterOnly, MarkSessionBroken
<1>3. CASE Stopper
    BY <1>3, Zenon DEF Stopper, StopBegins, StopSteps, StopTimesOut, StopBreaksSession, StopWriterFlag, StopSignalsCredit,
        StopNotifiesWriter, StopJoinsWriter, FailPendingCompletionItems, StopWakesDispatcher, StopJoinsDispatcher,
        StopExecutor, StopJoinsExecutor, StopResetsSession, OnlySessionBroken, MarkSessionBroken, shm
<1>4. CASE UNCHANGED broken
    BY <1>4, Zenon
<1> QED
    BY <1>1, <1>2, <1>3, <1>4, StepIsOfAThread, DispatcherKeeps, PublisherKeeps, SubmitterKeeps, ReceiverKeeps, Zenon DEF vars, shm

\* The push that found the ring empty is the one that signals, so an unsignalled ring
\* in front of a sleeping dispatcher has one entry.
RequestSignal(k) ==
    disp.pc = "poll" /\ reqRing[k] # <<>> =>
        reqEvent[k] \/ (cli.pc \in {"pushed", "signal"} /\ KindOf(cli.req) = k /\ Len(reqRing[k]) = 1)

ResponseSignal ==
    crs.pc = "poll" /\ respRing # <<>> =>
        respEvent \/ writer.pc = "pushed" \/ (writer.pc = "finish" /\ writer.status = "Ok")

\* While a request ring is not empty, the dispatcher looks at it or will be woken.
LEMMA RequestSignalStep ==
    ASSUME Types, ~broken, [Next]_vars, ~broken', NEW k \in Kinds, RequestSignal(k)
    PROVE RequestSignal(k)'
<1> USE DEF RequestSignal
<1>1. load' = load
    BY StepIsOfAThread, DispatcherKeeps, WorkerKeeps, WriterKeeps, PublisherKeeps, StopperKeeps, SubmitterKeeps, Zenon,
       ReceiverKeeps DEF vars
<1>2. CASE Dispatcher
  <2>1. CASE disp'.pc # "poll"
    BY <2>1, Zenon
  <2>2. CASE SpinForRingActivity
    BY <2>2, Zenon DEF SpinForRingActivity, DispatcherTop, DispatcherOnly, Types, DispatcherTypes, DispatcherStates
  <2> QED
    BY <1>2, <2>1, <2>2, DispatcherStep, Zenon
<1>3. CASE Submitter
  <2>1. CASE PushRequest
    <3>1. CASE reqRing' = reqRing
        BY <1>1, <1>3, <2>1, <3>1, SubmitterKeeps, Zenon DEF PushRequest, KindOf
    <3>2. CASE reqRing' = [reqRing EXCEPT ![KindOf(cli.req)] = Append(@, cli.req)] /\ cli' = [cli EXCEPT !.pc = "pushed"]
      <4>1. CASE KindOf(cli.req) = k
        <5>1. cli.pc = "push"
            BY <2>1, Zenon DEF PushRequest
        <5>2. cli'.pc = "pushed" /\ cli'.req = cli.req /\ (KindOf(cli.req))' = k
            BY <1>1, <3>2, <4>1, Zenon DEF KindOf, Types, ClientTypes
        <5>3. reqRing[k] \in Seq(Requests) /\ reqRing'[k] = Append(reqRing[k], cli.req)
            BY <3>2, <4>1, Zenon DEF Types, RingTypes
        <5>4. reqRing[k] = <<>> => Len(reqRing'[k]) = 1
            BY <5>3, SMT, Z3
        <5>5. disp' = disp /\ reqEvent' = reqEvent
            BY <1>3, <2>1, SubmitterKeeps, Zenon DEF PushRequest
        <5> QED
            BY <5>1, <5>2, <5>4, <5>5, Zenon
      <4>2. CASE KindOf(cli.req) # k
        <5>1. cli.pc = "push" /\ reqRing'[k] = reqRing[k]
            BY <2>1, <3>2, <4>2, Zenon DEF PushRequest, Types, RingTypes
        <5>2. disp' = disp /\ reqEvent' = reqEvent
            BY <1>3, <2>1, SubmitterKeeps, Zenon DEF PushRequest
        <5> QED
            BY <5>1, <5>2, Zenon
      <4> QED
        BY <4>1, <4>2, Zenon
    <3> QED
        BY <2>1, <3>1, <3>2, Zenon DEF PushRequest
  <2>2. CASE SignalRequest
    <3>1. UNCHANGED <<disp, reqRing>> /\ cli.pc = "signal"
        BY <1>3, <2>2, SubmitterKeeps, Zenon DEF SignalRequest
    <3>2. reqEvent[k] => reqEvent'[k]
        BY <2>2, Zenon DEF SignalRequest, Types, FlagTypes
    <3>3. KindOf(cli.req) = k /\ Len(reqRing[k]) = 1 => reqEvent'[k]
        BY <2>2, ZenonT(60) DEF SignalRequest, Types, FlagTypes
    <3> QED
        BY <3>1, <3>2, <3>3, Zenon
  <2>3. CASE PushRequestRecheck
    BY <1>1, <1>3, <2>3, SubmitterKeeps, Zenon DEF PushRequestRecheck, KindOf, Types, ClientTypes
  <2>4. CASE SubmitTakes \/ WaitForRequestCredit
    BY <1>3, <2>4, SubmitterKeeps, Zenon DEF SubmitTakes, WaitForRequestCredit
  <2> QED
    BY <1>3, <2>1, <2>2, <2>3, <2>4, Zenon DEF Submitter
<1>4. CASE Stopper
  <2>1. reqEvent[k] => reqEvent'[k]
    BY <1>4, Zenon DEF Stopper, StopBegins, StopSteps, StopTimesOut, StopBreaksSession, StopWriterFlag, StopSignalsCredit,
        StopNotifiesWriter, StopJoinsWriter, FailPendingCompletionItems, StopWakesDispatcher, StopJoinsDispatcher,
        StopExecutor, StopJoinsExecutor, StopResetsSession, OnlySessionBroken, shm
  <2> QED
    BY <1>1, <1>4, <2>1, StopperKeeps, Zenon DEF KindOf
<1>5. CASE UNCHANGED <<disp, reqRing, reqEvent, cli>>
    BY <1>1, <1>5, Zenon DEF KindOf
<1> QED
    BY <1>2, <1>3, <1>4, <1>5, StepIsOfAThread, WorkerKeeps, WriterKeeps, PublisherKeeps, ReceiverKeeps, Zenon DEF vars, shm, client

\* While the response ring is not empty, the client looks at it or will be woken.
LEMMA ResponseSignalStep ==
    ASSUME Types, ~broken, [Next]_vars, ~broken', ResponseSignal
    PROVE ResponseSignal'
<1> USE DEF ResponseSignal
<1>1. CASE Writer
  <2>1. crs' = crs
    BY <1>1, WriterKeeps, Zenon
  <2>2. CASE PushResponse
    BY <2>1, <2>2, Zenon DEF PushResponse, WriterGoto, WriterStatus, Types, CompletionTypes
  <2>3. CASE PushResponseRecheck
    BY <2>1, <2>3, Zenon DEF PushResponseRecheck, WriterStatus, WriterOnly, Types, CompletionTypes
  <2>4. CASE WriterSignal
    BY <2>1, <2>4, SMT, Z3 DEF WriterSignal, MarkSessionBroken
  <2>5. CASE writer.pc \notin {"pushed", "finish"} /\ UNCHANGED <<respRing, respEvent>>
    BY <2>1, <2>5, Zenon
  <2> QED
    BY <1>1, <2>2, <2>3, <2>4, <2>5, Zenon DEF Writer, WaitAndPopCompletionItem, WriterBlocks, WaitForResponseCredit,
        ResponseCreditPoll, CompleteItem, OnCompletionItemFinished, WriterOnly
<1>2. CASE Receiver
    BY <1>2, ReceiverKeeps, SMT, Z3 DEF Receiver, CountResponses, PopResponse, SignalResponseCredit, WaitForResponseSignal,
        Types, ClientTypes
<1>3. CASE /\ UNCHANGED <<crs, respRing>> /\ (respEvent => respEvent')
           /\ UNCHANGED writer \/ NotifyWriter
    BY <1>3, Zenon DEF NotifyWriter, Types, CompletionTypes
<1>4. ASSUME NEW w \in Workers, Worker(w) PROVE ResponseSignal'
  <2>1. respEvent => respEvent'
    BY <1>4, ZenonT(60) DEF Worker, WorkerTake, WorkerExit, WriteResponse, WriteRefused, AwaitWriteCompletion, MarkSessionBroken
  <2>2. UNCHANGED writer \/ NotifyWriter
    BY <1>4, Zenon DEF Worker, WorkerTake, WorkerExit, WriteResponse, WriteRefused, AwaitWriteCompletion, Enqueue
  <2> QED
    BY <1>3, <1>4, <2>1, <2>2, WorkerKeeps, Zenon
<1>5. CASE Publisher
  <2>1. UNCHANGED writer \/ NotifyWriter
    BY <1>5, Zenon DEF Publisher, PublishEvent, PublishEnqueue, PublishReturn, Enqueue
  <2> QED
    BY <1>3, <1>5, <2>1, PublisherKeeps, Zenon
<1>6. CASE Stopper
  <2>1. respEvent => respEvent'
    BY <1>6, Zenon DEF Stopper, StopBegins, StopSteps, StopTimesOut, StopBreaksSession, StopWriterFlag, StopSignalsCredit,
        StopNotifiesWriter, StopJoinsWriter, FailPendingCompletionItems, StopWakesDispatcher, StopJoinsDispatcher,
        StopExecutor, StopJoinsExecutor, StopResetsSession, OnlySessionBroken, MarkSessionBroken, shm
  <2>2. UNCHANGED writer \/ NotifyWriter
    BY <1>6, Zenon DEF Stopper, StopBegins, StopSteps, StopTimesOut, StopBreaksSession, StopWriterFlag, StopSignalsCredit,
        StopNotifiesWriter, StopJoinsWriter, FailPendingCompletionItems, StopWakesDispatcher, StopJoinsDispatcher,
        StopExecutor, StopJoinsExecutor, StopResetsSession
  <2> QED
    BY <1>3, <1>6, <2>1, <2>2, StopperKeeps, Zenon
<1>7. CASE UNCHANGED <<crs, respRing, respEvent, writer>>
    BY <1>7, Zenon
<1> QED
    BY <1>1, <1>2, <1>4, <1>5, <1>6, <1>7, StepIsOfAThread, DispatcherKeeps, SubmitterKeeps, Zenon DEF vars, shm, client

SignalsArrive == ~broken => (\A k \in Kinds : RequestSignal(k)) /\ ResponseSignal

\* Neither the dispatcher nor the client's response worker sleeps on a ring that has
\* entries and no signal on the way.
THEOREM NoSignalIsMissed == Spec => []NoMissedSignal
<1>1. Types /\ SignalsArrive /\ [Next]_vars => SignalsArrive'
  <2> SUFFICES ASSUME Types, SignalsArrive, [Next]_vars, ~broken'
               PROVE (\A k \in Kinds : RequestSignal(k)') /\ ResponseSignal'
    BY Zenon DEF SignalsArrive
  <2>1. ~broken
    BY BrokenStays, Zenon
  <2>2. ASSUME NEW k \in Kinds PROVE RequestSignal(k)'
    BY <2>1, RequestSignalStep, Zenon DEF SignalsArrive
  <2>3. ResponseSignal'
    BY <2>1, ResponseSignalStep, Zenon DEF SignalsArrive
  <2> QED
    BY <2>2, <2>3, Zenon
<1>2. Init => SignalsArrive
    BY Zenon DEF Init, SignalsArrive, RequestSignal, ResponseSignal, DispatcherTop
<1>3. SignalsArrive => NoMissedSignal
    BY Zenon DEF SignalsArrive, RequestSignal, ResponseSignal, NoMissedSignal
<1> QED
    BY <1>1, <1>2, <1>3, InitTypes, StepTypes, PTL DEF Spec

\* DrainQueue owes a credit for ring k: it has freed a slot of the full ring, or is
\* about to find out that it has.
CreditIsDue(k) ==
    /\ disp.kind = k
    /\ \/ disp.pc \in {"drain", "popped", "drained"} /\ disp.freed
       \/ disp.pc = "popped" /\ Len(reqRing[k]) + 1 = RequestRingSize

RingsFit == \A k \in Kinds : Len(reqRing[k]) <= RequestRingSize

CreditFor(k) == reqCredit \/ Len(reqRing[k]) = RequestRingSize \/ CreditIsDue(k)

\* No ring is filled beyond its capacity.
LEMMA RingsFitStep ==
    ASSUME Types, RingsFit, [Next]_vars
    PROVE RingsFit'
<1>0. /\ load.requestRing \in Nat /\ reqRing \in [Kinds -> Seq(Requests)]
      /\ \A k \in Kinds : reqRing[k] \in Seq(Requests) /\ Len(reqRing[k]) \in Nat /\ Len(reqRing[k]) <= load.requestRing
    BY WorkloadsAssumption, SMTT(60), Z3T(60) DEF Types, CallerTypes, RingTypes, RingsFit, RequestRingSize
<1>1. load' = load
    BY Zenon, StepIsOfAThread, DispatcherKeeps, WorkerKeeps, WriterKeeps, PublisherKeeps, StopperKeeps, SubmitterKeeps,
       ReceiverKeeps DEF vars
<1>2. SUFFICES ASSUME NEW k \in Kinds PROVE Len(reqRing'[k]) <= load.requestRing
    BY <1>1, Zenon DEF RingsFit, RequestRingSize
<1>3. CASE reqRing'[k] = reqRing[k]
    BY <1>0, <1>3, Zenon
<1>4. CASE DrainPop
  <2>1. reqRing'[k] = reqRing[k] \/ (reqRing[k] # <<>> /\ reqRing'[k] = Tail(reqRing[k]))
    BY <1>0, <1>4, Zenon DEF DrainPop
  <2>2. reqRing[k] # <<>> => Len(Tail(reqRing[k])) = Len(reqRing[k]) - 1
    BY <1>0, SMT, Z3
  <2> QED
    BY <1>0, <1>3, <2>1, <2>2, SMT, Z3
<1>5. CASE PushRequest
  <2>1. \/ reqRing'[k] = reqRing[k]
        \/ Len(reqRing[k]) < load.requestRing /\ reqRing'[k] = Append(reqRing[k], cli.req)
    BY <1>0, <1>5, Zenon DEF PushRequest, RequestRingSize
  <2>2. Len(Append(reqRing[k], cli.req)) = Len(reqRing[k]) + 1
    BY <1>0, SMT, Z3
  <2> QED
    BY <1>0, <1>3, <2>1, <2>2, SMT, Z3
<1>6. DrainPop \/ PushRequest \/ UNCHANGED reqRing
    BY StepIsOfAThread, WorkerKeeps, WriterKeeps, PublisherKeeps, StopperKeeps, ReceiverKeeps, Zenon
    DEF vars, shm, Dispatcher, DispatcherOnly, DispatcherLoop, DrainSubmit, DrainReturn, HandleBackloggedQueues,
        SpinForRingActivity, DispatcherPoll, Submitter, SubmitTakes, PushRequestRecheck, SignalRequest, WaitForRequestCredit
<1> QED
    BY <1>3, <1>4, <1>5, <1>6, Zenon

\* The dispatcher frees a place in a full ring only with a credit to follow.
LEMMA DispatcherKeepsCredit ==
    ASSUME Types, RingsFit, ~broken, Dispatcher, NEW k \in Kinds, CreditFor(k)
    PROVE CreditFor(k)'
<1>0. /\ load.requestRing \in Nat \ {0} /\ reqRing \in [Kinds -> Seq(Requests)]
      /\ reqRing[k] \in Seq(Requests) /\ Len(reqRing[k]) \in Nat
      /\ disp \in DispatcherStates
    BY WorkloadsAssumption, SMT, Z3 DEF Types, CallerTypes, RingTypes, DispatcherTypes
<1>1. RequestRingSize = load.requestRing /\ RequestRingSize' = RequestRingSize
    BY DispatcherKeeps, Zenon DEF RequestRingSize
<1> DEFINE Pops == HasCapacity(disp.kind) /\ ~broken /\ reqRing[disp.kind] # <<>>
<1>2. CASE DrainPop /\ ~Pops
  <2>1. UNCHANGED <<reqRing, reqCredit>> /\ disp' = [disp EXCEPT !.pc = "drained"] /\ disp.pc = "drain"
    BY <1>2, Zenon DEF DrainPop, DispatcherGoto
  <2>2. CreditIsDue(k) => CreditIsDue(k)'
    BY <1>0, <2>1, Zenon DEF CreditIsDue, DispatcherStates
  <2> QED
    BY <1>1, <2>1, <2>2, Zenon DEF CreditFor
<1>3. CASE DrainPop /\ Pops
  <2> DEFINE j == disp.kind
  <2>1. /\ reqCredit' = reqCredit /\ disp.pc = "drain" /\ reqRing[j] # <<>>
        /\ reqRing' = [reqRing EXCEPT ![j] = Tail(@)]
        /\ disp' = [disp EXCEPT !.pc = "popped", !.drained = TRUE, !.req = Head(reqRing[j])]
    BY <1>3, Zenon DEF DrainPop
  <2>2. disp'.pc = "popped" /\ disp'.kind = j /\ disp'.freed = disp.freed
    BY <1>0, <2>1, Zenon DEF DispatcherStates
  <2>3. CASE j = k
    <3>1. reqRing'[k] = Tail(reqRing[k]) /\ reqRing[k] # <<>>
        BY <1>0, <2>1, <2>3, Zenon
    <3>2. Len(reqRing'[k]) + 1 = Len(reqRing[k])
        BY <1>0, <3>1, SMT, Z3
    <3>3. CreditIsDue(k) => CreditIsDue(k)'
        BY <2>1, <2>2, <2>3, Zenon DEF CreditIsDue
    <3>4. Len(reqRing[k]) = RequestRingSize => CreditIsDue(k)'
        BY <1>1, <2>2, <2>3, <3>2, Zenon DEF CreditIsDue
    <3> QED
        BY <2>1, <3>3, <3>4, Zenon DEF CreditFor
  <2>4. CASE j # k
    <3>1. reqRing'[k] = reqRing[k]
        BY <1>0, <2>1, <2>4, Zenon
    <3>2. ~CreditIsDue(k)
        BY <2>4, Zenon DEF CreditIsDue
    <3> QED
        BY <1>1, <2>1, <3>1, <3>2, Zenon DEF CreditFor
  <2> QED
    BY <2>3, <2>4, Zenon
<1>4. CASE DrainSubmit
  <2>1. UNCHANGED <<reqRing, reqCredit>> /\ disp.pc = "popped"
    BY <1>4, Zenon DEF DrainSubmit
  <2>2. disp'.pc = "drain" /\ disp'.kind = disp.kind
        /\ disp'.freed = (disp.freed \/ Len(reqRing[disp.kind]) + 1 = RequestRingSize)
    BY <1>0, <1>4, Zenon DEF DrainSubmit, DispatcherStates
  <2>3. CreditIsDue(k) => CreditIsDue(k)'
    BY <2>1, <2>2, Zenon DEF CreditIsDue
  <2> QED
    BY <1>1, <2>1, <2>3, Zenon DEF CreditFor
<1>5. CASE DrainReturn
  <2>1. reqRing' = reqRing /\ disp.pc = "drained" /\ reqCredit' = (reqCredit \/ disp.freed)
    BY <1>5, Zenon DEF DrainReturn
  <2>2. CreditIsDue(k) => reqCredit'
    BY <2>1, Zenon DEF CreditIsDue
  <2>3. reqCredit => reqCredit'
    BY <2>1, Zenon
  <2> QED
    BY <1>1, <2>1, <2>2, <2>3, Zenon DEF CreditFor
<1>6. CASE disp.pc \in {"loop", "backlog", "spin", "poll"} /\ UNCHANGED <<reqRing, reqCredit>>
  <2>1. ~CreditIsDue(k)
    BY <1>6, Zenon DEF CreditIsDue
  <2> QED
    BY <1>1, <1>6, <2>1, Zenon DEF CreditFor
<1> QED
    BY <1>2, <1>3, <1>4, <1>5, <1>6, Zenon DEF Dispatcher, DispatcherOnly, DispatcherLoop, HandleBackloggedQueues,
        SpinForRingActivity, DispatcherPoll

CreditKept == ~broken /\ cli.pc = "wait" => CreditFor(KindOf(cli.req))

\* A submit worker that waits for a credit finds the ring full, or a credit on its way.
LEMMA CreditStep ==
    ASSUME Types, RingsFit, CreditKept, [Next]_vars
    PROVE CreditKept'
<1> SUFFICES ASSUME ~broken', cli'.pc = "wait" PROVE CreditFor(KindOf(cli.req))'
    BY Zenon DEF CreditKept
<1>0. ~broken
    BY BrokenStays, Zenon
<1>1. load' = load
    BY Zenon, StepIsOfAThread, DispatcherKeeps, WorkerKeeps, WriterKeeps, PublisherKeeps, StopperKeeps, SubmitterKeeps,
       ReceiverKeeps DEF vars
<1>2. CASE Dispatcher
  <2> DEFINE k == KindOf(cli.req)
  <2>1. k \in Kinds /\ cli' = cli
    BY <1>2, DispatcherKeeps, Zenon DEF KindOf, Kinds
  <2>2. CreditFor(k)
    BY <1>0, <2>1, Zenon DEF CreditKept
  <2>3. k' = k
    BY <1>1, <2>1, Zenon DEF KindOf
  <2> HIDE DEF k
  <2>4. CreditFor(k)'
    BY <1>0, <1>2, <2>1, <2>2, <2>3, DispatcherKeepsCredit, Zenon DEF CreditFor, CreditIsDue
  <2> QED
    BY <2>4, Zenon DEF k
<1>3. CASE Submitter
  <2>1. PushRequest
    BY <1>3, SMT, Z3 DEF Submitter, SubmitTakes, PushRequestRecheck, SignalRequest, WaitForRequestCredit, Types, ClientTypes
  <2> DEFINE k == KindOf(cli.req)
  <2>2. cli' = [cli EXCEPT !.pc = "wait"] /\ reqRing' = reqRing /\ Len(reqRing[k]) >= RequestRingSize
    BY <1>0, <2>1, Zenon DEF PushRequest, Types, ClientTypes
  <2>3. k \in Kinds /\ k' = k
    BY <1>1, <2>2, Zenon DEF KindOf, Kinds, Types, ClientTypes
  <2> HIDE DEF k
  <2>4. Len(reqRing[k]) = RequestRingSize
    BY <2>2, <2>3, WorkloadsAssumption, SMT, Z3 DEF RingsFit, RequestRingSize, Types, RingTypes, CallerTypes
  <2>5. (Len(reqRing[k]) = RequestRingSize)'
    BY <1>1, <2>2, <2>3, <2>4, Zenon DEF RequestRingSize
  <2> QED
    BY <2>5, Zenon DEF CreditFor, k
<1>4. CASE UNCHANGED <<cli, disp, reqRing, reqCredit>>
    BY <1>0, <1>1, <1>4, Zenon DEF CreditKept, CreditFor, CreditIsDue, RequestRingSize, KindOf
<1> QED
    BY <1>2, <1>3, <1>4, StepIsOfAThread, WorkerKeeps, WriterKeeps, PublisherKeeps, StopperKeeps, ReceiverKeeps, Zenon
    DEF vars, shm, client

\* The submit worker never waits for a credit that was lost, for every ring size and
\* however DrainQueue, the executors and the pushes interleave.
THEOREM CreditIsNotLost == Spec => []NoLostRequestCredit
<1>1. Types /\ RingsFit /\ [Next]_vars => RingsFit'
    BY RingsFitStep, Zenon
<1>2. Types /\ RingsFit /\ CreditKept /\ [Next]_vars => CreditKept'
    BY CreditStep, Zenon
<1>3. Init => RingsFit /\ CreditKept
  <2> SUFFICES ASSUME Init PROVE RingsFit /\ CreditKept
    BY Zenon
  <2>1. \A k \in Kinds : reqRing[k] = <<>>
    BY Zenon DEF Init
  <2>2. load.requestRing \in Nat
    BY WorkloadsAssumption, Zenon DEF Init
  <2>3. RingsFit
    BY <2>1, <2>2, SMTT(60), Z3T(60) DEF RingsFit, RequestRingSize
  <2>4. CreditKept
    BY Zenon DEF Init, CreditKept
  <2> QED
    BY <2>3, <2>4, Zenon
<1>4. CreditKept => NoLostRequestCredit
    BY Zenon DEF CreditKept, CreditFor, CreditIsDue, NoLostRequestCredit
<1> QED
    BY <1>1, <1>2, <1>3, <1>4, InitTypes, StepTypes, PTL DEF Spec

=============================================================================
