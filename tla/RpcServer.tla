------------------------------ MODULE RpcServer ------------------------------
(***************************************************************************)
(* One session between the server half of memrpc                           *)
(* (memrpc/src/server/rpc_server.cpp) and a client: the dispatcher thread, *)
(* the high and normal executors, the completion queue, the response       *)
(* writer thread, PublishEvent and Stop; and, on the client's side of the  *)
(* shared memory (memrpc/src/client/rpc_client.cpp), the submit worker's   *)
(* push and the response worker's drain.                                   *)
(*                                                                         *)
(* A step is what a thread does between two moments at which another       *)
(* thread could tell the difference: the test of a ring count and the pop  *)
(* next to it are two steps, the test of a condition variable's predicate  *)
(* and the wait are two steps.  The timeouts of 100 ms polls and of retry  *)
(* budgets may pass at any moment.  Payloads, and the files that carry the *)
(* oversized ones, are abstracted away.                                    *)
(***************************************************************************)
EXTENDS Integers, Sequences, FiniteSets

CONSTANTS
    Requests,                 \* the requests the client may push
    Event,                    \* model value: an entry made by PublishEvent
    NoItem,                   \* model value: no request and no event
    HighWorkers,              \* threads of the high executor
    NormalWorkers,            \* threads of the normal executor
    Workloads                 \* bound: the sizes and the calls of each instance

ASSUME ItemsAssumption == Event \notin Requests /\ NoItem \notin Requests \cup {Event}
ASSUME WorkersAssumption ==
    HighWorkers \cap NormalWorkers = {} /\ IsFiniteSet(HighWorkers) /\ IsFiniteSet(NormalWorkers)
ASSUME WorkloadsAssumption ==
    Workloads \subseteq
        [requests : Seq(Requests), high : SUBSET Requests, requestRing : Nat \ {0},
         responseRing : Nat \ {0}, queue : Nat \ {0}, events : Nat, stop : BOOLEAN]
\* The client numbers its requests (nextRequestId_): no two have the same id.
ASSUME RequestIdsAssumption ==
    \A l \in Workloads : \A i, j \in DOMAIN l.requests : l.requests[i] = l.requests[j] => i = j

Kinds == {"High", "Normal"}
Items == Requests \cup {Event}
Workers == HighWorkers \cup NormalWorkers
PoolOf(w) == IF w \in HighWorkers THEN "High" ELSE "Normal"

VARIABLES
    load,           \* the workload of this behaviour
    running,        \* running
    writerRunning,  \* responseWriterRunning
    mapped,         \* the server's Session is attached
    broken,         \* SessionState::Broken in the shared header
    reqRing,        \* highRing and normalRing
    reqEvent,       \* highReqEventFd and normalReqEventFd are readable
    reqCredit,      \* reqCreditEventFd is readable
    respRing,       \* responseRing
    respEvent,      \* respEventFd is readable
    respCredit,     \* respCreditEventFd is readable
    disp,           \* DispatcherLoop
    pool,           \* the executors: running_ and queue_
    task,           \* WorkerLoop of each executor thread
    tokens,         \* pendingSubmittedTasks
    completions,    \* completionQueue
    pending,        \* pendingCompletionCount
    done,           \* CompletionState::status of each item, "none" until ready
    writer,         \* ResponseWriterLoop
    pub,            \* a caller of PublishEvent
    stop,           \* the caller of Stop
    cli,            \* the client's submit worker
    crs,            \* the client's response worker
    pushed,         \* history: requests whose push returned Ok
    received        \* history: entries the client has popped

shm == <<broken, reqRing, reqEvent, reqCredit, respRing, respEvent, respCredit>>
flags == <<running, writerRunning, mapped>>
execution == <<pool, task, tokens>>
completion == <<completions, pending, done>>
client == <<cli, crs, pushed, received>>
vars == <<load, flags, shm, disp, execution, completion, writer, pub, stop, client>>

KindOf(r) == IF r \in load.high THEN "High" ELSE "Normal"
RequestRingSize == load.requestRing
ResponseRingSize == load.responseRing
CompletionQueueCapacity == load.queue    \* ServerOptions::completionQueueCapacity

\* The top of the loop.  Locals that will be written before they are read again
\* have their initial value.
DispatcherTop == [pc |-> "loop", kind |-> "High", from |-> "loop", req |-> NoItem,
                  freed |-> FALSE, drained |-> FALSE, high |-> FALSE, ready |-> {}]

\* The server as Start() leaves it, with a client attached to the session.
Init ==
    /\ load \in Workloads
    /\ running = TRUE /\ writerRunning = TRUE /\ mapped = TRUE /\ broken = FALSE
    /\ reqRing = [k \in Kinds |-> <<>>] /\ reqEvent = [k \in Kinds |-> FALSE]
    /\ reqCredit = FALSE /\ respRing = <<>> /\ respEvent = FALSE /\ respCredit = FALSE
    /\ disp = DispatcherTop
    /\ pool = [k \in Kinds |-> [open |-> TRUE, queue |-> <<>>]]
    /\ task = [w \in Workers |-> [pc |-> "idle", req |-> NoItem]] /\ tokens = 0
    /\ completions = <<>> /\ pending = 0 /\ done = [i \in Items |-> "none"]
    /\ writer = [pc |-> "test", item |-> NoItem, status |-> "Ok"]
    /\ pub = [pc |-> "idle", count |-> 0] /\ stop = "idle"
    /\ cli = [pc |-> "idle", req |-> NoItem] /\ crs = [pc |-> "count", full |-> FALSE]
    /\ pushed = {} /\ received = {}

-----------------------------------------------------------------------------
(* Shared helpers.                                                          *)

\* completionMutex: only the writer keeps it from one step to the next, between
\* testing the predicate of completionCv and blocking.
CompletionUnlocked == writer.pc # "blocking"

MarkSessionBroken == broken' = TRUE /\ respEvent' = TRUE
OnlySessionBroken == MarkSessionBroken /\ UNCHANGED <<reqRing, reqEvent, reqCredit, respRing, respCredit>>

HasCapacity(k) ==
    /\ pool[k].open
    /\ Len(pool[k].queue) < Cardinality(IF k = "High" THEN HighWorkers ELSE NormalWorkers)

\* completionCv.notify_one / notify_all: wakes the writer if it is blocked.
NotifyWriter == writer' = IF writer.pc = "blocked" THEN [writer EXCEPT !.pc = "test"] ELSE writer

\* Mutant: completions are accepted after the response writer was stopped.
CanEnqueue_AnyTime == pending < CompletionQueueCapacity

\* EnqueueCompletion, under completionMutex: its condition and its effect.
CanEnqueue == writerRunning /\ pending < CompletionQueueCapacity

Enqueue(item) ==
    /\ completions' = Append(completions, item) /\ pending' = pending + 1 /\ UNCHANGED done
    /\ NotifyWriter

-----------------------------------------------------------------------------
(* DispatcherLoop.                                                          *)

DispatcherFrame ==
    UNCHANGED <<load, flags, broken, respRing, respEvent, respCredit, completion, writer, pub, stop, client>>
DispatcherOnly ==
    DispatcherFrame /\ UNCHANGED <<reqRing, reqEvent, reqCredit, execution>>
DispatcherGoto(next) == disp' = [disp EXCEPT !.pc = next]

\* The call of DrainQueue(k) from d; clearing the eventfd comes first at the
\* calls that follow poll.
Drain(d, k, from) == [d EXCEPT !.pc = "drain", !.kind = k, !.from = from,
                               !.freed = FALSE, !.drained = FALSE]

DispatcherLoop ==
    /\ disp.pc = "loop"
    /\ disp' = IF running THEN Drain(disp, "High", "loop") ELSE [disp EXCEPT !.pc = "exit"]
    /\ DispatcherOnly

\* Mutant: a request is popped for an executor that has no room.
DrainPop_NoCapacity ==
    /\ disp.pc = "drain"
    /\ IF ~broken /\ reqRing[disp.kind] # <<>>
         THEN /\ disp' = [disp EXCEPT !.pc = "popped", !.drained = TRUE, !.req = Head(reqRing[disp.kind])]
              /\ reqRing' = [reqRing EXCEPT ![disp.kind] = Tail(@)]
         ELSE DispatcherGoto("drained") /\ UNCHANGED reqRing
    /\ DispatcherFrame /\ UNCHANGED <<reqEvent, reqCredit, execution>>

\* DrainQueue: while there is capacity, PopRequest ...
DrainPop ==
    /\ disp.pc = "drain"
    /\ IF HasCapacity(disp.kind) /\ ~broken /\ reqRing[disp.kind] # <<>>
         THEN /\ disp' = [disp EXCEPT !.pc = "popped", !.drained = TRUE, !.req = Head(reqRing[disp.kind])]
              /\ reqRing' = [reqRing EXCEPT ![disp.kind] = Tail(@)]
         ELSE DispatcherGoto("drained") /\ UNCHANGED reqRing
    /\ DispatcherFrame /\ UNCHANGED <<reqEvent, reqCredit, execution>>

\* Mutant: the last test decides whether a credit is signalled.
DrainSubmit_LastTest ==
    LET k == disp.kind IN
    /\ disp.pc = "popped"
    /\ disp' = [disp EXCEPT !.pc = "drain", !.req = NoItem,
                            !.freed = Len(reqRing[k]) + 1 = RequestRingSize]
    /\ IF HasCapacity(k)
         THEN pool' = [pool EXCEPT ![k].queue = Append(@, disp.req)] /\ tokens' = tokens + 1
         ELSE UNCHANGED <<pool, tokens>>
    /\ DispatcherFrame /\ UNCHANGED <<reqRing, reqEvent, reqCredit, task>>

\* ... then test whether the ring was full, and TrySubmit.  When TrySubmit
\* fails the task, its token and the request are gone.
DrainSubmit ==
    LET k == disp.kind IN
    /\ disp.pc = "popped"
    /\ disp' = [disp EXCEPT !.pc = "drain", !.req = NoItem,
                            !.freed = @ \/ Len(reqRing[k]) + 1 = RequestRingSize]
    /\ IF HasCapacity(k)
         THEN pool' = [pool EXCEPT ![k].queue = Append(@, disp.req)] /\ tokens' = tokens + 1
         ELSE UNCHANGED <<pool, tokens>>
    /\ DispatcherFrame /\ UNCHANGED <<reqRing, reqEvent, reqCredit, task>>

\* Mutant: no credit is signalled.
DrainReturn_NoCredit ==
    LET d == IF disp.kind = "High" THEN [disp EXCEPT !.high = disp.drained] ELSE disp IN
    /\ disp.pc = "drained"
    /\ UNCHANGED reqCredit
    /\ \/ /\ disp.from = "loop"
          /\ disp' = IF disp.kind = "High" /\ ~disp.drained THEN Drain(d, "Normal", "loop")
                                                            ELSE [DispatcherTop EXCEPT !.pc = "backlog", !.high = d.high]
          /\ UNCHANGED reqEvent
       \/ /\ disp.from = "poll"
          /\ IF disp.kind = "High" /\ ~disp.drained /\ "Normal" \in disp.ready
               THEN disp' = Drain(d, "Normal", "poll") /\ reqEvent' = [reqEvent EXCEPT !["Normal"] = FALSE]
               ELSE disp' = DispatcherTop /\ UNCHANGED reqEvent
    /\ DispatcherFrame /\ UNCHANGED <<reqRing, execution>>

\* DrainQueue returns: signal the credit, then go on where it was called.
DrainReturn ==
    LET d == IF disp.kind = "High" THEN [disp EXCEPT !.high = disp.drained] ELSE disp IN
    /\ disp.pc = "drained"
    /\ reqCredit' = (reqCredit \/ disp.freed)
    /\ \/ /\ disp.from = "loop"
          /\ disp' = IF disp.kind = "High" /\ ~disp.drained THEN Drain(d, "Normal", "loop")
                                                            ELSE [DispatcherTop EXCEPT !.pc = "backlog", !.high = d.high]
          /\ UNCHANGED reqEvent
       \/ /\ disp.from = "poll"
          /\ IF disp.kind = "High" /\ ~disp.drained /\ "Normal" \in disp.ready
               THEN disp' = Drain(d, "Normal", "poll") /\ reqEvent' = [reqEvent EXCEPT !["Normal"] = FALSE]
               ELSE disp' = DispatcherTop /\ UNCHANGED reqEvent
    /\ DispatcherFrame /\ UNCHANGED <<reqRing, execution>>

\* The 100 ms wait for capacity may end at any moment.
HandleBackloggedQueues ==
    /\ disp.pc = "backlog"
    /\ disp' = IF \E k \in Kinds : reqRing[k] # <<>> /\ ~HasCapacity(k)
                 THEN DispatcherTop ELSE [disp EXCEPT !.pc = "spin"]
    /\ DispatcherOnly

SpinForRingActivity ==
    /\ disp.pc = "spin"
    /\ disp' = IF \E k \in Kinds : reqRing[k] # <<>> THEN DispatcherTop ELSE [disp EXCEPT !.pc = "poll"]
    /\ DispatcherOnly

\* poll on the two request eventfds; nothing readable is the 100 ms timeout.
DispatcherPoll ==
    LET ready == {k \in Kinds : reqEvent[k]}
        d == [disp EXCEPT !.ready = ready] IN
    /\ disp.pc = "poll"
    /\ \/ /\ "High" \in ready
          /\ disp' = Drain(d, "High", "poll") /\ reqEvent' = [reqEvent EXCEPT !["High"] = FALSE]
       \/ /\ ready = {"Normal"} /\ ~disp.high
          /\ disp' = Drain(d, "Normal", "poll") /\ reqEvent' = [reqEvent EXCEPT !["Normal"] = FALSE]
       \/ /\ ready = {} \/ (ready = {"Normal"} /\ disp.high)
          /\ disp' = DispatcherTop /\ UNCHANGED reqEvent
    /\ DispatcherFrame /\ UNCHANGED <<reqRing, reqCredit, execution>>

Dispatcher ==
    \/ DispatcherLoop \/ DrainPop \/ DrainSubmit \/ DrainReturn
    \/ HandleBackloggedQueues \/ SpinForRingActivity \/ DispatcherPoll

-----------------------------------------------------------------------------
(* The executor threads: WorkerLoop running ProcessEntry.                   *)

ExecutorFrame ==
    UNCHANGED <<load, flags, reqRing, reqEvent, reqCredit, respRing, respCredit, disp, pub, stop, client>>

WorkerTake(w) ==
    LET k == PoolOf(w) IN
    /\ task[w].pc = "idle" /\ pool[k].queue # <<>>
    /\ task' = [task EXCEPT ![w] = [pc |-> "run", req |-> Head(pool[k].queue)]]
    /\ pool' = [pool EXCEPT ![k].queue = Tail(@)]
    /\ ExecutorFrame /\ UNCHANGED <<broken, respEvent, tokens, completion, writer>>

WorkerExit(w) ==
    /\ task[w].pc = "idle" /\ pool[PoolOf(w)].queue = <<>> /\ ~pool[PoolOf(w)].open
    /\ task' = [task EXCEPT ![w].pc = "exit"]
    /\ ExecutorFrame /\ UNCHANGED <<broken, respEvent, pool, tokens, completion, writer>>

\* The handler, or the payload check in front of it, has produced a reply:
\* WriteResponse up to EnqueueCompletion.
WriteResponse(w) ==
    /\ task[w].pc = "run" /\ CompletionUnlocked
    /\ IF CanEnqueue
         THEN task' = [task EXCEPT ![w].pc = "await"] /\ Enqueue(task[w].req)
         ELSE task' = [task EXCEPT ![w].pc = "refused"] /\ UNCHANGED <<completion, writer>>
    /\ ExecutorFrame /\ UNCHANGED <<broken, respEvent, pool, tokens>>

\* The task ends, its token with it.
TaskEnds(w) == task' = [task EXCEPT ![w] = [pc |-> "idle", req |-> NoItem]] /\ tokens' = tokens - 1

WriteRefused(w) ==
    /\ task[w].pc = "refused" /\ MarkSessionBroken /\ TaskEnds(w)
    /\ ExecutorFrame /\ UNCHANGED <<pool, completion, writer>>

AwaitWriteCompletion(w) ==
    /\ task[w].pc = "await" /\ done[task[w].req] # "none" /\ TaskEnds(w)
    /\ done' = [done EXCEPT ![task[w].req] = "none"]    \* its CompletionState is gone
    /\ ExecutorFrame /\ UNCHANGED <<broken, respEvent, pool, completions, pending, writer>>

Worker(w) ==
    \/ WorkerTake(w) \/ WorkerExit(w) \/ WriteResponse(w) \/ WriteRefused(w)
    \/ AwaitWriteCompletion(w)

-----------------------------------------------------------------------------
(* ResponseWriterLoop.                                                      *)

WriterFrame ==
    UNCHANGED <<load, flags, reqRing, reqEvent, reqCredit, disp, execution, pub, stop, client>>
WriterOnly == WriterFrame /\ UNCHANGED <<broken, respRing, respEvent, respCredit, completion>>
WriterGoto(next) == writer' = [writer EXCEPT !.pc = next]
WriterStatus(status) == writer' = [writer EXCEPT !.pc = "finish", !.status = status]

\* WaitAndPopCompletionItem: the predicate of completionCv ...
WaitAndPopCompletionItem ==
    /\ writer.pc = "test"
    /\ \/ /\ completions # <<>>
          /\ writer' = [writer EXCEPT !.pc = "push", !.item = Head(completions)]
          /\ completions' = Tail(completions)
       \/ completions = <<>> /\ ~writerRunning /\ WriterGoto("exit") /\ UNCHANGED completions
       \/ completions = <<>> /\ writerRunning /\ WriterGoto("blocking") /\ UNCHANGED completions
    /\ WriterFrame /\ UNCHANGED <<broken, respRing, respEvent, respCredit, pending, done>>

\* ... and the wait, which releases completionMutex.
WriterBlocks == writer.pc = "blocking" /\ WriterGoto("blocked") /\ WriterOnly

\* PushResponseWithRetry: Session::PushResponse, and what its status leads to.
\* A full ring is given up when the budget has passed.
PushResponse ==
    /\ writer.pc = "push"
    /\ \/ broken /\ WriterStatus("PeerDisconnected") /\ UNCHANGED respRing
       \/ /\ ~broken /\ Len(respRing) >= ResponseRingSize
          /\ WriterStatus("QueueFull") \/ WriterGoto("credit")
          /\ UNCHANGED respRing
       \/ /\ ~broken /\ Len(respRing) < ResponseRingSize
          /\ respRing' = Append(respRing, writer.item) /\ WriterGoto("pushed")
    /\ WriterFrame /\ UNCHANGED <<broken, respEvent, respCredit, completion>>

PushResponseRecheck ==
    /\ writer.pc = "pushed"
    /\ WriterStatus(IF broken THEN "PeerDisconnected" ELSE "Ok") /\ WriterOnly

\* WaitForResponseCredit: the test of responseWriterRunning, then the poll.
WaitForResponseCredit ==
    /\ writer.pc = "credit"
    /\ \/ writerRunning /\ WriterGoto("creditPoll")
       \/ writerRunning /\ WriterStatus("QueueFull")   \* the deadline has passed
       \/ ~writerRunning /\ WriterStatus("PeerDisconnected")
    /\ WriterOnly

ResponseCreditPoll ==
    /\ writer.pc = "creditPoll"
    /\ \/ respCredit /\ WriterGoto("push") /\ respCredit' = FALSE
       \/ ~respCredit /\ WriterStatus("QueueFull") /\ UNCHANGED respCredit
    /\ WriterFrame /\ UNCHANGED <<broken, respRing, respEvent, completion>>

\* Mutant: a lost reply leaves the session as it is.
WriterSignal_NoBreak ==
    /\ writer.pc = "finish"
    /\ respEvent' = (respEvent \/ writer.status = "Ok") /\ UNCHANGED broken
    /\ WriterGoto("complete")
    /\ WriterFrame /\ UNCHANGED <<respRing, respCredit, completion>>

\* Mutant: the client is not woken.
WriterSignal_NoWakeup ==
    /\ writer.pc = "finish"
    /\ \/ writer.status = "Ok" /\ UNCHANGED <<broken, respEvent>>
       \/ writer.status # "Ok" /\ writer.item # Event /\ MarkSessionBroken
       \/ writer.status # "Ok" /\ writer.item = Event /\ UNCHANGED <<broken, respEvent>>
    /\ WriterGoto("complete")
    /\ WriterFrame /\ UNCHANGED <<respRing, respCredit, completion>>

\* A response was published, or it is lost: a lost reply breaks the session, a
\* lost event does not.
WriterSignal ==
    /\ writer.pc = "finish"
    /\ \/ writer.status = "Ok" /\ respEvent' = TRUE /\ UNCHANGED broken
       \/ writer.status # "Ok" /\ writer.item # Event /\ MarkSessionBroken
       \/ writer.status # "Ok" /\ writer.item = Event /\ UNCHANGED <<broken, respEvent>>
    /\ WriterGoto("complete")
    /\ WriterFrame /\ UNCHANGED <<respRing, respCredit, completion>>

\* Mutant: only successful writes are reported.
CompleteItem_OnlyOk ==
    /\ writer.pc = "complete" /\ WriterGoto("account")
    /\ done' = IF writer.status = "Ok" THEN [done EXCEPT ![writer.item] = "Ok"] ELSE done
    /\ WriterFrame /\ UNCHANGED <<broken, respRing, respEvent, respCredit, completions, pending>>

CompleteItem ==
    /\ writer.pc = "complete" /\ done' = [done EXCEPT ![writer.item] = writer.status]
    /\ WriterGoto("account")
    /\ WriterFrame /\ UNCHANGED <<broken, respRing, respEvent, respCredit, completions, pending>>

\* Mutant: the item is not taken off the count.
OnCompletionItemFinished_NoCount ==
    /\ writer.pc = "account" /\ writer' = [pc |-> "test", item |-> NoItem, status |-> "Ok"]
    /\ WriterOnly

OnCompletionItemFinished ==
    /\ writer.pc = "account" /\ writer' = [pc |-> "test", item |-> NoItem, status |-> "Ok"]
    /\ pending' = IF pending > 0 THEN pending - 1 ELSE 0
    /\ WriterFrame /\ UNCHANGED <<broken, respRing, respEvent, respCredit, completions, done>>

Writer ==
    \/ WaitAndPopCompletionItem \/ WriterBlocks \/ PushResponse \/ PushResponseRecheck
    \/ WaitForResponseCredit \/ ResponseCreditPoll \/ WriterSignal \/ CompleteItem
    \/ OnCompletionItemFinished

-----------------------------------------------------------------------------
(* PublishEvent.                                                            *)

PublishFrame == UNCHANGED <<load, flags, shm, disp, execution, stop, client>>

\* The payload of an event that fits no entry may fail to be written to a file.
PublishEvent ==
    /\ pub.pc = "idle" /\ pub.count < load.events
    /\ \E prepared \in BOOLEAN :
          pub' = [pc |-> IF running /\ ~broken /\ prepared THEN "enqueue" ELSE "idle", count |-> pub.count + 1]
    /\ PublishFrame /\ UNCHANGED <<completion, writer>>

PublishEnqueue ==
    /\ pub.pc = "enqueue" /\ CompletionUnlocked
    /\ IF CanEnqueue
         THEN pub' = [pub EXCEPT !.pc = "await"] /\ Enqueue(Event)
         ELSE pub' = [pub EXCEPT !.pc = "idle"] /\ UNCHANGED <<completion, writer>>
    /\ PublishFrame

PublishReturn ==
    /\ pub.pc = "await" /\ done[Event] # "none" /\ pub' = [pub EXCEPT !.pc = "idle"]
    /\ done' = [done EXCEPT ![Event] = "none"]
    /\ PublishFrame /\ UNCHANGED <<completions, pending, writer>>

Publisher == PublishEvent \/ PublishEnqueue \/ PublishReturn

-----------------------------------------------------------------------------
(* Stop.                                                                    *)

StopFrame == UNCHANGED <<load, disp, task, tokens, pub, client>>
StopFrom(here, next) == stop = here /\ stop' = next

StopBegins ==
    /\ load.stop /\ StopFrom("idle", "break") /\ running' = FALSE
    /\ StopFrame /\ UNCHANGED <<writerRunning, mapped, shm, pool, completion, writer>>

StopBreaksSession ==
    /\ StopFrom("break", "flag") /\ OnlySessionBroken
    /\ StopFrame /\ UNCHANGED <<flags, pool, completion, writer>>

\* responseWriterRunning is cleared here and once more in StopResponseWriter.
StopWriterFlag ==
    /\ StopFrom("flag", "credit") /\ writerRunning' = FALSE
    /\ StopFrame /\ UNCHANGED <<running, mapped, shm, pool, completion, writer>>

StopSignalsCredit ==
    /\ StopFrom("credit", "notify") /\ respCredit' = TRUE
    /\ StopFrame
    /\ UNCHANGED <<flags, broken, reqRing, reqEvent, reqCredit, respRing, respEvent, pool, completion, writer>>

\* notify_all without completionMutex: a writer that has tested the predicate
\* and is not blocked yet does not hear it.
StopNotifiesWriter ==
    /\ StopFrom("notify", "joinWriter") /\ NotifyWriter
    /\ StopFrame /\ UNCHANGED <<flags, shm, pool, completion>>

StopJoinsWriter ==
    /\ StopFrom("joinWriter", "failPending") /\ writer.pc = "exit"
    /\ StopFrame /\ UNCHANGED <<flags, shm, pool, completion, writer>>

\* FailPendingCompletionItems(PeerDisconnected).
FailPendingCompletionItems ==
    /\ StopFrom("failPending", "wakeDispatcher")
    /\ completions' = <<>> /\ pending' = 0
    /\ done' = [i \in Items |-> IF \E n \in DOMAIN completions : completions[n] = i
                                  THEN "PeerDisconnected" ELSE done[i]]
    /\ StopFrame /\ UNCHANGED <<flags, shm, pool, writer>>

StopWakesDispatcher ==
    /\ StopFrom("wakeDispatcher", "joinDispatcher") /\ reqEvent' = [k \in Kinds |-> TRUE]
    /\ StopFrame
    /\ UNCHANGED <<flags, broken, reqRing, reqCredit, respRing, respEvent, respCredit, pool, completion, writer>>

\* Mutant: the dispatcher is not joined.
StopJoinsDispatcher_NoJoin ==
    /\ StopFrom("joinDispatcher", "stopHigh")
    /\ StopFrame /\ UNCHANGED <<flags, shm, pool, completion, writer>>

StopJoinsDispatcher ==
    /\ StopFrom("joinDispatcher", "stopHigh") /\ disp.pc = "exit"
    /\ StopFrame /\ UNCHANGED <<flags, shm, pool, completion, writer>>

\* ThreadPoolExecutor::Stop of the high, then of the normal executor.
StopExecutor ==
    /\ \/ StopFrom("stopHigh", "joinHigh") /\ pool' = [pool EXCEPT !["High"].open = FALSE]
       \/ StopFrom("stopNormal", "joinNormal") /\ pool' = [pool EXCEPT !["Normal"].open = FALSE]
    /\ StopFrame /\ UNCHANGED <<flags, shm, completion, writer>>

StopJoinsExecutor ==
    /\ \/ StopFrom("joinHigh", "stopNormal") /\ \A w \in HighWorkers : task[w].pc = "exit"
       \/ StopFrom("joinNormal", "waitTasks") /\ \A w \in NormalWorkers : task[w].pc = "exit"
    /\ StopFrame /\ UNCHANGED <<flags, shm, pool, completion, writer>>

\* WaitForSubmittedTasks, then session.Reset().
StopResetsSession ==
    /\ StopFrom("waitTasks", "done") /\ tokens = 0 /\ mapped' = FALSE
    /\ StopFrame /\ UNCHANGED <<running, writerRunning, shm, pool, completion, writer>>

\* The asynchronous shutdown did not finish within STOP_TIMEOUT: _Exit.
StopTimesOut ==
    /\ stop \notin {"idle", "break", "flag", "done", "exited"} /\ stop' = "exited"
    /\ StopFrame /\ UNCHANGED <<flags, shm, pool, completion, writer>>

StopSteps ==
    \/ StopBreaksSession \/ StopWriterFlag \/ StopSignalsCredit \/ StopNotifiesWriter
    \/ StopJoinsWriter \/ FailPendingCompletionItems \/ StopWakesDispatcher
    \/ StopJoinsDispatcher \/ StopExecutor \/ StopJoinsExecutor \/ StopResetsSession

-----------------------------------------------------------------------------
(* The client's side of the shared memory.                                  *)

ClientFrame == UNCHANGED <<load, flags, broken, disp, execution, completion, writer, pub, stop>>
SubmitFrame == ClientFrame /\ UNCHANGED <<respRing, respEvent, respCredit, crs, received>>
ResponseFrame == ClientFrame /\ UNCHANGED <<reqRing, reqEvent, reqCredit, cli, pushed>>

\* TryPushRequest of the next request: PushRequest on an Alive session.  On a
\* broken one the client leaves this session, which ends the story told here.
SubmitTakes ==
    /\ cli.pc = "idle" /\ Cardinality(pushed) < Len(load.requests)
    /\ cli' = [pc |-> "push", req |-> load.requests[Cardinality(pushed) + 1]]
    /\ SubmitFrame /\ UNCHANGED <<reqRing, reqEvent, reqCredit, pushed>>

PushRequest ==
    LET k == KindOf(cli.req) IN
    /\ cli.pc = "push"
    /\ \/ broken /\ cli' = [cli EXCEPT !.pc = "gone"] /\ UNCHANGED reqRing
       \/ /\ ~broken /\ Len(reqRing[k]) >= RequestRingSize
          /\ cli' = [cli EXCEPT !.pc = "wait"] /\ UNCHANGED reqRing
       \/ /\ ~broken /\ Len(reqRing[k]) < RequestRingSize
          /\ reqRing' = [reqRing EXCEPT ![k] = Append(@, cli.req)]
          /\ cli' = [cli EXCEPT !.pc = "pushed"]
    /\ SubmitFrame /\ UNCHANGED <<reqEvent, reqCredit, pushed>>

PushRequestRecheck ==
    /\ cli.pc = "pushed"
    /\ \/ broken /\ cli' = [cli EXCEPT !.pc = "gone"] /\ UNCHANGED pushed
       \/ ~broken /\ cli' = [cli EXCEPT !.pc = "signal"] /\ pushed' = pushed \cup {cli.req}
    /\ SubmitFrame /\ UNCHANGED <<reqRing, reqEvent, reqCredit>>

\* RingCountIsOneAfterPush: only the push that found the ring empty signals.
SignalRequest ==
    LET k == KindOf(cli.req) IN
    /\ cli.pc = "signal" /\ cli' = [pc |-> "idle", req |-> NoItem]
    /\ reqEvent' = [reqEvent EXCEPT ![k] = @ \/ Len(reqRing[k]) = 1]
    /\ SubmitFrame /\ UNCHANGED <<reqRing, reqCredit, pushed>>

WaitForRequestCredit ==
    /\ cli.pc = "wait" /\ reqCredit /\ reqCredit' = FALSE /\ cli' = [cli EXCEPT !.pc = "push"]
    /\ SubmitFrame /\ UNCHANGED <<reqRing, reqEvent, pushed>>

Submitter ==
    SubmitTakes \/ PushRequest \/ PushRequestRecheck \/ SignalRequest \/ WaitForRequestCredit

\* DrainResponseRing: the test whether the ring is full ...
CountResponses ==
    /\ crs.pc = "count"
    /\ crs' = [pc |-> "pop", full |-> Len(respRing) = ResponseRingSize]
    /\ ResponseFrame /\ UNCHANGED <<respRing, respEvent, respCredit, received>>

\* ... then PopResponse ...
PopResponse ==
    /\ crs.pc = "pop"
    /\ IF ~broken /\ respRing # <<>>
         THEN /\ respRing' = Tail(respRing) /\ received' = received \cup {Head(respRing)}
              /\ crs' = [crs EXCEPT !.pc = "popped"]
         ELSE crs' = [pc |-> "poll", full |-> FALSE] /\ UNCHANGED <<respRing, received>>
    /\ ResponseFrame /\ UNCHANGED <<respEvent, respCredit>>

\* ... then the credit.
SignalResponseCredit ==
    /\ crs.pc = "popped" /\ respCredit' = (respCredit \/ crs.full)
    /\ crs' = [pc |-> "count", full |-> FALSE]
    /\ ResponseFrame /\ UNCHANGED <<respRing, respEvent, received>>

\* WaitForResponseSignal: the eventfd, or 100 ms.
WaitForResponseSignal ==
    /\ crs.pc = "poll" /\ respEvent' = FALSE /\ crs' = [pc |-> "count", full |-> FALSE]
    /\ ResponseFrame /\ UNCHANGED <<respRing, respCredit, received>>

Receiver == CountResponses \/ PopResponse \/ SignalResponseCredit \/ WaitForResponseSignal

-----------------------------------------------------------------------------

Server ==
    /\ stop # "exited"
    /\ \/ Dispatcher \/ (\E w \in Workers : Worker(w)) \/ Writer \/ Publisher
       \/ StopBegins \/ StopSteps \/ StopTimesOut

Next == Server \/ Submitter \/ Receiver

Spec == Init /\ [][Next]_vars

\* Every thread keeps running and handlers return.  Nothing is assumed of when
\* PublishEvent and Stop are called, nor that STOP_TIMEOUT ever passes.
FairSpec ==
    /\ Spec
    /\ WF_vars(stop # "exited" /\ Dispatcher)
    /\ \A w \in Workers : WF_vars(stop # "exited" /\ Worker(w))
    /\ WF_vars(stop # "exited" /\ Writer)
    /\ WF_vars(stop # "exited" /\ StopSteps)
    /\ WF_vars(Submitter) /\ WF_vars(Receiver)

-----------------------------------------------------------------------------
(* Properties.                                                              *)

\* The values each variable may take.
TypeOK ==
    /\ running \in BOOLEAN /\ writerRunning \in BOOLEAN /\ mapped \in BOOLEAN /\ broken \in BOOLEAN
    /\ reqRing \in [Kinds -> Seq(Requests)] /\ reqEvent \in [Kinds -> BOOLEAN]
    /\ reqCredit \in BOOLEAN /\ respRing \in Seq(Items)
    /\ respEvent \in BOOLEAN /\ respCredit \in BOOLEAN
    /\ disp \in [pc : {"loop", "drain", "popped", "drained", "backlog", "spin", "poll", "exit"},
                 kind : Kinds, from : {"loop", "poll"}, req : Requests \cup {NoItem},
                 freed : BOOLEAN, drained : BOOLEAN, high : BOOLEAN, ready : SUBSET Kinds]
    /\ pool \in [Kinds -> [open : BOOLEAN, queue : Seq(Requests)]]
    /\ task \in [Workers -> [pc : {"idle", "run", "await", "refused", "exit"},
                             req : Requests \cup {NoItem}]]
    /\ tokens \in Nat /\ completions \in Seq(Items) /\ pending \in Nat
    /\ done \in [Items -> {"none", "Ok", "PeerDisconnected", "QueueFull"}]
    /\ writer \in [pc : {"test", "blocking", "blocked", "push", "pushed", "credit", "creditPoll",
                         "finish", "complete", "account", "exit"},
                   item : Items \cup {NoItem}, status : {"Ok", "PeerDisconnected", "QueueFull"}]
    /\ pub \in [pc : {"idle", "enqueue", "await"}, count : 0 .. load.events]
    /\ stop \in {"idle", "break", "flag", "credit", "notify", "joinWriter", "failPending",
                 "wakeDispatcher", "joinDispatcher", "stopHigh", "joinHigh", "stopNormal",
                 "joinNormal", "waitTasks", "done", "exited"}
    /\ cli \in [pc : {"idle", "push", "pushed", "signal", "wait", "gone"}, req : Requests \cup {NoItem}]
    /\ crs \in [pc : {"count", "pop", "popped", "poll"}, full : BOOLEAN]
    /\ pushed \subseteq Requests /\ received \subseteq Items

InSeq(x, s) == \E n \in DOMAIN s : s[n] = x

\* The places a request passes through on its way to the client.
Places(r) ==
    {p \in {"ring", "dispatcher", "executor", "handler", "completion", "writer", "response", "client"} :
        CASE p = "ring" -> InSeq(r, reqRing[KindOf(r)])
          [] p = "dispatcher" -> disp.req = r
          [] p = "executor" -> InSeq(r, pool[KindOf(r)].queue)
          [] p = "handler" -> \E w \in Workers : task[w].req = r /\ task[w].pc \in {"run", "refused"}
          [] p = "completion" -> InSeq(r, completions)
          [] p = "writer" -> /\ writer.item = r
                             /\ \/ writer.pc \in {"push", "credit", "creditPoll"}
                                \/ writer.pc = "finish" /\ writer.status # "Ok"
          [] p = "response" -> InSeq(r, respRing)
          [] p = "client" -> r \in received}

\* As long as the session is Alive a published request is in exactly one place
\* of the pipeline: DrainQueue, the executors, the completion queue and the
\* writer neither drop a request nor answer it twice.
RequestsAreConserved == ~broken => \A r \in pushed : Cardinality(Places(r)) = 1

WriterHolds == writer.pc \in {"push", "pushed", "credit", "creditPoll", "finish", "complete", "account"}

\* pendingCompletionCount counts the queued completions and the one the writer
\* is busy with, and never exceeds the capacity, also across Stop.
CompletionsAreCounted ==
    /\ pending = Len(completions) + (IF WriterHolds THEN 1 ELSE 0)
    /\ pending <= CompletionQueueCapacity

\* Somebody will still look at completionQueue: the writer, or the
\* FailPendingCompletionItems that follows its exit.
QueueIsServed == writer.pc # "exit" \/ stop \in {"credit", "notify", "joinWriter", "failPending", "exited"}

\* A thread that waits for its CompletionState is never forgotten: the item is
\* completed, in the writer's hands, or in a queue that will still be served,
\* however EnqueueCompletion races StopResponseWriter.
NoStrandedCompletion ==
    \A i \in Items :
        (\E w \in Workers : task[w].pc = "await" /\ task[w].req = i) \/ (pub.pc = "await" /\ i = Event) =>
            done[i] # "none" \/ (InSeq(i, completions) /\ QueueIsServed) \/ (WriterHolds /\ writer.item = i)

\* session.Reset() unmaps the memory only when no thread of the server uses it
\* any more.
ResetAfterLastUse ==
    ~mapped => /\ disp.pc = "exit" /\ writer.pc = "exit"
               /\ \A w \in Workers : task[w].pc = "exit"
               /\ completions = <<>> /\ \A k \in Kinds : pool[k].queue = <<>>

\* The submit worker waits for a request credit only while its ring is full, or
\* the credit is there, or DrainQueue still has to signal it.
NoLostRequestCredit ==
    cli.pc = "wait" /\ ~broken =>
        \/ reqCredit \/ Len(reqRing[KindOf(cli.req)]) = RequestRingSize
        \/ /\ disp.kind = KindOf(cli.req)
           /\ \/ disp.pc \in {"drain", "popped", "drained"} /\ disp.freed
              \/ disp.pc = "popped" /\ Len(reqRing[disp.kind]) + 1 = RequestRingSize

\* No wakeup is missed on either side.  The dispatcher sleeps in poll on a request ring
\* that is not empty, and the client's response worker on a response ring that is not
\* empty, only if the eventfd is readable or the pusher is about to signal it.
NoMissedSignal ==
    ~broken =>
        /\ \A k \in Kinds : disp.pc = "poll" /\ reqRing[k] # <<>> =>
               reqEvent[k] \/ (cli.pc \in {"pushed", "signal"} /\ KindOf(cli.req) = k)
        /\ crs.pc = "poll" /\ respRing # <<>> =>
               respEvent \/ writer.pc = "pushed" \/ (writer.pc = "finish" /\ writer.status = "Ok")

\* Every request the application has queued is pushed and answered, however full the
\* rings are on the way, or the session is broken.
RequestsComplete == <>(\A i \in DOMAIN load.requests : load.requests[i] \in received \/ broken)

\* The writer sleeps on completionCv although it has been told to stop.
WriterMissedStop == writer.pc = "blocked" /\ stop = "joinWriter"

\* Stop() returns whatever the other threads are doing, or the one wakeup that
\* StopResponseWriter can lose is lost and STOP_TIMEOUT has to end the process.
StopReturns == stop = "break" ~> stop \in {"done", "exited"} \/ WriterMissedStop

-----------------------------------------------------------------------------
(* What documents say and the code does not do.                             *)

\* material.md: Stop wakes everybody and waits until every thread has finished.
StopWakesWriter == ~WriterMissedStop

\* docs/document.md: a full response ring blocks the writer, and the client
\* tells it to go on when it has consumed.
ResponseCreditArrives ==
    writer.pc = "creditPoll" /\ ~broken =>
        respCredit \/ Len(respRing) = ResponseRingSize \/ (crs.pc = "popped" /\ crs.full)

\* rpc_server.h: completionQueueCapacity is how many completions may be
\* outstanding; a reply is refused only when that many are.
RefusedOnlyWhenFull ==
    [][\A w \in Workers :
          task[w].pc = "run" /\ task'[w].pc = "refused" /\ writerRunning =>
              Cardinality({i \in Items : InSeq(i, completions)
                                         \/ (writer.item = i /\ writer.pc # "account")})
                  >= CompletionQueueCapacity]_vars

=============================================================================
