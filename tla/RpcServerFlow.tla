---------------------------- MODULE RpcServerFlow ----------------------------
(***************************************************************************)
(* The way of a request through RpcServer, for every workload, every       *)
(* capacity and any number of executor threads: as long as the session is  *)
(* alive none is lost, duplicated or answered twice, and a thread that     *)
(* waits for its completion is always served.                              *)
(*                                                                         *)
(* The argument follows a request from place to place.  A queue has it at  *)
(* most once and no two places have it at the same time, so the step that  *)
(* takes it out of one place and puts it into the next leaves it in just   *)
(* one; and no two threads wait for the completion of the same item.       *)
(***************************************************************************)
EXTENDS RpcServerProofs

-----------------------------------------------------------------------------
(* Where a request is.                                                      *)

Stages == {"ring", "dispatcher", "executor", "handler", "completion", "writer", "response", "client"}

InRing(r) == InSeq(r, reqRing[KindOf(r)])
InDispatcher(r) == disp.req = r
InExecutor(r) == InSeq(r, pool[KindOf(r)].queue)
InHandler(r) == \E w \in Workers : task[w].req = r /\ task[w].pc \in {"run", "refused"}
InCompletions(r) == InSeq(r, completions)
InWriter(r) ==
    /\ writer.item = r
    /\ writer.pc \in {"push", "credit", "creditPoll"} \/ (writer.pc = "finish" /\ writer.status = "QueueFull")
InResponses(r) == InSeq(r, respRing)
InClient(r) == r \in received

\* The places of Places(r), except that the writer has let go of a response it gives up
\* because the session is broken.
At(p, r) ==
    \/ (p = "ring" /\ InRing(r)) \/ (p = "dispatcher" /\ InDispatcher(r))
    \/ (p = "executor" /\ InExecutor(r)) \/ (p = "handler" /\ InHandler(r))
    \/ (p = "completion" /\ InCompletions(r)) \/ (p = "writer" /\ InWriter(r))
    \/ (p = "response" /\ InResponses(r)) \/ (p = "client" /\ InClient(r))

Once(r, s) == \A i, j \in DOMAIN s : s[i] = r /\ s[j] = r => i = j

\* The requests in shared memory, or that have been there.
Published == pushed \cup {r \in {cli.req} : cli.pc \in {"pushed", "gone"}}

\* The client pushes the requests in their order.
SubmitInv ==
    /\ Cardinality(pushed) <= Len(load.requests)
    /\ pushed = {load.requests[j] : j \in 1 .. Cardinality(pushed)}
    /\ cli.pc \in {"push", "wait", "pushed"} =>
           /\ Cardinality(pushed) < Len(load.requests)
           /\ cli.req = load.requests[Cardinality(pushed) + 1]
    /\ cli.pc = "gone" => broken

\* A ring and an executor have the requests of their priority, and the dispatcher pops
\* a request only for an executor that will take it.
KindInv ==
    /\ \A k \in Kinds, r \in Requests : InSeq(r, reqRing[k]) \/ InSeq(r, pool[k].queue) => KindOf(r) = k
    /\ disp.pc # "popped" => disp.req = NoItem
    /\ disp.pc = "popped" => KindOf(disp.req) = disp.kind /\ HasCapacity(disp.kind)

\* The writer gives up as PeerDisconnected only on a broken session, and leaves no
\* completion behind.
WriterInv ==
    /\ stop \notin {"idle", "break"} \/ ~writerRunning => broken
    /\ writer.pc = "finish" /\ writer.status = "PeerDisconnected" => broken
    /\ writer.pc = "exit" => completions = <<>>

\* No request is twice in a queue, or with two executor threads.
OnceInv ==
    /\ \A r \in Requests :
          /\ \A k \in Kinds : Once(r, reqRing[k]) /\ Once(r, pool[k].queue)
          /\ Once(r, completions) /\ Once(r, respRing)
          /\ \A v, w \in Workers : task[v].req = r /\ task[w].req = r => v = w
    /\ \A w \in Workers : ~Busy(w) => task[w].req = NoItem

\* A request is in at most one place, and behind the thread that waits for its reply to
\* be written.
PlaceInv ==
    \A r \in Requests :
        /\ \A p, q \in Stages : At(p, r) /\ At(q, r) => p = q
        /\ \A w \in Workers : task[w].pc = "await" /\ task[w].req = r =>
               \A p \in Stages : At(p, r) => p \in {"completion", "writer", "response", "client"}

\* What is anywhere has been pushed, and what has been pushed is somewhere unless the
\* session is broken.
KnownInv ==
    /\ \A r \in Requests : (\E p \in Stages : At(p, r)) \/ (\E w \in Workers : task[w].req = r) => r \in Published
    /\ ~broken => \A r \in Published : \E p \in Stages : At(p, r)

Awaited(i) == (\E w \in Workers : task[w].pc = "await" /\ task[w].req = i) \/ (pub.pc = "await" /\ i = Event)

Served(i) == done[i] # "none" \/ InSeq(i, completions) \/ (WriterHolds /\ writer.item = i /\ writer.pc # "account")

\* Who waits for a completion finds it done, queued, or with a writer that will still
\* complete it.
ServedInv == \A i \in Items : Awaited(i) => Served(i)

ConservedInv == KindInv /\ WriterInv /\ SubmitInv /\ OnceInv /\ PlaceInv /\ KnownInv

-----------------------------------------------------------------------------
(* Queues.                                                                  *)

\* What a push adds to a queue.
LEMMA InSeqAppend ==
    ASSUME NEW S, NEW s \in Seq(S), NEW x \in S, NEW r
    PROVE /\ InSeq(r, Append(s, x)) <=> InSeq(r, s) \/ r = x
          /\ Once(r, s) /\ (r = x => ~InSeq(r, s)) => Once(r, Append(s, x))
<1> DEFINE a == Append(s, x)
<1>1. a \in Seq(S) /\ Len(s) \in Nat /\ Len(a) = Len(s) + 1 /\ DOMAIN a = 1 .. Len(a) /\ DOMAIN s = 1 .. Len(s)
    OBVIOUS
<1>2. (\A i \in 1 .. Len(s) : a[i] = s[i]) /\ a[Len(s) + 1] = x
    OBVIOUS
<1> HIDE DEF a
<1>3. \A i \in 1 .. Len(a) : i \in 1 .. Len(s) \/ i = Len(s) + 1
    BY <1>1, SMT, Z3
<1>4. 1 .. Len(s) \subseteq 1 .. Len(a) /\ Len(s) + 1 \in 1 .. Len(a)
    BY <1>1
<1>5. InSeq(r, a) <=> InSeq(r, s) \/ r = x
    BY <1>1, <1>2, <1>3, <1>4, Zenon DEF InSeq
<1>6. ASSUME Once(r, s), r = x => ~InSeq(r, s) PROVE Once(r, a)
    BY <1>1, <1>2, <1>3, <1>6, Zenon DEF Once, InSeq
<1> QED
    BY <1>5, <1>6, Zenon DEF a

\* What a pop takes from a queue.
LEMMA InSeqTail ==
    ASSUME NEW S, NEW s \in Seq(S), s # <<>>, NEW r
    PROVE /\ Tail(s) \in Seq(S) /\ Head(s) \in S /\ InSeq(Head(s), s)
          /\ InSeq(r, Tail(s)) => InSeq(r, s)
          /\ InSeq(r, s) => InSeq(r, Tail(s)) \/ r = Head(s)
          /\ Once(r, s) => Once(r, Tail(s))
          /\ Once(r, s) /\ r = Head(s) => ~InSeq(r, Tail(s))
<1> DEFINE t == Tail(s)
<1>1. /\ t \in Seq(S) /\ Head(s) \in S /\ Len(s) \in Nat /\ Len(s) > 0 /\ Len(t) = Len(s) - 1
      /\ DOMAIN t = 1 .. Len(t) /\ DOMAIN s = 1 .. Len(s)
    OBVIOUS
<1>2. (\A i \in 1 .. Len(t) : t[i] = s[i + 1]) /\ Head(s) = s[1]
    OBVIOUS
<1> HIDE DEF t
<1>3. (\A i \in 1 .. Len(t) : i + 1 \in 1 .. Len(s) /\ i + 1 # 1) /\ 1 \in 1 .. Len(s)
    BY <1>1, SMT, Z3
<1>4. \A i, j \in 1 .. Len(t) : i + 1 = j + 1 => i = j
    BY <1>1, SMT, Z3
<1>5. InSeq(Head(s), s) /\ (InSeq(r, t) => InSeq(r, s))
    BY <1>1, <1>2, <1>3, Zenon DEF InSeq
<1>6. ASSUME InSeq(r, s), r # Head(s) PROVE InSeq(r, t)
  <2>1. PICK i \in 1 .. Len(s) : s[i] = r
    BY <1>1, <1>6, Zenon DEF InSeq
  <2>2. i # 1
    BY <1>2, <1>6, <2>1, Zenon
  <2>3. i - 1 \in 1 .. Len(t) /\ (i - 1) + 1 = i
    BY <1>1, <2>2, SMT, Z3
  <2>4. t[i - 1] = r
    BY <1>2, <2>1, <2>3, Zenon
  <2> QED
    BY <1>1, <2>3, <2>4, Zenon DEF InSeq
<1>7. ASSUME Once(r, s), NEW i \in 1 .. Len(t), NEW j \in 1 .. Len(t), t[i] = r, t[j] = r PROVE i = j
  <2>1. i + 1 \in 1 .. Len(s) /\ j + 1 \in 1 .. Len(s) /\ s[i + 1] = r /\ s[j + 1] = r
    BY <1>2, <1>3, <1>7, Zenon
  <2>2. i + 1 = j + 1
    BY <1>1, <1>7, <2>1, Zenon DEF Once
  <2> QED
    BY <1>4, <2>2, Zenon
<1>8. ASSUME Once(r, s), r = Head(s), InSeq(r, t) PROVE FALSE
  <2>1. PICK i \in 1 .. Len(t) : t[i] = r
    BY <1>1, <1>8, Zenon DEF InSeq
  <2>2. s[i + 1] = r /\ s[1] = r /\ i + 1 \in 1 .. Len(s) /\ 1 \in 1 .. Len(s) /\ i + 1 # 1
    BY <1>2, <1>3, <1>8, <2>1, Zenon
  <2> QED
    BY <1>1, <1>8, <2>2, Zenon DEF Once
<1> QED
    BY <1>1, <1>5, <1>6, <1>7, <1>8, Zenon DEF Once, t

-----------------------------------------------------------------------------
(* Priorities and capacity.                                                 *)

\* What a step of the dispatcher does with the request in its hands.
LEMMA DispatcherHand ==
    ASSUME Types, KindInv, Dispatcher
    PROVE \/ /\ disp.pc = "drain" /\ disp'.pc = "popped" /\ disp'.kind = disp.kind /\ disp.kind \in Kinds
             /\ HasCapacity(disp.kind) /\ reqRing[disp.kind] # <<>> /\ disp'.req = Head(reqRing[disp.kind])
             /\ reqRing' = [reqRing EXCEPT ![disp.kind] = Tail(@)] /\ pool' = pool
          \/ /\ disp.pc = "popped" /\ disp'.pc = "drain" /\ disp'.req = NoItem /\ disp.kind \in Kinds
             /\ HasCapacity(disp.kind) /\ disp.req \in Requests
             /\ pool' = [pool EXCEPT ![disp.kind].queue = Append(@, disp.req)] /\ reqRing' = reqRing
          \/ disp.pc # "popped" /\ disp'.pc # "popped" /\ disp'.req = NoItem /\ UNCHANGED <<reqRing, pool>>
<1>0. disp \in DispatcherStates /\ (disp.pc = "popped" => disp.req \in Requests) /\ disp.kind \in Kinds
    BY Zenon DEF Types, DispatcherTypes, DispatcherStates
<1>1. disp.pc # "popped" => disp.req = NoItem
    BY Zenon DEF KindInv
<1>2. DispatcherTop.pc = "loop" /\ DispatcherTop.req = NoItem
    BY Zenon DEF DispatcherTop
<1>3. \A b : [DispatcherTop EXCEPT !.pc = "backlog", !.high = b].pc = "backlog"
             /\ [DispatcherTop EXCEPT !.pc = "backlog", !.high = b].req = NoItem
    BY Zenon DEF DispatcherTop
<1>4. \A d \in DispatcherStates : \A k, from : Drain(d, k, from).pc = "drain" /\ Drain(d, k, from).req = d.req
    BY Zenon DEF Drain, DispatcherStates
<1>5. CASE DispatcherLoop \/ HandleBackloggedQueues \/ SpinForRingActivity
  <2>1. disp.pc # "popped" /\ UNCHANGED <<reqRing, pool>>
    BY <1>5, Zenon DEF DispatcherLoop, HandleBackloggedQueues, SpinForRingActivity, DispatcherOnly, execution
  <2>2. \/ disp' = Drain(disp, "High", "loop") \/ disp' = DispatcherTop
        \/ disp' = [disp EXCEPT !.pc = "exit"] \/ disp' = [disp EXCEPT !.pc = "spin"]
        \/ disp' = [disp EXCEPT !.pc = "poll"]
    BY <1>5, Zenon DEF DispatcherLoop, HandleBackloggedQueues, SpinForRingActivity
  <2>3. disp.req = NoItem
    BY <1>1, <2>1, Zenon
  <2>4. /\ disp'.pc = "drain" \/ disp'.pc = "loop" \/ disp'.pc = "exit" \/ disp'.pc = "spin" \/ disp'.pc = "poll"
        /\ disp'.req = NoItem
    BY <1>0, <1>2, <1>4, <2>2, <2>3, SMT, Z3 DEF DispatcherStates
  <2>5. disp'.pc # "popped"
    BY <2>4, Zenon
  <2> QED
    BY <2>1, <2>4, <2>5, Zenon
<1>6. CASE DrainPop
  <2>1. disp.pc = "drain" /\ pool' = pool
    BY <1>6, Zenon DEF DrainPop, execution
  <2>2. \/ /\ disp' = [disp EXCEPT !.pc = "popped", !.drained = TRUE, !.req = Head(reqRing[disp.kind])]
           /\ HasCapacity(disp.kind) /\ reqRing[disp.kind] # <<>>
           /\ reqRing' = [reqRing EXCEPT ![disp.kind] = Tail(@)]
        \/ disp' = [disp EXCEPT !.pc = "drained"] /\ reqRing' = reqRing
    BY <1>6, Zenon DEF DrainPop, DispatcherGoto
  <2> QED
    BY <1>0, <1>1, <2>1, <2>2, Zenon DEF DispatcherStates
<1>7. CASE DrainSubmit
  <2>1. /\ disp.pc = "popped" /\ reqRing' = reqRing
        /\ disp' = [disp EXCEPT !.pc = "drain", !.req = NoItem,
                                !.freed = @ \/ Len(reqRing[disp.kind]) + 1 = RequestRingSize]
    BY <1>7, Zenon DEF DrainSubmit
  <2>2. HasCapacity(disp.kind)
    BY <2>1, Zenon DEF KindInv
  <2>3. pool' = [pool EXCEPT ![disp.kind].queue = Append(@, disp.req)]
    BY <1>7, <2>2, Zenon DEF DrainSubmit
  <2>4. disp'.pc = "drain" /\ disp'.req = NoItem
    BY <1>0, <2>1, Zenon DEF DispatcherStates
  <2> QED
    BY <1>0, <2>1, <2>2, <2>3, <2>4, Zenon
<1>8. CASE DrainReturn
  <2> DEFINE d == IF disp.kind = "High" THEN [disp EXCEPT !.high = disp.drained] ELSE disp
  <2>1. disp.pc = "drained" /\ UNCHANGED <<reqRing, pool>>
    BY <1>8, Zenon DEF DrainReturn, execution
  <2>2. d \in DispatcherStates /\ d.req = disp.req
    BY <1>0, Zenon DEF DispatcherStates
  <2>3. \/ disp' = Drain(d, "Normal", "loop") \/ disp' = [DispatcherTop EXCEPT !.pc = "backlog", !.high = d.high]
        \/ disp' = Drain(d, "Normal", "poll") \/ disp' = DispatcherTop
    BY <1>8, Zenon DEF DrainReturn
  <2> HIDE DEF d
  <2>4. disp.pc # "popped"
    BY <2>1, Zenon
  <2>5. d.req = NoItem
    BY <1>1, <2>2, <2>4, Zenon
  <2>6. (disp'.pc = "drain" \/ disp'.pc = "backlog" \/ disp'.pc = "loop") /\ disp'.req = NoItem
    <3>1. CASE disp' = [DispatcherTop EXCEPT !.pc = "backlog", !.high = d.high]
        BY <1>3, <3>1, Zenon
    <3> QED
        BY <1>2, <1>4, <2>2, <2>3, <2>5, <3>1, SMT, Z3
  <2>7. disp'.pc # "popped"
    BY <2>6, Zenon
  <2> QED
    BY <2>1, <2>4, <2>6, <2>7, Zenon
<1>9. CASE DispatcherPoll
  <2> DEFINE d == [disp EXCEPT !.ready = {k \in Kinds : reqEvent[k]}]
  <2>1. disp.pc = "poll" /\ UNCHANGED <<reqRing, pool>>
    BY <1>9, Zenon DEF DispatcherPoll, execution
  <2>2. d \in DispatcherStates /\ d.req = disp.req
    BY <1>0, Zenon DEF DispatcherStates
  <2>3. disp' = Drain(d, "High", "poll") \/ disp' = Drain(d, "Normal", "poll") \/ disp' = DispatcherTop
    BY <1>9, Zenon DEF DispatcherPoll
  <2> HIDE DEF d
  <2>4. disp.pc # "popped"
    BY <2>1, Zenon
  <2>5. d.req = NoItem
    BY <1>1, <2>2, <2>4, Zenon
  <2>6. (disp'.pc = "drain" \/ disp'.pc = "loop") /\ disp'.req = NoItem
    BY <1>2, <1>4, <2>2, <2>3, <2>5, SMT, Z3
  <2>7. disp'.pc # "popped"
    BY <2>6, Zenon
  <2> QED
    BY <2>1, <2>4, <2>6, <2>7, Zenon
<1> QED
    BY <1>5, <1>6, <1>7, <1>8, <1>9, Zenon DEF Dispatcher

\* The queues of the executors change at one place: a task is appended or taken.
LEMMA PoolChange ==
    ASSUME Types, NEW k \in Kinds, NEW q \in Seq(Requests), pool' = [pool EXCEPT ![k].queue = q]
    PROVE /\ pool'[k].queue = q /\ pool'[k].open = pool[k].open
          /\ \A j \in Kinds : j # k => pool'[j] = pool[j]
<1>1. pool \in [Kinds -> [open : BOOLEAN, queue : Seq(Requests)]]
    BY Zenon DEF Types, ExecutorTypes
<1> QED
    BY <1>1, Zenon

\* A ring changes at one place.
LEMMA RingChange ==
    ASSUME Types, NEW k \in Kinds, NEW q, reqRing' = [reqRing EXCEPT ![k] = q]
    PROVE reqRing'[k] = q /\ \A j \in Kinds : j # k => reqRing'[j] = reqRing[j]
<1>1. reqRing \in [Kinds -> Seq(Requests)]
    BY Zenon DEF Types, RingTypes
<1> QED
    BY <1>1, Zenon

\* A priority is one of the two, and an executor is of one of them.
LEMMA KindsOf == (\A r : KindOf(r) \in Kinds) /\ (\A w : PoolOf(w) \in Kinds)
    BY Zenon DEF KindOf, PoolOf, Kinds

\* Capacity depends on the executor alone, and a task taken leaves room.
LEMMA CapacityStays ==
    ASSUME Types, NEW k \in Kinds, HasCapacity(k), pool'[k].open = pool[k].open,
           pool'[k].queue = pool[k].queue \/ (pool[k].queue # <<>> /\ pool'[k].queue = Tail(pool[k].queue))
    PROVE HasCapacity(k)'
<1> DEFINE c == Cardinality(IF k = "High" THEN HighWorkers ELSE NormalWorkers)
           q == pool[k].queue
           t == pool'[k].queue
<1>1. c \in Nat
    BY WorkersAssumption, FS_CardinalityType, Zenon
<1>2. q \in Seq(Requests)
    BY Zenon DEF Types, ExecutorTypes
<1>3. t = q \/ (q # <<>> /\ t = Tail(q))
    BY Zenon
<1>4. Len(q) < c /\ pool'[k].open
    BY Zenon DEF HasCapacity
<1> SUFFICES Len(t) < c
    BY <1>4, Zenon DEF HasCapacity
<1> HIDE DEF c, q, t
<1>5. Len(t) = Len(q) \/ Len(t) = Len(q) - 1
    BY <1>2, <1>3, SMT, Z3
<1> QED
    BY <1>1, <1>2, <1>4, <1>5, SMT, Z3

\* Every step keeps the requests of a priority together, and the room for the request
\* that the dispatcher has popped.
LEMMA KindStep ==
    ASSUME Types, StopOrder, KindInv, [Next]_vars
    PROVE KindInv'
<1>0. load' = load
    BY StepIsOfAThread, DispatcherKeeps, WorkerKeeps, WriterKeeps, PublisherKeeps, StopperKeeps, SubmitterKeeps,
       ReceiverKeeps, Zenon DEF vars
<1>1. \A r : KindOf(r)' = KindOf(r)
    BY <1>0, Zenon DEF KindOf
<1>2. \A k \in Kinds : reqRing[k] \in Seq(Requests) /\ pool[k].queue \in Seq(Requests)
    BY Zenon DEF Types, RingTypes, ExecutorTypes
<1> DEFINE Sorted(k) == \A r \in Requests : InSeq(r, reqRing[k]) \/ InSeq(r, pool[k].queue) => KindOf(r) = k
<1>3. \A k \in Kinds : Sorted(k)
    BY Zenon DEF KindInv
<1>4. SUFFICES /\ \A k \in Kinds : Sorted(k)'
               /\ disp'.pc # "popped" => disp'.req = NoItem
               /\ disp'.pc = "popped" => KindOf(disp'.req) = disp'.kind /\ HasCapacity(disp.kind)'
    BY <1>1, Zenon DEF KindInv
<1>5. CASE Dispatcher
  <2> DEFINE k == disp.kind
             q == reqRing[k]
  <2>1. CASE /\ disp'.pc = "popped" /\ disp'.kind = k /\ k \in Kinds
             /\ HasCapacity(k) /\ q # <<>> /\ disp'.req = Head(q)
             /\ reqRing' = [reqRing EXCEPT ![k] = Tail(@)] /\ pool' = pool
    <3>1. reqRing' = [reqRing EXCEPT ![k] = Tail(q)] /\ q \in Seq(Requests) /\ k \in Kinds
        BY <1>2, <2>1, ZenonT(60)
    <3>2. reqRing'[k] = Tail(q) /\ \A j \in Kinds : j # k => reqRing'[j] = reqRing[j]
        BY <3>1, RingChange, Zenon
    <3>3. Head(q) \in Requests /\ InSeq(Head(q), q) /\ \A r : InSeq(r, Tail(q)) => InSeq(r, q)
      <4> HIDE DEF q
      <4> QED
        BY <2>1, <3>1, InSeqTail, Zenon
    <3>4. KindOf(Head(q)) = k
        BY <1>3, <3>1, <3>3, Zenon
    <3>5. \A j \in Kinds : \A r : InSeq(r, reqRing'[j]) => InSeq(r, reqRing[j])
        BY <3>2, <3>3, Zenon
    <3>6. \A j \in Kinds : Sorted(j)'
        BY <1>1, <1>3, <2>1, <3>5, Zenon
    <3>8. KindOf(disp'.req) = disp'.kind /\ HasCapacity(disp.kind)'
        BY <2>1, <3>4, Zenon DEF HasCapacity
    <3> QED
        BY <2>1, <3>6, <3>8, Zenon
  <2>2. CASE /\ disp.pc = "popped" /\ disp'.pc = "drain" /\ disp'.req = NoItem /\ k \in Kinds
             /\ HasCapacity(k) /\ disp.req \in Requests
             /\ pool' = [pool EXCEPT ![k].queue = Append(@, disp.req)] /\ reqRing' = reqRing
    <3> DEFINE s == pool[k].queue
    <3>1. pool' = [pool EXCEPT ![k].queue = Append(s, disp.req)] /\ s \in Seq(Requests) /\ k \in Kinds
        BY <1>2, <2>2, Zenon
    <3>2. Append(s, disp.req) \in Seq(Requests)
        BY <2>2, <3>1, SMT, Z3
    <3>3. pool'[k].queue = Append(s, disp.req) /\ \A j \in Kinds : j # k => pool'[j] = pool[j]
        BY <3>1, <3>2, PoolChange, ZenonT(60)
    <3>4. \A r : InSeq(r, Append(s, disp.req)) <=> InSeq(r, s) \/ r = disp.req
      <4>1. disp.req \in Requests
        BY <2>2, Zenon
      <4> HIDE DEF s
      <4> QED
        BY <3>1, <4>1, InSeqAppend, Zenon
    <3>5. KindOf(disp.req) = k
        BY <2>2, Zenon DEF KindInv
    <3>6. \A j \in Kinds : \A r : InSeq(r, pool'[j].queue) => InSeq(r, pool[j].queue) \/ (r = disp.req /\ j = k)
        BY <3>3, <3>4, Zenon
    <3>7. \A j \in Kinds : Sorted(j)'
        BY <1>1, <1>3, <2>2, <3>5, <3>6, Zenon
    <3>8. disp'.pc # "popped"
        BY <2>2, Zenon
    <3> QED
        BY <2>2, <3>7, <3>8, Zenon
  <2>3. CASE disp'.pc # "popped" /\ disp'.req = NoItem /\ UNCHANGED <<reqRing, pool>>
    BY <1>1, <1>3, <2>3, Zenon
  <2> QED
    BY <1>5, <2>1, <2>2, <2>3, DispatcherHand, Zenon
<1>6. ASSUME NEW w \in Workers, Worker(w)
      PROVE /\ \A k \in Kinds : Sorted(k)' /\ (HasCapacity(k) => HasCapacity(k)')
            /\ disp' = disp
  <2>1. disp' = disp /\ reqRing' = reqRing
    BY <1>6, WorkerKeeps, Zenon
  <2>2. CASE WorkerTake(w)
    <3> DEFINE k == PoolOf(w)
               s == pool[k].queue
    <3>1. s # <<>> /\ pool' = [pool EXCEPT ![k].queue = Tail(s)] /\ s \in Seq(Requests) /\ k \in Kinds
        BY <1>2, <2>2, KindsOf, Zenon DEF WorkerTake
    <3> HIDE DEF k
    <3>2. Tail(s) \in Seq(Requests) /\ \A r : InSeq(r, Tail(s)) => InSeq(r, s)
        BY <3>1, InSeqTail, Zenon
    <3>3. /\ pool'[k].queue = Tail(s) /\ pool'[k].open = pool[k].open
          /\ \A j \in Kinds : j # k => pool'[j] = pool[j]
        BY <3>1, <3>2, PoolChange, Zenon
    <3>4. \A j \in Kinds : \A r : InSeq(r, pool'[j].queue) => InSeq(r, pool[j].queue)
        BY <3>2, <3>3, Zenon
    <3>5. \A j \in Kinds : HasCapacity(j) => HasCapacity(j)'
        BY <3>1, <3>3, CapacityStays, Zenon
    <3> QED
        BY <1>1, <1>3, <2>1, <3>4, <3>5, Zenon
  <2>3. CASE pool' = pool
    BY <1>1, <1>3, <2>1, <2>3, Zenon DEF HasCapacity
  <2> QED
    BY <1>6, <2>2, <2>3, Zenon DEF Worker, WorkerExit, WriteResponse, WriteRefused, AwaitWriteCompletion
<1>7. CASE Stopper
  <2>1. disp' = disp /\ reqRing' = reqRing
    BY <1>7, StopperKeeps, Zenon
  <2>2. CASE StopExecutor
    <3>1. disp.pc = "exit"
        BY <2>2, Zenon DEF StopExecutor, StopFrom, StopOrder, DispatcherJoined, HighJoined
    <3>2. \A k \in Kinds : pool'[k].queue = pool[k].queue
      <4>1. PICK j \in Kinds : pool' = [pool EXCEPT ![j].open = FALSE]
        BY <2>2, Zenon DEF StopExecutor, Kinds
      <4>2. pool \in [Kinds -> [open : BOOLEAN, queue : Seq(Requests)]]
        BY Zenon DEF Types, ExecutorTypes
      <4> QED
        BY <4>1, <4>2, Zenon
    <3>3. disp.pc # "popped" /\ disp.req = NoItem
      <4>1. disp.pc # "popped"
        BY <3>1, Zenon
      <4> QED
        BY <4>1, Zenon DEF KindInv
    <3> QED
        BY <1>1, <1>3, <2>1, <3>2, <3>3, Zenon
  <2>3. CASE pool' = pool
    BY <1>1, <1>3, <2>1, <2>3, Zenon DEF HasCapacity, KindInv
  <2> QED
    BY <1>7, <2>2, <2>3, Zenon DEF Stopper, StopBegins, StopSteps, StopTimesOut, StopBreaksSession, StopWriterFlag, StopSignalsCredit,
        StopNotifiesWriter, StopJoinsWriter, FailPendingCompletionItems, StopWakesDispatcher, StopJoinsDispatcher,
        StopJoinsExecutor, StopResetsSession
<1>8. CASE Submitter
  <2>1. disp' = disp /\ pool' = pool
    BY <1>8, SubmitterKeeps, Zenon
  <2>2. CASE cli.pc = "push" /\ reqRing' = [reqRing EXCEPT ![KindOf(cli.req)] = Append(@, cli.req)]
    <3> DEFINE k == KindOf(cli.req)
               q == reqRing[k]
    <3>1. k \in Kinds /\ q \in Seq(Requests) /\ cli.req \in Requests /\ reqRing' = [reqRing EXCEPT ![k] = Append(q, cli.req)]
        BY <1>2, <2>2, KindsOf, Zenon DEF Types, ClientTypes
    <3>2. reqRing'[k] = Append(q, cli.req) /\ \A j \in Kinds : j # k => reqRing'[j] = reqRing[j]
        BY <3>1, RingChange, Zenon
    <3>3. \A r : InSeq(r, Append(q, cli.req)) <=> InSeq(r, q) \/ r = cli.req
        BY <3>1, InSeqAppend, Zenon
    <3>4. \A j \in Kinds : \A r : InSeq(r, reqRing'[j]) => InSeq(r, reqRing[j]) \/ (r = cli.req /\ j = k)
        BY <3>2, <3>3, Zenon
    <3> QED
        BY <1>1, <1>3, <2>1, <3>4, Zenon DEF HasCapacity, KindInv
  <2>3. CASE reqRing' = reqRing
    BY <1>1, <1>3, <2>1, <2>3, Zenon DEF HasCapacity, KindInv
  <2> QED
    BY <1>8, <2>2, <2>3, Zenon DEF Submitter, SubmitTakes, PushRequest, PushRequestRecheck, SignalRequest, WaitForRequestCredit
<1>9. CASE UNCHANGED <<reqRing, disp, pool>>
    BY <1>1, <1>3, <1>9, Zenon DEF HasCapacity, KindInv
<1>10. ASSUME NEW w \in Workers, Worker(w)
       PROVE /\ \A k \in Kinds : Sorted(k)'
             /\ disp'.pc # "popped" => disp'.req = NoItem
             /\ disp'.pc = "popped" => KindOf(disp'.req) = disp'.kind /\ HasCapacity(disp.kind)'
  <2>1. disp' = disp /\ disp.kind \in Kinds /\ \A k \in Kinds : Sorted(k)' /\ (HasCapacity(k) => HasCapacity(k)')
    BY <1>6, <1>10, Zenon DEF Types, DispatcherTypes, DispatcherStates
  <2>2. HasCapacity(disp.kind) => HasCapacity(disp.kind)'
    <3> DEFINE k == disp.kind
    <3>1. k' = k
        BY <2>1, Zenon
    <3> QED
        BY <2>1, <3>1, Zenon DEF HasCapacity
  <2> QED
    BY <2>1, <2>2, Zenon DEF KindInv
<1> QED
    BY <1>5, <1>7, <1>8, <1>9, <1>10, StepIsOfAThread, WriterKeeps, PublisherKeeps, ReceiverKeeps, Zenon DEF vars, shm, execution

-----------------------------------------------------------------------------
(* The writer, the end of the session, and the order of the requests.       *)

WriterStates ==
    [pc : {"test", "blocking", "blocked", "push", "pushed", "credit", "creditPoll",
           "finish", "complete", "account", "exit"},
     item : Items \cup {NoItem}, status : {"Ok", "PeerDisconnected", "QueueFull"}]

\* A wakeup does not touch what the writer has in hand.
LEMMA NotifyKeeps ==
    ASSUME Types, NotifyWriter \/ UNCHANGED writer
    PROVE /\ writer'.item = writer.item /\ writer'.status = writer.status
          /\ writer'.pc = writer.pc \/ (writer.pc = "blocked" /\ writer'.pc = "test")
<1>1. writer \in WriterStates
    BY Zenon DEF Types, CompletionTypes, WriterStates
<1> QED
    BY <1>1, Zenon DEF NotifyWriter, WriterStates

\* An executor thread and PublishEvent touch the completion queue by EnqueueCompletion.
LEMMA EnqueueSteps ==
    /\ \A w \in Workers : Worker(w) =>
          \/ WriteResponse(w) /\ CanEnqueue /\ Enqueue(task[w].req)
          \/ UNCHANGED <<completions, writer>>
    /\ Publisher => (CanEnqueue /\ Enqueue(Event)) \/ UNCHANGED <<completions, writer>>
<1>1. ASSUME NEW w \in Workers, Worker(w)
      PROVE (WriteResponse(w) /\ CanEnqueue /\ Enqueue(task[w].req)) \/ UNCHANGED <<completions, writer>>
    BY <1>1, Zenon DEF Worker, WorkerTake, WorkerExit, WriteResponse, WriteRefused, AwaitWriteCompletion, completion
<1>2. Publisher => (CanEnqueue /\ Enqueue(Event)) \/ UNCHANGED <<completions, writer>>
    BY Zenon DEF Publisher, PublishEvent, PublishEnqueue, PublishReturn, completion
<1> QED
    BY <1>1, <1>2, Zenon

\* What Stop does to the flags, the completions and the writer.
LEMMA StopperEffect ==
    ASSUME Stopper
    PROVE /\ NotifyWriter \/ UNCHANGED writer
          /\ completions' = completions \/ (FailPendingCompletionItems /\ completions' = <<>>)
          /\ \/ stop = "idle" /\ stop' = "break" /\ writerRunning' = writerRunning
             \/ stop = "break" /\ stop' = "flag" /\ broken' = TRUE /\ writerRunning' = writerRunning
             \/ stop \notin {"idle", "break"}
<1> USE Zenon DEF StopFrom
<1>1. NotifyWriter \/ UNCHANGED writer
    BY DEF Stopper, StopBegins, StopSteps, StopTimesOut, StopBreaksSession, StopWriterFlag, StopSignalsCredit,
        StopNotifiesWriter, StopJoinsWriter, FailPendingCompletionItems, StopWakesDispatcher, StopJoinsDispatcher,
        StopExecutor, StopJoinsExecutor, StopResetsSession
<1>2. completions' = completions \/ (FailPendingCompletionItems /\ completions' = <<>>)
    BY DEF Stopper, StopBegins, StopSteps, StopTimesOut, StopBreaksSession, StopWriterFlag, StopSignalsCredit,
        StopNotifiesWriter, StopJoinsWriter, FailPendingCompletionItems, StopWakesDispatcher, StopJoinsDispatcher,
        StopExecutor, StopJoinsExecutor, StopResetsSession, completion
<1>3. \/ stop = "idle" /\ stop' = "break" /\ writerRunning' = writerRunning
      \/ stop = "break" /\ stop' = "flag" /\ broken' = TRUE /\ writerRunning' = writerRunning
      \/ stop \notin {"idle", "break"}
    BY DEF Stopper, StopBegins, StopSteps, StopTimesOut, StopBreaksSession, StopWriterFlag, StopSignalsCredit,
        StopNotifiesWriter, StopJoinsWriter, FailPendingCompletionItems, StopWakesDispatcher, StopJoinsDispatcher,
        StopExecutor, StopJoinsExecutor, StopResetsSession, OnlySessionBroken, MarkSessionBroken, flags
<1> QED
    BY <1>1, <1>2, <1>3

\* What each step of the writer does with the item in its hands.
LEMMA WriterEffect ==
    ASSUME Types, Writer
    PROVE \/ /\ writer.pc = "test" /\ completions # <<>> /\ completions' = Tail(completions) /\ respRing' = respRing
             /\ writer'.pc = "push" /\ writer'.item = Head(completions)
          \/ /\ writer.pc \in {"test", "blocking"} /\ UNCHANGED <<completions, respRing>>
             /\ writer'.pc \in {"blocking", "blocked"} \/ (writer'.pc = "exit" /\ completions = <<>>)
          \/ /\ writer.pc = "push" /\ writer'.pc = "pushed" /\ writer'.item = writer.item
             /\ respRing' = Append(respRing, writer.item) /\ ~broken /\ completions' = completions
          \/ /\ writer.pc \in {"push", "credit", "creditPoll"} /\ writer'.item = writer.item
             /\ UNCHANGED <<completions, respRing>>
             /\ \/ writer'.pc \in {"push", "credit", "creditPoll"}
                \/ writer'.pc = "finish" /\ writer'.status = "QueueFull"
                \/ writer'.pc = "finish" /\ writer'.status = "PeerDisconnected" /\ (broken \/ ~writerRunning)
          \/ /\ writer.pc = "pushed" /\ writer'.pc = "finish" /\ writer'.item = writer.item
             /\ writer'.status \in {"Ok", "PeerDisconnected"} /\ (writer'.status = "PeerDisconnected" => broken)
             /\ UNCHANGED <<completions, respRing>>
          \/ /\ writer.pc = "finish" /\ writer'.pc = "complete" /\ writer'.item = writer.item
             /\ UNCHANGED <<completions, respRing>>
             /\ writer.status # "Ok" /\ writer.item # Event => broken'
          \/ /\ CompleteItem /\ writer'.pc = "account" /\ writer'.item = writer.item /\ UNCHANGED <<completions, respRing>>
          \/ /\ writer.pc = "account" /\ writer'.pc = "test" /\ UNCHANGED <<completions, respRing, done>>
<1>0. writer \in WriterStates
    BY Zenon DEF Types, CompletionTypes, WriterStates
<1>1. CASE WaitAndPopCompletionItem
    BY <1>0, <1>1, ZenonT(60) DEF WaitAndPopCompletionItem, WriterGoto, WriterStates
<1>2. CASE WriterBlocks
    BY <1>0, <1>2, ZenonT(60) DEF WriterBlocks, WriterGoto, WriterStates, WriterOnly, completion
<1>3. CASE PushResponse
    BY <1>0, <1>3, ZenonT(60) DEF PushResponse, WriterGoto, WriterStatus, WriterStates, completion
<1>4. CASE PushResponseRecheck
    BY <1>0, <1>4, ZenonT(60) DEF PushResponseRecheck, WriterGoto, WriterStatus, WriterStates, WriterOnly, completion
<1>5. CASE WaitForResponseCredit
    BY <1>0, <1>5, ZenonT(60) DEF WaitForResponseCredit, WriterGoto, WriterStatus, WriterStates, WriterOnly, completion
<1>6. CASE ResponseCreditPoll
    BY <1>0, <1>6, ZenonT(60) DEF ResponseCreditPoll, WriterGoto, WriterStatus, WriterStates, completion
<1>7. CASE WriterSignal
    BY <1>0, <1>7, ZenonT(60) DEF WriterSignal, WriterGoto, MarkSessionBroken, WriterStates, completion
<1>8. CASE CompleteItem
    BY <1>0, <1>8, ZenonT(60) DEF CompleteItem, WriterGoto, WriterStates
<1>9. CASE OnCompletionItemFinished
  <2>1. writer.pc = "account" /\ writer' = [pc |-> "test", item |-> NoItem, status |-> "Ok"] /\ UNCHANGED <<completions, respRing, done>>
    BY <1>9, Zenon DEF OnCompletionItemFinished
  <2>2. writer'.pc = "test"
    BY <2>1, Zenon
  <2> QED
    BY <2>1, <2>2, Zenon
<1> QED
    BY <1>1, <1>2, <1>3, <1>4, <1>5, <1>6, <1>7, <1>8, <1>9, Zenon DEF Writer

\* Every step preserves what the writer leaves behind.
LEMMA WriterInvStep ==
    ASSUME Types, StopOrder, WriterInv, [Next]_vars
    PROVE WriterInv'
<1>0. broken => broken'
    BY BrokenStays, Zenon
<1>1. writer.pc = "exit" => ~writerRunning
    BY Zenon DEF StopOrder
<1>2. ASSUME UNCHANGED <<stop, writerRunning>>
      PROVE stop' \notin {"idle", "break"} \/ ~writerRunning' => broken'
    BY <1>0, <1>2, Zenon DEF WriterInv
<1>3. ASSUME NEW i, (CanEnqueue /\ Enqueue(i)) \/ UNCHANGED <<completions, writer>>
      PROVE /\ writer'.pc = "finish" /\ writer'.status = "PeerDisconnected" => broken'
            /\ writer'.pc = "exit" => completions' = <<>>
  <2>1. NotifyWriter \/ UNCHANGED writer
    BY <1>3, Zenon DEF Enqueue
  <2>2. /\ writer'.status = writer.status
        /\ writer'.pc = writer.pc \/ (writer.pc = "blocked" /\ writer'.pc = "test")
    BY <2>1, NotifyKeeps, Zenon
  <2>3. writer'.pc = "exit" => writer.pc = "exit"
    BY <2>2, Zenon
  <2>4. writer'.pc = "finish" => writer.pc = "finish"
    BY <2>2, Zenon
  <2>5. writer.pc = "exit" => completions' = completions
    BY <1>1, <1>3, Zenon DEF CanEnqueue
  <2> QED
    BY <1>0, <2>2, <2>3, <2>4, <2>5, Zenon DEF WriterInv
<1>4. ASSUME NEW w \in Workers, Worker(w) PROVE WriterInv'
    BY <1>2, <1>3, <1>4, WorkerKeeps, EnqueueSteps, Zenon DEF WriterInv
<1>5. CASE Publisher
    BY <1>2, <1>3, <1>5, PublisherKeeps, EnqueueSteps, Zenon DEF WriterInv
<1>6. CASE Writer
  <2>1. UNCHANGED <<stop, writerRunning>>
    BY <1>6, WriterKeeps, Zenon
  <2>2. (broken \/ ~writerRunning) => broken'
    BY <1>0, Zenon DEF WriterInv
  <2>3. writer'.pc = "finish" /\ writer'.status = "PeerDisconnected" => broken'
    BY <1>6, <2>2, WriterEffect, ZenonT(60)
  <2>4. writer'.pc = "exit" => completions' = <<>>
    BY <1>6, WriterEffect, ZenonT(60)
  <2> QED
    BY <1>2, <2>1, <2>3, <2>4, Zenon DEF WriterInv
<1>7. CASE Stopper
  <2>1. NotifyWriter \/ UNCHANGED writer
    BY <1>7, StopperEffect, Zenon
  <2>2. /\ writer'.status = writer.status
        /\ writer'.pc = writer.pc \/ (writer.pc = "blocked" /\ writer'.pc = "test")
    BY <2>1, NotifyKeeps, Zenon
  <2>3. writer'.pc = "exit" => writer.pc = "exit"
    BY <2>2, Zenon
  <2>4. writer'.pc = "finish" => writer.pc = "finish"
    BY <2>2, Zenon
  <2>5. completions' = completions \/ completions' = <<>>
    BY <1>7, StopperEffect, Zenon
  <2>6. stop' \notin {"idle", "break"} \/ ~writerRunning' => broken'
    BY <1>0, <1>7, StopperEffect, Zenon DEF WriterInv
  <2> QED
    BY <1>0, <2>2, <2>3, <2>4, <2>5, <2>6, Zenon DEF WriterInv
<1>8. CASE UNCHANGED <<stop, writerRunning, writer, completions>>
    BY <1>0, <1>8, Zenon DEF WriterInv
<1> QED
    BY <1>4, <1>5, <1>6, <1>7, <1>8, StepIsOfAThread, DispatcherKeeps, SubmitterKeeps, ReceiverKeeps, Zenon
    DEF vars, flags, completion

\* What the submit worker does with the request in its hands.
LEMMA SubmitterEffect ==
    ASSUME Types, Submitter
    PROVE \/ /\ cli.pc = "idle" /\ cli'.pc = "push" /\ Cardinality(pushed) < Len(load.requests)
             /\ cli'.req = load.requests[Cardinality(pushed) + 1] /\ UNCHANGED <<reqRing, pushed>>
          \/ /\ cli.pc = "push" /\ cli'.pc = "pushed" /\ cli'.req = cli.req /\ ~broken
             /\ reqRing' = [reqRing EXCEPT ![KindOf(cli.req)] = Append(@, cli.req)] /\ pushed' = pushed
          \/ /\ cli.pc \in {"push", "wait"} /\ cli'.req = cli.req /\ UNCHANGED <<reqRing, pushed>>
             /\ cli'.pc \in {"push", "wait"} \/ (cli'.pc = "gone" /\ broken)
          \/ /\ cli.pc = "pushed" /\ cli'.pc = "gone" /\ broken /\ cli'.req = cli.req /\ UNCHANGED <<reqRing, pushed>>
          \/ /\ cli.pc = "pushed" /\ cli'.pc = "signal" /\ cli'.req = cli.req
             /\ pushed' = pushed \cup {cli.req} /\ reqRing' = reqRing
          \/ /\ cli.pc = "signal" /\ cli'.pc = "idle" /\ UNCHANGED <<reqRing, pushed>>
<1>0. cli \in [pc : {"idle", "push", "pushed", "signal", "wait", "gone"}, req : Requests \cup {NoItem}]
    BY Zenon DEF Types, ClientTypes
<1>1. CASE SubmitTakes
  <2>1. /\ cli.pc = "idle" /\ Cardinality(pushed) < Len(load.requests) /\ UNCHANGED <<reqRing, pushed>>
        /\ cli' = [pc |-> "push", req |-> load.requests[Cardinality(pushed) + 1]]
    BY <1>1, Zenon DEF SubmitTakes
  <2>2. cli'.pc = "push" /\ cli'.req = load.requests[Cardinality(pushed) + 1]
    BY <2>1, Zenon
  <2> QED
    BY <2>1, <2>2, Zenon
<1>2. CASE PushRequest
    BY <1>0, <1>2, ZenonT(60) DEF PushRequest
<1>3. CASE PushRequestRecheck
    BY <1>0, <1>3, ZenonT(60) DEF PushRequestRecheck
<1>4. CASE SignalRequest
  <2>1. cli.pc = "signal" /\ cli' = [pc |-> "idle", req |-> NoItem] /\ UNCHANGED <<reqRing, pushed>>
    BY <1>4, Zenon DEF SignalRequest
  <2>2. cli'.pc = "idle"
    BY <2>1, Zenon
  <2> QED
    BY <2>1, <2>2, Zenon
<1>5. CASE WaitForRequestCredit
    BY <1>0, <1>5, ZenonT(60) DEF WaitForRequestCredit
<1> QED
    BY <1>1, <1>2, <1>3, <1>4, <1>5, Zenon DEF Submitter

\* Requests have different ids, so the next one has not been pushed.
LEMMA NextIsNew ==
    ASSUME Types, SubmitInv, cli.pc \in {"push", "wait", "pushed"}
    PROVE cli.req \notin pushed /\ cli.req \in Requests
<1> DEFINE c == Cardinality(pushed)
<1>1. load \in Workloads /\ load.requests \in Seq(Requests) /\ c \in Nat
    BY WorkloadsAssumption, FS_CardinalityType, Zenon DEF Types, CallerTypes, ClientTypes
<1>2. c < Len(load.requests) /\ cli.req = load.requests[c + 1] /\ pushed = {load.requests[j] : j \in 1 .. c}
    BY Zenon DEF SubmitInv
<1> HIDE DEF c
<1>3. c + 1 \in DOMAIN load.requests /\ \A j \in 1 .. c : j \in DOMAIN load.requests /\ j # c + 1
    BY <1>1, <1>2, SMT, Z3
<1>4. \A j \in 1 .. c : load.requests[j] # load.requests[c + 1]
    BY <1>1, <1>3, RequestIdsAssumption, Zenon
<1>5. cli.req \in Requests
    BY <1>1, <1>2, <1>3, SMT, Z3
<1> QED
    BY <1>2, <1>4, <1>5, Zenon

\* Every step keeps to the order of the requests.
LEMMA SubmitInvStep ==
    ASSUME Types, SubmitInv, [Next]_vars
    PROVE SubmitInv'
<1>0. load' = load
    BY StepIsOfAThread, DispatcherKeeps, WorkerKeeps, WriterKeeps, PublisherKeeps, StopperKeeps, SubmitterKeeps,
       ReceiverKeeps, Zenon DEF vars
<1>1. broken => broken'
    BY BrokenStays, Zenon
<1>2. CASE UNCHANGED <<cli, pushed>>
    BY <1>0, <1>1, <1>2, Zenon DEF SubmitInv
<1>3. CASE Submitter
  <2>1. CASE cli.pc = "pushed" /\ cli'.pc = "signal" /\ cli'.req = cli.req /\ pushed' = pushed \cup {cli.req}
    <3> DEFINE c == Cardinality(pushed)
               s == load.requests
    <3>1. cli.req \notin pushed /\ IsFiniteSet(pushed) /\ c \in Nat
        BY <2>1, NextIsNew, FS_CardinalityType, Zenon DEF Types, ClientTypes
    <3>2. Cardinality(pushed') = c + 1
        BY <2>1, <3>1, FS_AddElement, Zenon
    <3>3. c < Len(s) /\ cli.req = s[c + 1] /\ pushed = {s[j] : j \in 1 .. c}
        BY <2>1, Zenon DEF SubmitInv
    <3>4. s \in Seq(Requests) /\ Len(s) \in Nat
        BY WorkloadsAssumption, SMT, Z3 DEF Types, CallerTypes
    <3> HIDE DEF c, s
    <3>5. c + 1 <= Len(s) /\ c + 1 \in 1 .. c + 1 /\ \A j \in 1 .. c + 1 : j \in 1 .. c \/ j = c + 1
        BY <3>1, <3>3, <3>4, SMT, Z3
    <3>6. 1 .. c \subseteq 1 .. c + 1
        BY <3>1, SMT, Z3
    <3>7. pushed' = {s[j] : j \in 1 .. c + 1}
        BY <2>1, <3>3, <3>5, <3>6, Zenon
    <3>8. cli'.pc \notin {"push", "wait", "pushed", "gone"}
        BY <2>1, Zenon
    <3> QED
        BY <1>0, <3>2, <3>5, <3>7, <3>8, Zenon DEF SubmitInv, s
  <2>2. CASE pushed' = pushed /\ cli'.pc \in {"idle", "push", "pushed", "wait", "gone"}
             /\ (cli'.pc \in {"push", "wait", "pushed"} =>
                    /\ Cardinality(pushed) < Len(load.requests)
                    /\ cli'.req = load.requests[Cardinality(pushed) + 1])
             /\ (cli'.pc = "gone" => broken')
    BY <1>0, <2>2, Zenon DEF SubmitInv
  <2>3. cli.pc \in {"push", "wait", "pushed"} /\ cli'.req = cli.req =>
            Cardinality(pushed) < Len(load.requests) /\ cli'.req = load.requests[Cardinality(pushed) + 1]
    BY Zenon DEF SubmitInv
  <2> QED
    BY <1>1, <1>3, <2>1, <2>2, <2>3, SubmitterEffect, ZenonT(60)
<1> QED
    BY <1>2, <1>3, StepIsOfAThread, DispatcherKeeps, WorkerKeeps, WriterKeeps, PublisherKeeps, StopperKeeps,
       ReceiverKeeps, Zenon DEF vars, client

-----------------------------------------------------------------------------
(* A request moves from place to place.                                     *)

\* The step takes x from place a to place b, and no other request anywhere.
Move(x, a, b) ==
    \A r \in Requests : \A p \in Stages :
        At(p, r)' <=> (r = x /\ p = b) \/ (At(p, r) /\ ~(r = x /\ p = a))

Along == {<<"ring", "dispatcher">>, <<"dispatcher", "executor">>, <<"executor", "handler">>, <<"handler", "completion">>,
          <<"completion", "writer">>, <<"writer", "response">>, <<"response", "client">>}

\* The moves there are: the client's push, one place along the pipeline, and a reply
\* that is lost with the session.
Passage(x, a, b) ==
    x \in Requests =>
        \/ a = "nowhere" /\ b = "ring" /\ x = cli.req /\ cli.pc = "push" /\ cli'.pc = "pushed" /\ cli'.req = cli.req
        \/ At(a, x) /\ <<a, b>> \in Along
        \/ At(a, x) /\ a \in {"handler", "writer"} /\ b = "nowhere" /\ broken'

Moves == \E x, a, b : Move(x, a, b) /\ Passage(x, a, b)

\* A move, place by place.
LEMMA MoveByPlace ==
    ASSUME NEW x, NEW a, NEW b,
           \A r \in Requests :
               /\ InRing(r)' <=> (r = x /\ b = "ring") \/ (InRing(r) /\ ~(r = x /\ a = "ring"))
               /\ InDispatcher(r)' <=> (r = x /\ b = "dispatcher") \/ (InDispatcher(r) /\ ~(r = x /\ a = "dispatcher"))
               /\ InExecutor(r)' <=> (r = x /\ b = "executor") \/ (InExecutor(r) /\ ~(r = x /\ a = "executor"))
               /\ InHandler(r)' <=> (r = x /\ b = "handler") \/ (InHandler(r) /\ ~(r = x /\ a = "handler"))
               /\ InCompletions(r)' <=> (r = x /\ b = "completion") \/ (InCompletions(r) /\ ~(r = x /\ a = "completion"))
               /\ InWriter(r)' <=> (r = x /\ b = "writer") \/ (InWriter(r) /\ ~(r = x /\ a = "writer"))
               /\ InResponses(r)' <=> (r = x /\ b = "response") \/ (InResponses(r) /\ ~(r = x /\ a = "response"))
               /\ InClient(r)' <=> (r = x /\ b = "client") \/ (InClient(r) /\ ~(r = x /\ a = "client"))
    PROVE Move(x, a, b)
<1> SUFFICES ASSUME NEW r \in Requests, NEW p \in Stages
             PROVE At(p, r)' <=> (r = x /\ p = b) \/ (At(p, r) /\ ~(r = x /\ p = a))
    BY Zenon DEF Move
<1>1. CASE p = "ring"
  <2>1. (At(p, r) <=> InRing(r)) /\ (At(p, r)' <=> InRing(r)')
    BY <1>1, Zenon DEF At
  <2> QED
    BY <1>1, <2>1, Zenon
<1>2. CASE p = "dispatcher"
  <2>1. (At(p, r) <=> InDispatcher(r)) /\ (At(p, r)' <=> InDispatcher(r)')
    BY <1>2, Zenon DEF At
  <2> QED
    BY <1>2, <2>1, Zenon
<1>3. CASE p = "executor"
  <2>1. (At(p, r) <=> InExecutor(r)) /\ (At(p, r)' <=> InExecutor(r)')
    BY <1>3, Zenon DEF At
  <2> QED
    BY <1>3, <2>1, Zenon
<1>4. CASE p = "handler"
  <2>1. (At(p, r) <=> InHandler(r)) /\ (At(p, r)' <=> InHandler(r)')
    BY <1>4, Zenon DEF At
  <2> QED
    BY <1>4, <2>1, Zenon
<1>5. CASE p = "completion"
  <2>1. (At(p, r) <=> InCompletions(r)) /\ (At(p, r)' <=> InCompletions(r)')
    BY <1>5, Zenon DEF At
  <2> QED
    BY <1>5, <2>1, Zenon
<1>6. CASE p = "writer"
  <2>1. (At(p, r) <=> InWriter(r)) /\ (At(p, r)' <=> InWriter(r)')
    BY <1>6, Zenon DEF At
  <2> QED
    BY <1>6, <2>1, Zenon
<1>7. CASE p = "response"
  <2>1. (At(p, r) <=> InResponses(r)) /\ (At(p, r)' <=> InResponses(r)')
    BY <1>7, Zenon DEF At
  <2> QED
    BY <1>7, <2>1, Zenon
<1>8. CASE p = "client"
  <2>1. (At(p, r) <=> InClient(r)) /\ (At(p, r)' <=> InClient(r)')
    BY <1>8, Zenon DEF At
  <2> QED
    BY <1>8, <2>1, Zenon
<1> QED
    BY <1>1, <1>2, <1>3, <1>4, <1>5, <1>6, <1>7, <1>8, Zenon DEF Stages

\* A place is what it says.
LEMMA AtPlace ==
    ASSUME NEW r
    PROVE /\ At("ring", r) <=> InRing(r)
          /\ At("dispatcher", r) <=> InDispatcher(r)
          /\ At("executor", r) <=> InExecutor(r)
          /\ At("handler", r) <=> InHandler(r)
          /\ At("completion", r) <=> InCompletions(r)
          /\ At("writer", r) <=> InWriter(r)
          /\ At("response", r) <=> InResponses(r)
          /\ At("client", r) <=> InClient(r)
    BY Zenon DEF At

\* What the places depend on.
LEMMA Unmoved ==
    /\ UNCHANGED <<load, reqRing>> => \A r : InRing(r)' <=> InRing(r)
    /\ disp'.req = disp.req => \A r : InDispatcher(r)' <=> InDispatcher(r)
    /\ UNCHANGED <<load, pool>> => \A r : InExecutor(r)' <=> InExecutor(r)
    /\ UNCHANGED task => \A r : InHandler(r)' <=> InHandler(r)
    /\ UNCHANGED completions => \A r : InCompletions(r)' <=> InCompletions(r)
    /\ UNCHANGED writer => \A r : InWriter(r)' <=> InWriter(r)
    /\ UNCHANGED respRing => \A r : InResponses(r)' <=> InResponses(r)
    /\ UNCHANGED received => \A r : InClient(r)' <=> InClient(r)
<1>1. UNCHANGED <<load, reqRing>> => \A r : InRing(r)' <=> InRing(r)
    BY Zenon DEF InRing, KindOf
<1>2. disp'.req = disp.req => \A r : InDispatcher(r)' <=> InDispatcher(r)
    BY Zenon DEF InDispatcher
<1>3. UNCHANGED <<load, pool>> => \A r : InExecutor(r)' <=> InExecutor(r)
    BY Zenon DEF InExecutor, KindOf
<1>4. UNCHANGED task => \A r : InHandler(r)' <=> InHandler(r)
    BY Zenon DEF InHandler
<1>5. UNCHANGED completions => \A r : InCompletions(r)' <=> InCompletions(r)
    BY Zenon DEF InCompletions
<1>6. UNCHANGED writer => \A r : InWriter(r)' <=> InWriter(r)
    BY Zenon DEF InWriter
<1>7. UNCHANGED respRing => \A r : InResponses(r)' <=> InResponses(r)
    BY Zenon DEF InResponses
<1>8. UNCHANGED received => \A r : InClient(r)' <=> InClient(r)
    BY Zenon DEF InClient
<1> QED
    BY <1>1, <1>2, <1>3, <1>4, <1>5, <1>6, <1>7, <1>8, Zenon

\* A step that leaves every place alone is a move of nothing.
LEMMA NothingMoves ==
    ASSUME UNCHANGED <<load, reqRing, pool, task, completions, respRing, received>>, disp'.req = disp.req,
           \A r \in Requests : InWriter(r)' <=> InWriter(r)
    PROVE Moves
<1>1. \A r \in Requests : r # NoItem
    BY ItemsAssumption, Zenon
<1>2. Move(NoItem, "nowhere", "nowhere")
    BY <1>1, Unmoved, MoveByPlace, Zenon
<1>3. Passage(NoItem, "nowhere", "nowhere")
    BY <1>1, Zenon DEF Passage
<1> QED
    BY <1>2, <1>3, Zenon DEF Moves

\* Only what is new in a queue, or with a thread, can be there twice.
LEMMA OnceStays ==
    ASSUME OnceInv, UNCHANGED <<reqRing, pool, task, completions, respRing>>
    PROVE OnceInv'
    BY ZenonT(60) DEF OnceInv, Once, Busy

\* The request that is about to be pushed is nowhere yet.
LEMMA NextIsNowhere ==
    ASSUME Types, SubmitInv, KnownInv, cli.pc = "push"
    PROVE /\ cli.req \in Requests /\ cli.req \notin Published /\ ~InRing(cli.req)
          /\ \A p \in Stages : ~At(p, cli.req)
          /\ \A w \in Workers : task[w].req # cli.req
<1>1. cli.req \notin pushed /\ cli.req \in Requests
    BY NextIsNew, Zenon
<1>2. cli.pc \notin {"pushed", "gone"}
    BY Zenon
<1>3. cli.req \notin Published
    BY <1>1, <1>2, Zenon DEF Published
<1>4. (\A p \in Stages : ~At(p, cli.req)) /\ \A w \in Workers : task[w].req # cli.req
    BY <1>1, <1>3, Zenon DEF KnownInv
<1>5. ~InRing(cli.req)
    BY <1>4, AtPlace, Zenon DEF Stages
<1> QED
    BY <1>1, <1>3, <1>4, <1>5, Zenon

\* The submit worker's step puts the next request into its ring, or moves nothing.
LEMMA SubmitterMoves ==
    ASSUME Types, SubmitInv, KnownInv, OnceInv, Submitter
    PROVE Moves /\ OnceInv'
<1>0. UNCHANGED <<load, disp, pool, task, completions, writer, respRing, received>>
    BY SubmitterKeeps, Zenon
<1>1. CASE UNCHANGED reqRing
    BY <1>0, <1>1, Unmoved, NothingMoves, OnceStays, Zenon
<1>2. CASE /\ cli.pc = "push" /\ cli'.pc = "pushed" /\ cli'.req = cli.req
           /\ reqRing' = [reqRing EXCEPT ![KindOf(cli.req)] = Append(@, cli.req)]
  <2> DEFINE x == cli.req
             k == KindOf(x)
             q == reqRing[k]
  <2>1. x \in Requests /\ ~InRing(x)
    BY <1>2, NextIsNowhere, Zenon
  <2>2. k \in Kinds /\ q \in Seq(Requests)
    BY KindsOf, Zenon DEF Types, RingTypes
  <2>3. reqRing' = [reqRing EXCEPT ![k] = Append(q, x)]
    BY <1>2, Zenon
  <2>4. reqRing'[k] = Append(q, x) /\ \A j \in Kinds : j # k => reqRing'[j] = reqRing[j]
    BY <2>2, <2>3, RingChange, Zenon
  <2>5. ~InSeq(x, q)
    BY <2>1, Zenon DEF InRing
  <2> HIDE DEF q
  <2>6. \A r : /\ InSeq(r, Append(q, x)) <=> InSeq(r, q) \/ r = x
               /\ Once(r, q) /\ (r = x => ~InSeq(r, q)) => Once(r, Append(q, x))
    BY <2>1, <2>2, InSeqAppend, Zenon
  <2>7. \A r : KindOf(r)' = KindOf(r) /\ KindOf(r) \in Kinds
    BY <1>0, KindsOf, Zenon DEF KindOf
  <2>8. \A r : InRing(r)' <=> InRing(r) \/ r = x
    <3> SUFFICES ASSUME NEW r PROVE InRing(r)' <=> InRing(r) \/ r = x
        BY Zenon
    <3>1. InRing(r)' <=> InSeq(r, reqRing'[KindOf(r)])
        BY <2>7, Zenon DEF InRing
    <3>2. CASE KindOf(r) = k
        BY <2>4, <2>6, <3>1, <3>2, ZenonT(60) DEF InRing, q
    <3>3. CASE KindOf(r) # k
      <4>1. reqRing'[KindOf(r)] = reqRing[KindOf(r)] /\ r # x
        BY <2>4, <2>7, <3>3, Zenon
      <4> QED
        BY <3>1, <4>1, Zenon DEF InRing
    <3> QED
        BY <3>2, <3>3, Zenon
  <2>9. Move(x, "nowhere", "ring")
    BY <1>0, <2>8, Unmoved, MoveByPlace, Zenon
  <2>10. Passage(x, "nowhere", "ring")
    BY <1>2, Zenon DEF Passage
  <2>11. \A r \in Requests : \A j \in Kinds : Once(r, reqRing'[j])
    <3>1. \A r \in Requests : \A j \in Kinds : Once(r, reqRing[j])
        BY Zenon DEF OnceInv
    <3> QED
        BY <2>2, <2>4, <2>5, <2>6, <3>1, Zenon DEF q
  <2>12. OnceInv'
    BY <1>0, <2>11, Zenon DEF OnceInv, Busy
  <2> QED
    BY <2>9, <2>10, <2>12, Zenon DEF Moves
<1> QED
    BY <1>1, <1>2, SubmitterEffect, Zenon

\* The dispatcher's step takes a request from its ring, or hands it to its executor.
LEMMA DispatcherMoves ==
    ASSUME Types, KindInv, PlaceInv, OnceInv, Dispatcher
    PROVE Moves /\ OnceInv'
<1>0. UNCHANGED <<load, task, completions, writer, respRing, received>>
    BY DispatcherKeeps, Zenon
<1>1. \A r : KindOf(r)' = KindOf(r) /\ KindOf(r) \in Kinds
    BY <1>0, KindsOf, ZenonT(60) DEF KindOf
<1>2. \A r \in Requests : r # NoItem
    BY ItemsAssumption, Zenon
<1> DEFINE k == disp.kind
<1>3. CASE /\ disp.pc = "drain" /\ k \in Kinds /\ reqRing[k] # <<>> /\ disp'.req = Head(reqRing[k])
           /\ reqRing' = [reqRing EXCEPT ![k] = Tail(@)] /\ pool' = pool
  <2> DEFINE q == reqRing[k]
             x == Head(q)
  <2>1. k \in Kinds /\ q \in Seq(Requests) /\ q # <<>> /\ reqRing' = [reqRing EXCEPT ![k] = Tail(q)]
    BY <1>3, Zenon DEF Types, RingTypes
  <2>2. reqRing'[k] = Tail(q) /\ \A j \in Kinds : j # k => reqRing'[j] = reqRing[j]
    BY <2>1, RingChange, Zenon
  <2>3. \A r \in Requests : Once(r, q)
    BY <2>1, Zenon DEF OnceInv
  <2>4. \A r \in Requests : InSeq(r, q) => KindOf(r) = k
    BY <2>1, Zenon DEF KindInv
  <2>5. disp'.req = x /\ disp.req = NoItem
    <3>1. disp.pc # "popped"
        BY <1>3, Zenon
    <3> QED
        BY <1>3, <3>1, Zenon DEF KindInv
  <2> HIDE DEF q, x
  <2>6. /\ x \in Requests /\ InSeq(x, q)
        /\ \A r \in Requests : (InSeq(r, Tail(q)) <=> InSeq(r, q) /\ r # x) /\ Once(r, Tail(q))
    BY <2>1, <2>3, InSeqTail, Zenon DEF x
  <2>7. KindOf(x) = k /\ InRing(x)
    BY <2>4, <2>6, Zenon DEF InRing, q
  <2>8. \A r \in Requests : InRing(r)' <=> InRing(r) /\ r # x
    <3> SUFFICES ASSUME NEW r \in Requests PROVE InRing(r)' <=> InRing(r) /\ r # x
        BY Zenon
    <3>1. InRing(r)' <=> InSeq(r, reqRing'[KindOf(r)])
        BY <1>1, Zenon DEF InRing
    <3>2. CASE KindOf(r) = k
      <4>1. reqRing'[KindOf(r)] = Tail(q) /\ (InRing(r) <=> InSeq(r, q))
        BY <2>2, <3>2, Zenon DEF InRing, q
      <4> QED
        BY <2>6, <3>1, <4>1, Zenon
    <3>3. CASE KindOf(r) # k
      <4>1. reqRing'[KindOf(r)] = reqRing[KindOf(r)] /\ r # x
        BY <1>1, <2>2, <2>7, <3>3, Zenon
      <4> QED
        BY <3>1, <4>1, Zenon DEF InRing
    <3> QED
        BY <3>2, <3>3, Zenon
  <2>9. \A r \in Requests : ~InDispatcher(r) /\ (InDispatcher(r)' <=> r = x)
    BY <1>2, <2>5, Zenon DEF InDispatcher
  <2>10. Move(x, "ring", "dispatcher")
    BY <1>0, <1>3, <2>8, <2>9, Unmoved, MoveByPlace, Zenon
  <2>11. Passage(x, "ring", "dispatcher")
    BY <2>7, AtPlace, Zenon DEF Passage, Along
  <2>12. \A r \in Requests : \A j \in Kinds : Once(r, reqRing'[j])
    <3>1. \A r \in Requests : \A j \in Kinds : j # k => Once(r, reqRing'[j])
        BY <2>2, Zenon DEF OnceInv
    <3>2. \A r \in Requests : Once(r, reqRing'[k])
        BY <2>2, <2>6, Zenon
    <3> QED
        BY <3>1, <3>2, Zenon
  <2>13. OnceInv'
    BY <1>0, <1>3, <2>12, Zenon DEF OnceInv, Busy
  <2> QED
    BY <2>10, <2>11, <2>13, ZenonT(60) DEF Moves
<1>4. CASE /\ disp.pc = "popped" /\ disp'.req = NoItem /\ k \in Kinds /\ disp.req \in Requests
           /\ pool' = [pool EXCEPT ![k].queue = Append(@, disp.req)] /\ reqRing' = reqRing
  <2> DEFINE q == pool[k].queue
             x == disp.req
  <2>1. k \in Kinds /\ q \in Seq(Requests) /\ x \in Requests /\ pool' = [pool EXCEPT ![k].queue = Append(q, x)]
    BY <1>4, Zenon DEF Types, ExecutorTypes
  <2>2. Append(q, x) \in Seq(Requests)
    BY <2>1, SMT, Z3
  <2>3. /\ pool'[k].queue = Append(q, x)
        /\ \A j \in Kinds : j # k => pool'[j] = pool[j]
    BY <2>1, <2>2, PoolChange, ZenonT(60)
  <2>4. KindOf(x) = k
    BY <1>4, Zenon DEF KindInv
  <2>5. InDispatcher(x) /\ ~InExecutor(x)
    <3>1. InDispatcher(x)
        BY Zenon DEF InDispatcher
    <3>2. At("dispatcher", x) /\ (InExecutor(x) => At("executor", x))
        BY <3>1, AtPlace, Zenon
    <3> QED
        BY <2>1, <3>1, <3>2, Zenon DEF PlaceInv, Stages
  <2>6. ~InSeq(x, q)
    BY <2>4, <2>5, Zenon DEF InExecutor
  <2>7. \A r \in Requests : (InDispatcher(r) <=> r = x) /\ ~InDispatcher(r)'
    BY <1>2, <1>4, Zenon DEF InDispatcher
  <2> HIDE DEF q, x
  <2>8. \A r : /\ InSeq(r, Append(q, x)) <=> InSeq(r, q) \/ r = x
               /\ Once(r, q) /\ (r = x => ~InSeq(r, q)) => Once(r, Append(q, x))
    BY <2>1, InSeqAppend, Zenon
  <2>9. \A r : InExecutor(r)' <=> InExecutor(r) \/ r = x
    <3> SUFFICES ASSUME NEW r PROVE InExecutor(r)' <=> InExecutor(r) \/ r = x
        BY Zenon
    <3>1. InExecutor(r)' <=> InSeq(r, pool'[KindOf(r)].queue)
        BY <1>1, Zenon DEF InExecutor
    <3>2. CASE KindOf(r) = k
        BY <2>3, <2>8, <3>1, <3>2, Zenon DEF InExecutor, q
    <3>3. CASE KindOf(r) # k
      <4>1. pool'[KindOf(r)] = pool[KindOf(r)] /\ r # x
        BY <1>1, <2>3, <2>4, <3>3, Zenon
      <4> QED
        BY <3>1, <4>1, Zenon DEF InExecutor
    <3> QED
        BY <3>2, <3>3, Zenon
  <2>10. Move(x, "dispatcher", "executor")
    BY <1>0, <1>4, <2>7, <2>9, Unmoved, MoveByPlace, Zenon
  <2>11. Passage(x, "dispatcher", "executor")
    BY <2>5, AtPlace, Zenon DEF Passage, Along
  <2>12. \A r \in Requests : \A j \in Kinds : Once(r, pool'[j].queue)
    <3>1. \A r \in Requests : \A j \in Kinds : Once(r, pool[j].queue)
        BY Zenon DEF OnceInv
    <3> QED
        BY <2>1, <2>3, <2>6, <2>8, <3>1, Zenon DEF q
  <2>13. OnceInv'
    BY <1>0, <1>4, <2>12, Zenon DEF OnceInv, Busy
  <2> QED
    BY <2>10, <2>11, <2>13, Zenon DEF Moves
<1>5. CASE disp.pc # "popped" /\ disp'.pc # "popped" /\ disp'.req = NoItem /\ UNCHANGED <<reqRing, pool>>
  <2>1. disp'.req = disp.req
    BY <1>5, Zenon DEF KindInv
  <2> QED
    BY <1>0, <1>5, <2>1, Unmoved, NothingMoves, OnceStays, Zenon
<1> QED
    BY <1>3, <1>4, <1>5, DispatcherHand, Zenon

TaskStates == [pc : {"idle", "run", "await", "refused", "exit"}, req : Requests \cup {NoItem}]

\* What each step of an executor thread does with the request in its hands.
LEMMA WorkerEffect ==
    ASSUME Types, NEW w \in Workers, Worker(w)
    PROVE /\ \A v \in Workers : v # w => task'[v] = task[v]
          /\ \/ /\ task[w].pc = "idle" /\ task'[w].pc = "run" /\ pool[PoolOf(w)].queue # <<>>
                /\ task'[w].req = Head(pool[PoolOf(w)].queue)
                /\ pool' = [pool EXCEPT ![PoolOf(w)].queue = Tail(@)] /\ UNCHANGED <<completions, writer>>
             \/ /\ task[w].pc = "idle" /\ task'[w].pc = "exit" /\ task'[w].req = task[w].req
                /\ UNCHANGED <<pool, completions, writer>>
             \/ /\ task[w].pc = "run" /\ task'[w].pc = "await" /\ task'[w].req = task[w].req
                /\ CanEnqueue /\ Enqueue(task[w].req) /\ UNCHANGED pool
             \/ /\ task[w].pc = "run" /\ task'[w].pc = "refused" /\ task'[w].req = task[w].req
                /\ UNCHANGED <<pool, completions, writer>>
             \/ /\ task[w].pc = "refused" /\ task'[w].pc = "idle" /\ task'[w].req = NoItem
                /\ broken' /\ UNCHANGED <<pool, completions, writer>>
             \/ /\ AwaitWriteCompletion(w) /\ task[w].pc = "await" /\ task'[w].pc = "idle" /\ task'[w].req = NoItem
                /\ UNCHANGED <<pool, completions, writer>>
<1>0. task \in [Workers -> TaskStates] /\ task[w] \in TaskStates
    BY Zenon DEF Types, ExecutorTypes, TaskStates
<1>1. CASE WorkerTake(w)
  <2> DEFINE t == [pc |-> "run", req |-> Head(pool[PoolOf(w)].queue)]
  <2>1. /\ task[w].pc = "idle" /\ pool[PoolOf(w)].queue # <<>> /\ task' = [task EXCEPT ![w] = t]
        /\ pool' = [pool EXCEPT ![PoolOf(w)].queue = Tail(@)] /\ UNCHANGED <<completions, writer>>
    BY <1>1, Zenon DEF WorkerTake, completion
  <2>2. t.pc = "run" /\ t.req = Head(pool[PoolOf(w)].queue)
    BY Zenon
  <2> HIDE DEF t
  <2>3. task'[w] = t /\ \A v \in Workers : v # w => task'[v] = task[v]
    BY <1>0, <2>1, Zenon
  <2>4. task'[w].pc = "run" /\ task'[w].req = Head(pool[PoolOf(w)].queue)
    BY <2>2, <2>3, Zenon
  <2> QED
    BY <2>1, <2>3, <2>4, Zenon
<1>2. CASE WorkerExit(w)
    BY <1>0, <1>2, ZenonT(60) DEF WorkerExit, TaskStates, completion
<1>3. CASE WriteResponse(w)
  <2>1. task[w].pc = "run" /\ UNCHANGED pool
    BY <1>3, Zenon DEF WriteResponse
  <2>2. CASE CanEnqueue /\ task' = [task EXCEPT ![w].pc = "await"] /\ Enqueue(task[w].req)
    BY <1>0, <2>1, <2>2, ZenonT(60) DEF TaskStates
  <2>3. CASE task' = [task EXCEPT ![w].pc = "refused"] /\ UNCHANGED <<completion, writer>>
    BY <1>0, <2>1, <2>3, ZenonT(60) DEF TaskStates, completion
  <2> QED
    BY <1>3, <2>2, <2>3, Zenon DEF WriteResponse
<1> DEFINE i == [pc |-> "idle", req |-> NoItem]
<1>4. i.pc = "idle" /\ i.req = NoItem
    BY Zenon
<1>5. CASE WriteRefused(w)
  <2>1. /\ task[w].pc = "refused" /\ broken' = TRUE /\ task' = [task EXCEPT ![w] = i]
        /\ UNCHANGED <<pool, completions, writer>>
    BY <1>5, Zenon DEF WriteRefused, MarkSessionBroken, TaskEnds, completion
  <2> HIDE DEF i
  <2> QED
    BY <1>0, <1>4, <2>1, ZenonT(60)
<1>6. CASE AwaitWriteCompletion(w)
  <2>1. /\ task[w].pc = "await" /\ task' = [task EXCEPT ![w] = i]
        /\ UNCHANGED <<pool, completions, writer>>
    BY <1>6, Zenon DEF AwaitWriteCompletion, TaskEnds
  <2> HIDE DEF i
  <2> QED
    BY <1>0, <1>4, <1>6, <2>1, ZenonT(60)
<1> QED
    BY <1>1, <1>2, <1>3, <1>5, <1>6, Zenon DEF Worker

\* A wakeup does not take the item from the writer.
LEMMA NotifyMovesNothing ==
    ASSUME Types, NotifyWriter \/ UNCHANGED writer
    PROVE \A r : InWriter(r)' <=> InWriter(r)
<1>1. /\ writer'.item = writer.item /\ writer'.status = writer.status
      /\ writer'.pc = writer.pc \/ (writer.pc = "blocked" /\ writer'.pc = "test")
    BY NotifyKeeps, Zenon
<1> QED
    BY <1>1, Zenon DEF InWriter

\* No two threads have the same request, and a thread without one has NoItem.
TasksDiffer ==
    /\ \A r \in Requests : \A v, w \in Workers : task[v].req = r /\ task[w].req = r => v = w
    /\ \A w \in Workers : ~Busy(w) => task[w].req = NoItem

\* A thread that keeps or drops its request leaves them so.
LEMMA TasksStayDifferent ==
    ASSUME TasksDiffer, NEW w \in Workers, \A v \in Workers : v # w => task'[v] = task[v],
           task'[w].req = task[w].req \/ task'[w].req = NoItem, Busy(w)' \/ task'[w].req = NoItem
    PROVE TasksDiffer'
<1>1. \A r \in Requests : r # NoItem
    BY ItemsAssumption, Zenon
<1>2. \A v \in Workers : \A r \in Requests : task'[v].req = r => task[v].req = r
    BY <1>1, Zenon
<1>3. \A v \in Workers : v # w => (Busy(v)' <=> Busy(v))
    BY Zenon DEF Busy
<1>4. ASSUME NEW v \in Workers PROVE ~Busy(v)' => task'[v].req = NoItem
  <2>1. CASE v = w
    BY <2>1, Zenon
  <2>2. CASE v # w
    BY <1>3, <2>2, Zenon DEF TasksDiffer
  <2> QED
    BY <2>1, <2>2, Zenon
<1>5. ASSUME NEW r \in Requests, NEW u \in Workers, NEW v \in Workers, task'[u].req = r, task'[v].req = r PROVE u = v
  <2>1. task[u].req = r /\ task[v].req = r
    BY <1>2, <1>5, Zenon
  <2> QED
    BY <2>1, Zenon DEF TasksDiffer
<1>6. \A v \in Workers : ~Busy(v)' => task'[v].req = NoItem
    BY <1>4, Zenon
<1> QED
    BY <1>5, <1>6, Zenon DEF TasksDiffer

\* An executor thread takes a request from its queue, hands the reply to the writer, or
\* loses it with the session.
LEMMA WorkerMoves ==
    ASSUME Types, KindInv, PlaceInv, OnceInv, NEW w \in Workers, Worker(w)
    PROVE Moves /\ OnceInv'
<1>0. UNCHANGED <<load, reqRing, disp, respRing, received>>
    BY WorkerKeeps, Zenon
<1>1. \A r : KindOf(r)' = KindOf(r) /\ KindOf(r) \in Kinds
    BY <1>0, KindsOf, Zenon DEF KindOf
<1>2. \A r \in Requests : r # NoItem
    BY ItemsAssumption, Zenon
<1>3. TasksDiffer
    BY Zenon DEF OnceInv, TasksDiffer
<1>4. \A v \in Workers : v # w => task'[v] = task[v]
    BY WorkerEffect, Zenon
<1>5. \A r \in Requests : /\ \A k \in Kinds : Once(r, reqRing[k]) /\ Once(r, pool[k].queue)
                          /\ Once(r, completions) /\ Once(r, respRing)
    BY Zenon DEF OnceInv
<1>6. ASSUME \A r \in Requests : \A k \in Kinds : Once(r, pool'[k].queue),
             \A r \in Requests : Once(r, completions'), TasksDiffer'
      PROVE OnceInv'
    BY <1>0, <1>5, <1>6, Zenon DEF OnceInv, TasksDiffer
<1>7. CASE /\ task[w].pc = "idle" /\ task'[w].pc = "run" /\ pool[PoolOf(w)].queue # <<>>
           /\ task'[w].req = Head(pool[PoolOf(w)].queue)
           /\ pool' = [pool EXCEPT ![PoolOf(w)].queue = Tail(@)] /\ UNCHANGED <<completions, writer>>
  <2> DEFINE k == PoolOf(w)
             q == pool[k].queue
             x == Head(q)
  <2>1. k \in Kinds /\ q \in Seq(Requests) /\ q # <<>> /\ pool' = [pool EXCEPT ![k].queue = Tail(q)]
    BY <1>7, KindsOf, Zenon DEF Types, ExecutorTypes
  <2>2. \A r \in Requests : Once(r, q) /\ (InSeq(r, q) => KindOf(r) = k)
    BY <1>5, <2>1, Zenon DEF KindInv
  <2>3. task'[w].req = x
    BY <1>7, Zenon
  <2> HIDE DEF k, q, x
  <2>4. /\ x \in Requests /\ InSeq(x, q) /\ Tail(q) \in Seq(Requests)
        /\ \A r \in Requests : (InSeq(r, Tail(q)) <=> InSeq(r, q) /\ r # x) /\ Once(r, Tail(q))
    BY <2>1, <2>2, InSeqTail, Zenon DEF x
  <2>5. pool'[k].queue = Tail(q) /\ \A j \in Kinds : j # k => pool'[j] = pool[j]
    BY <2>1, <2>4, PoolChange, Zenon
  <2>6. KindOf(x) = k /\ InExecutor(x)
    BY <2>2, <2>4, Zenon DEF InExecutor, q
  <2>7. \A r \in Requests : InExecutor(r)' <=> InExecutor(r) /\ r # x
    <3> SUFFICES ASSUME NEW r \in Requests PROVE InExecutor(r)' <=> InExecutor(r) /\ r # x
        BY Zenon
    <3>1. InExecutor(r)' <=> InSeq(r, pool'[KindOf(r)].queue)
        BY <1>1, Zenon DEF InExecutor
    <3>2. CASE KindOf(r) = k
      <4>1. pool'[KindOf(r)].queue = Tail(q) /\ (InExecutor(r) <=> InSeq(r, q))
        BY <2>5, <3>2, Zenon DEF InExecutor, q
      <4> QED
        BY <2>4, <3>1, <4>1, Zenon
    <3>3. CASE KindOf(r) # k
      <4>1. pool'[KindOf(r)] = pool[KindOf(r)] /\ r # x
        BY <1>1, <2>5, <2>6, <3>3, Zenon
      <4> QED
        BY <3>1, <4>1, Zenon DEF InExecutor
    <3> QED
        BY <3>2, <3>3, Zenon
  <2>8. \A r \in Requests : InHandler(r)' <=> InHandler(r) \/ r = x
    <3>1. task[w].pc \notin {"run", "refused"} /\ task'[w].pc \in {"run", "refused"}
        BY <1>7, Zenon
    <3> QED
        BY <1>4, <2>3, <3>1, Zenon DEF InHandler
  <2>9. Move(x, "executor", "handler")
    BY <1>0, <1>7, <2>7, <2>8, Unmoved, MoveByPlace, Zenon
  <2>10. Passage(x, "executor", "handler")
    BY <2>6, AtPlace, Zenon DEF Passage, Along
  <2>11. \A r \in Requests : \A j \in Kinds : Once(r, pool'[j].queue)
    <3>1. \A r \in Requests : \A j \in Kinds : j # k => Once(r, pool'[j].queue)
        BY <1>5, <2>5, Zenon
    <3>2. \A r \in Requests : Once(r, pool'[k].queue)
        BY <2>4, <2>5, Zenon
    <3> QED
        BY <3>1, <3>2, Zenon
  <2>12. \A v \in Workers : task[v].req # x
    <3> SUFFICES ASSUME NEW v \in Workers, task[v].req = x PROVE FALSE
        BY Zenon
    <3>1. At("executor", x)
        BY <2>6, AtPlace, Zenon
    <3>2. Busy(v)
        BY <1>2, <1>3, <2>4, Zenon DEF TasksDiffer
    <3>3. CASE task[v].pc = "await"
      <4>1. "executor" \in {"completion", "writer", "response", "client"}
        BY <2>4, <3>1, <3>3, Zenon DEF PlaceInv, Stages
      <4> QED
        BY <4>1, Zenon
    <3>4. CASE task[v].pc \in {"run", "refused"}
      <4>1. At("handler", x)
        BY <3>4, AtPlace, Zenon DEF InHandler
      <4>2. "handler" = "executor"
        BY <2>4, <3>1, <4>1, Zenon DEF PlaceInv, Stages
      <4> QED
        BY <4>2, Zenon
    <3> QED
        BY <3>2, <3>3, <3>4, Zenon DEF Busy
  <2>13. TasksDiffer'
    <3>1. \A v \in Workers : \A r \in Requests : task'[v].req = r => (v = w /\ r = x) \/ (v # w /\ task[v].req = r /\ r # x)
        BY <1>4, <2>3, <2>12, Zenon
    <3>2. \A r \in Requests : \A u, v \in Workers : task'[u].req = r /\ task'[v].req = r => u = v
        BY <1>3, <3>1, Zenon DEF TasksDiffer
    <3>3. \A v \in Workers : v # w => (Busy(v)' <=> Busy(v))
        BY <1>4, Zenon DEF Busy
    <3>4. Busy(w)'
        BY <1>7, Zenon DEF Busy
    <3>5. \A v \in Workers : ~Busy(v)' => task'[v].req = NoItem
        BY <1>3, <1>4, <3>3, <3>4, Zenon DEF TasksDiffer
    <3> QED
        BY <3>2, <3>5, Zenon DEF TasksDiffer
  <2>14. OnceInv'
    BY <1>5, <1>6, <1>7, <2>11, <2>13, Zenon
  <2> QED
    BY <2>9, <2>10, <2>14, Zenon DEF Moves
<1>8. CASE /\ task[w].pc = "run" /\ task'[w].pc = "await" /\ task'[w].req = task[w].req
           /\ CanEnqueue /\ Enqueue(task[w].req) /\ UNCHANGED pool
  <2> DEFINE x == task[w].req
  <2>1. x \in Requests /\ InHandler(x)
    BY <1>8, Zenon DEF Types, ExecutorTypes, Busy, InHandler
  <2>2. completions' = Append(completions, x) /\ NotifyWriter
    BY <1>8, Zenon DEF Enqueue
  <2>3. completions \in Seq(Items) /\ x \in Items
    BY <2>1, Zenon DEF Types, CompletionTypes, Items
  <2>4. ~InSeq(x, completions)
    <3>1. At("handler", x) /\ (InSeq(x, completions) => At("completion", x))
        BY <2>1, AtPlace, Zenon DEF InCompletions
    <3>2. At("completion", x) => "completion" = "handler"
        BY <2>1, <3>1, Zenon DEF PlaceInv, Stages
    <3> QED
        BY <3>1, <3>2, Zenon
  <2>5. \A v \in Workers : task[v].req = x => v = w
    BY <1>3, <2>1, Zenon DEF TasksDiffer
  <2>6. \A r \in Requests : InHandler(r)' <=> InHandler(r) /\ r # x
    <3>1. task'[w].pc \notin {"run", "refused"}
        BY <1>8, Zenon
    <3> QED
        BY <1>4, <2>5, <3>1, Zenon DEF InHandler
  <2>7. task'[w].req = x /\ task'[w].pc = "await"
    BY <1>8, Zenon
  <2>8. TasksDiffer'
    BY <1>3, <1>4, <2>7, TasksStayDifferent, Zenon DEF Busy
  <2> HIDE DEF x
  <2>9. \A r : /\ InSeq(r, Append(completions, x)) <=> InSeq(r, completions) \/ r = x
               /\ Once(r, completions) /\ (r = x => ~InSeq(r, completions)) => Once(r, Append(completions, x))
    BY <2>3, InSeqAppend, Zenon
  <2>10. \A r \in Requests : InCompletions(r)' <=> InCompletions(r) \/ r = x
    BY <2>2, <2>9, Zenon DEF InCompletions
  <2>11. \A r : InWriter(r)' <=> InWriter(r)
    BY <2>2, NotifyMovesNothing, Zenon
  <2>12. Move(x, "handler", "completion")
    BY <1>0, <1>8, <2>6, <2>10, <2>11, Unmoved, MoveByPlace, Zenon
  <2>13. Passage(x, "handler", "completion")
    BY <2>1, AtPlace, Zenon DEF Passage, Along
  <2>14. OnceInv'
    BY <1>5, <1>6, <1>8, <2>2, <2>4, <2>8, <2>9, Zenon
  <2> QED
    BY <2>12, <2>13, <2>14, Zenon DEF Moves
<1>9. CASE /\ task[w].pc = "refused" /\ task'[w].pc = "idle" /\ task'[w].req = NoItem
           /\ broken' /\ UNCHANGED <<pool, completions, writer>>
  <2> DEFINE x == task[w].req
  <2>1. x \in Requests /\ InHandler(x)
    BY <1>9, Zenon DEF Types, ExecutorTypes, Busy, InHandler
  <2>2. \A v \in Workers : task[v].req = x => v = w
    BY <1>3, <2>1, Zenon DEF TasksDiffer
  <2>3. \A r \in Requests : InHandler(r)' <=> InHandler(r) /\ r # x
    <3>1. task'[w].pc \notin {"run", "refused"}
        BY <1>9, ZenonT(60)
    <3> QED
        BY <1>4, <2>2, <3>1, ZenonT(60) DEF InHandler
  <2> HIDE DEF x
  <2>4. Move(x, "handler", "nowhere")
    BY <1>0, <1>9, <2>3, Unmoved, MoveByPlace, Zenon
  <2>5. Passage(x, "handler", "nowhere")
    BY <1>9, <2>1, AtPlace, Zenon DEF Passage
  <2>6. TasksDiffer'
    BY <1>3, <1>4, <1>9, TasksStayDifferent, Zenon
  <2>7. OnceInv'
    BY <1>5, <1>6, <1>9, <2>6, Zenon
  <2> QED
    BY <2>4, <2>5, <2>7, Zenon DEF Moves
<1>10. CASE /\ task'[w].req = task[w].req \/ (task'[w].req = NoItem /\ task[w].pc = "await")
            /\ task[w].pc \in {"run", "refused"} <=> task'[w].pc \in {"run", "refused"}
            /\ Busy(w)' \/ task'[w].req = NoItem
            /\ UNCHANGED <<pool, completions, writer>>
  <2>1. \A r \in Requests : InHandler(r)' <=> InHandler(r)
    <3>1. \A r : task'[w].req = r /\ task'[w].pc \in {"run", "refused"} <=>
                   task[w].req = r /\ task[w].pc \in {"run", "refused"}
      <4>1. task[w].pc = "await" => task[w].pc \notin {"run", "refused"}
        BY Zenon
      <4> QED
        BY <1>10, <4>1, Zenon
    <3>2. \A v \in Workers : \A r : task'[v].req = r /\ task'[v].pc \in {"run", "refused"} <=>
                                     task[v].req = r /\ task[v].pc \in {"run", "refused"}
        BY <1>4, <3>1, Zenon
    <3> QED
        BY <3>2, ZenonT(60) DEF InHandler
  <2>2. Move(NoItem, "nowhere", "nowhere")
    BY <1>0, <1>2, <1>10, <2>1, Unmoved, MoveByPlace, Zenon
  <2>3. Passage(NoItem, "nowhere", "nowhere")
    BY <1>2, Zenon DEF Passage
  <2>4. TasksDiffer'
    BY <1>3, <1>4, <1>10, TasksStayDifferent, Zenon
  <2>5. OnceInv'
    BY <1>5, <1>6, <1>10, <2>4, Zenon
  <2> QED
    BY <2>2, <2>3, <2>5, Zenon DEF Moves
<1>11. CASE /\ task[w].pc = "idle" /\ task'[w].pc = "exit" /\ task'[w].req = task[w].req
            /\ UNCHANGED <<pool, completions, writer>>
  <2>1. ~Busy(w) /\ task[w].pc \notin {"run", "refused"} /\ task'[w].pc \notin {"run", "refused"}
    BY <1>11, Zenon DEF Busy
  <2>2. task'[w].req = NoItem
    BY <1>3, <1>11, <2>1, Zenon DEF TasksDiffer
  <2> QED
    BY <1>10, <1>11, <2>1, <2>2, Zenon
<1>12. CASE /\ task[w].pc = "run" /\ task'[w].pc = "refused" /\ task'[w].req = task[w].req
            /\ UNCHANGED <<pool, completions, writer>>
  <2>1. Busy(w)' /\ task[w].pc \in {"run", "refused"} /\ task'[w].pc \in {"run", "refused"}
    BY <1>12, Zenon DEF Busy
  <2> QED
    BY <1>10, <1>12, <2>1, Zenon
<1>13. CASE /\ task[w].pc = "await" /\ task'[w].pc = "idle" /\ task'[w].req = NoItem
            /\ UNCHANGED <<pool, completions, writer>>
  <2>1. task[w].pc \notin {"run", "refused"} /\ task'[w].pc \notin {"run", "refused"}
    BY <1>13, Zenon
  <2> QED
    BY <1>10, <1>13, <2>1, Zenon
<1> QED
    BY <1>7, <1>8, <1>9, <1>11, <1>12, <1>13, WorkerEffect, ZenonT(60)

\* The writer takes a completion, publishes it as a response, or loses it with the
\* session.
LEMMA WriterMoves ==
    ASSUME Types, WriterInv, PlaceInv, OnceInv, Writer, [Next]_vars
    PROVE Moves /\ OnceInv'
<1>0. UNCHANGED <<load, reqRing, disp, pool, task, received>>
    BY WriterKeeps, Zenon
<1>1. completions \in Seq(Items) /\ respRing \in Seq(Items) /\ (WriterHolds => writer.item \in Items)
    BY Zenon DEF Types, CompletionTypes, RingTypes
<1>2. \A r \in Requests : Once(r, completions) /\ Once(r, respRing)
    BY Zenon DEF OnceInv
<1>3. ASSUME \A r \in Requests : Once(r, completions') /\ Once(r, respRing') PROVE OnceInv'
    BY <1>0, <1>3, Zenon DEF OnceInv, Busy
<1>4. UNCHANGED <<completions, respRing>> => OnceInv'
    BY <1>2, <1>3, Zenon
<1>5. ASSUME UNCHANGED <<completions, respRing>>, \A r \in Requests : InWriter(r)' <=> InWriter(r)
      PROVE Moves /\ OnceInv'
    BY <1>0, <1>4, <1>5, NothingMoves, Zenon
<1>6. CASE /\ writer.pc = "test" /\ completions # <<>> /\ completions' = Tail(completions) /\ respRing' = respRing
           /\ writer'.pc = "push" /\ writer'.item = Head(completions)
  <2> DEFINE x == Head(completions)
  <2>1. /\ InSeq(x, completions)
        /\ \A r \in Requests : /\ InSeq(r, completions') <=> InSeq(r, completions) /\ r # x
                               /\ Once(r, completions')
    BY <1>1, <1>2, <1>6, InSeqTail, Zenon
  <2>2. \A r \in Requests : InCompletions(r)' <=> InCompletions(r) /\ r # x
    BY <2>1, Zenon DEF InCompletions
  <2>3. \A r : ~InWriter(r) /\ (InWriter(r)' <=> r = x)
    BY <1>6, Zenon DEF InWriter
  <2>4. InCompletions(x)
    BY <2>1, Zenon DEF InCompletions
  <2>5. OnceInv'
    BY <1>2, <1>3, <1>6, <2>1, Zenon
  <2> HIDE DEF x
  <2>6. Move(x, "completion", "writer")
    BY <1>0, <1>6, <2>2, <2>3, Unmoved, MoveByPlace, Zenon
  <2>7. Passage(x, "completion", "writer")
    BY <2>4, AtPlace, Zenon DEF Passage, Along
  <2> QED
    BY <2>5, <2>6, <2>7, Zenon DEF Moves
<1>7. CASE /\ writer.pc \in {"test", "blocking"} /\ UNCHANGED <<completions, respRing>>
           /\ writer'.pc \in {"blocking", "blocked"} \/ (writer'.pc = "exit" /\ completions = <<>>)
  <2>1. \A r : ~InWriter(r) /\ ~InWriter(r)'
    BY <1>7, Zenon DEF InWriter
  <2> QED
    BY <1>5, <1>7, <2>1, Zenon
<1>8. CASE /\ writer.pc = "push" /\ writer'.pc = "pushed" /\ writer'.item = writer.item
           /\ respRing' = Append(respRing, writer.item) /\ ~broken /\ completions' = completions
  <2> DEFINE x == writer.item
  <2>1. x \in Items
    BY <1>1, <1>8, Zenon DEF WriterHolds
  <2>2. InWriter(x) /\ \A r : (InWriter(r) <=> r = x) /\ ~InWriter(r)'
    BY <1>8, Zenon DEF InWriter
  <2>3. x \in Requests => ~InSeq(x, respRing)
    <3> SUFFICES ASSUME x \in Requests, InSeq(x, respRing) PROVE FALSE
        BY Zenon
    <3>1. At("writer", x) /\ At("response", x)
        BY <2>2, AtPlace, Zenon DEF InResponses
    <3>2. "writer" = "response"
        BY <3>1, Zenon DEF PlaceInv, Stages
    <3> QED
        BY <3>2, Zenon
  <2> HIDE DEF x
  <2>4. \A r : /\ InSeq(r, Append(respRing, x)) <=> InSeq(r, respRing) \/ r = x
               /\ Once(r, respRing) /\ (r = x => ~InSeq(r, respRing)) => Once(r, Append(respRing, x))
    BY <1>1, <2>1, InSeqAppend, Zenon
  <2>5. respRing' = Append(respRing, x)
    BY <1>8, Zenon DEF x
  <2>6. \A r : InResponses(r)' <=> InResponses(r) \/ r = x
    BY <2>4, <2>5, Zenon DEF InResponses
  <2>7. Move(x, "writer", "response")
    BY <1>0, <1>8, <2>2, <2>6, Unmoved, MoveByPlace, Zenon
  <2>8. Passage(x, "writer", "response")
    BY <2>2, AtPlace, Zenon DEF Passage, Along
  <2>9. OnceInv'
    BY <1>2, <1>3, <1>8, <2>3, <2>4, <2>5, Zenon
  <2> QED
    BY <2>7, <2>8, <2>9, Zenon DEF Moves
\* What the writer drops, it drops on a broken session.
<1>9. ASSUME UNCHANGED <<completions, respRing>>, InWriter(writer.item), writer.item # Event => broken',
             \A r : ~InWriter(r)'
      PROVE Moves /\ OnceInv'
  <2> DEFINE x == writer.item
  <2>1. \A r : InWriter(r) => r = x
    BY Zenon DEF InWriter
  <2>2. InWriter(x) /\ (x \in Requests => broken')
    BY <1>9, ItemsAssumption, Zenon
  <2> HIDE DEF x
  <2>3. Move(x, "writer", "nowhere")
    BY <1>0, <1>9, <2>1, Unmoved, MoveByPlace, Zenon
  <2>4. Passage(x, "writer", "nowhere")
    BY <2>2, AtPlace, Zenon DEF Passage
  <2> QED
    BY <1>4, <1>9, <2>3, <2>4, Zenon DEF Moves
<1>10. (broken \/ ~writerRunning) => broken'
  <2>1. broken => broken'
    BY BrokenStays, Zenon
  <2> QED
    BY <2>1, Zenon DEF WriterInv
<1>11. CASE /\ writer.pc \in {"push", "credit", "creditPoll"} /\ writer'.item = writer.item
            /\ UNCHANGED <<completions, respRing>>
            /\ \/ writer'.pc \in {"push", "credit", "creditPoll"}
               \/ writer'.pc = "finish" /\ writer'.status = "QueueFull"
               \/ writer'.pc = "finish" /\ writer'.status = "PeerDisconnected" /\ (broken \/ ~writerRunning)
  <2>1. \A r : InWriter(r) <=> r = writer.item
    BY <1>11, Zenon DEF InWriter
  <2>2. CASE writer'.pc \in {"push", "credit", "creditPoll"} \/ (writer'.pc = "finish" /\ writer'.status = "QueueFull")
    <3>1. \A r : InWriter(r)' <=> r = writer.item
        BY <1>11, <2>2, Zenon DEF InWriter
    <3> QED
        BY <1>5, <1>11, <2>1, <3>1, Zenon
  <2>3. CASE writer'.pc = "finish" /\ writer'.status = "PeerDisconnected" /\ (broken \/ ~writerRunning)
    <3>1. \A r : ~InWriter(r)'
        BY <2>3, Zenon DEF InWriter
    <3> QED
        BY <1>9, <1>10, <1>11, <2>1, <2>3, <3>1, Zenon
  <2> QED
    BY <1>11, <2>2, <2>3, Zenon
<1>12. CASE /\ writer.pc = "pushed" /\ writer'.pc = "finish" /\ writer'.item = writer.item
            /\ writer'.status \in {"Ok", "PeerDisconnected"} /\ UNCHANGED <<completions, respRing>>
  <2>1. \A r : ~InWriter(r) /\ ~InWriter(r)'
    BY <1>12, Zenon DEF InWriter
  <2> QED
    BY <1>5, <1>12, <2>1, Zenon
<1>13. CASE /\ writer.pc = "finish" /\ writer'.pc = "complete" /\ writer'.item = writer.item
            /\ UNCHANGED <<completions, respRing>>
            /\ writer.status # "Ok" /\ writer.item # Event => broken'
  <2>1. \A r : ~InWriter(r)'
    BY <1>13, Zenon DEF InWriter
  <2>2. CASE writer.status = "QueueFull"
    <3>1. InWriter(writer.item)
        BY <1>13, <2>2, Zenon DEF InWriter
    <3>2. writer.status # "Ok"
        BY <2>2, Zenon
    <3> QED
        BY <1>9, <1>13, <2>1, <3>1, <3>2, Zenon
  <2>3. CASE writer.status # "QueueFull"
    <3>1. \A r : ~InWriter(r)
        BY <1>13, <2>3, Zenon DEF InWriter
    <3> QED
        BY <1>5, <1>13, <2>1, <3>1, Zenon
  <2> QED
    BY <2>2, <2>3, Zenon
<1>14. CASE /\ writer.pc \in {"complete", "account"} /\ writer'.pc \in {"account", "test"}
            /\ UNCHANGED <<completions, respRing>>
  <2>1. \A r : ~InWriter(r) /\ ~InWriter(r)'
    BY <1>14, Zenon DEF InWriter
  <2> QED
    BY <1>5, <1>14, <2>1, Zenon
<1>15. CASE CompleteItem /\ writer'.pc = "account" /\ UNCHANGED <<completions, respRing>>
    BY <1>14, <1>15, Zenon DEF CompleteItem
<1> QED
    BY <1>6, <1>7, <1>8, <1>11, <1>12, <1>13, <1>14, <1>15, WriterEffect, ZenonT(60)

\* An event takes a place in the completion queue, and moves no request.
LEMMA PublisherMoves ==
    ASSUME Types, OnceInv, Publisher
    PROVE Moves /\ OnceInv'
<1>0. UNCHANGED <<load, reqRing, disp, pool, task, respRing, received>>
    BY PublisherKeeps, Zenon
<1>1. \A r \in Requests : r # NoItem /\ r # Event
    BY ItemsAssumption, Zenon
<1>2. CASE CanEnqueue /\ Enqueue(Event)
  <2>1. completions' = Append(completions, Event) /\ NotifyWriter /\ completions \in Seq(Items) /\ Event \in Items
    BY <1>2, Zenon DEF Enqueue, Types, CompletionTypes, Items
  <2>2. \A r \in Requests : /\ InSeq(r, completions') <=> InSeq(r, completions)
                            /\ Once(r, completions) => Once(r, completions')
    BY <1>1, <2>1, InSeqAppend, Zenon
  <2>3. \A r : InWriter(r)' <=> InWriter(r)
    BY <2>1, NotifyMovesNothing, Zenon
  <2>4. \A r \in Requests : InCompletions(r)' <=> InCompletions(r)
    BY <2>2, Zenon DEF InCompletions
  <2>5. Move(NoItem, "nowhere", "nowhere")
    BY <1>0, <1>1, <2>3, <2>4, Unmoved, MoveByPlace, Zenon
  <2>6. Passage(NoItem, "nowhere", "nowhere")
    BY <1>1, Zenon DEF Passage
  <2>7. OnceInv'
    BY <1>0, <2>2, Zenon DEF OnceInv, Busy
  <2> QED
    BY <2>5, <2>6, <2>7, Zenon DEF Moves
<1>3. CASE UNCHANGED <<completions, writer>>
    BY <1>0, <1>3, Unmoved, NothingMoves, OnceStays, Zenon
<1> QED
    BY <1>2, <1>3, EnqueueSteps, Zenon

\* Stop moves no request: what it fails in the completion queue the writer has left
\* there, and the writer leaves nothing.
LEMMA StopperMoves ==
    ASSUME Types, StopOrder, WriterInv, OnceInv, Stopper
    PROVE Moves /\ OnceInv'
<1>0. UNCHANGED <<load, reqRing, disp, task, respRing, received>>
    BY StopperKeeps, Zenon
<1>1. \A r : InWriter(r)' <=> InWriter(r)
    BY StopperEffect, NotifyMovesNothing, Zenon
<1>2. completions' = completions
  <2>1. FailPendingCompletionItems => completions = <<>>
    <3>1. FailPendingCompletionItems => writer.pc = "exit"
        BY Zenon DEF FailPendingCompletionItems, StopFrom, StopOrder, WriterJoined
    <3> QED
        BY <3>1, Zenon DEF WriterInv
  <2> QED
    BY <2>1, StopperEffect, Zenon
<1>3. \A k \in Kinds : pool'[k].queue = pool[k].queue
  <2>1. CASE StopExecutor
    <3>1. PICK j \in Kinds : pool' = [pool EXCEPT ![j].open = FALSE]
        BY <2>1, Zenon DEF StopExecutor, Kinds
    <3>2. pool \in [Kinds -> [open : BOOLEAN, queue : Seq(Requests)]]
        BY Zenon DEF Types, ExecutorTypes
    <3> QED
        BY <3>1, <3>2, Zenon
  <2>2. CASE pool' = pool
    BY <2>2, Zenon
  <2> QED
    BY <2>1, <2>2, Zenon DEF Stopper, StopBegins, StopSteps, StopTimesOut, StopBreaksSession, StopWriterFlag, StopSignalsCredit,
        StopNotifiesWriter, StopJoinsWriter, FailPendingCompletionItems, StopWakesDispatcher, StopJoinsDispatcher,
        StopJoinsExecutor, StopResetsSession
<1>4. \A r : InExecutor(r)' <=> InExecutor(r)
    BY <1>0, <1>3, KindsOf, Zenon DEF InExecutor, KindOf
<1>5. \A r \in Requests : r # NoItem
    BY ItemsAssumption, Zenon
<1>6. Move(NoItem, "nowhere", "nowhere")
    BY <1>0, <1>1, <1>2, <1>4, <1>5, Unmoved, MoveByPlace, Zenon
<1>7. Passage(NoItem, "nowhere", "nowhere")
    BY <1>5, Zenon DEF Passage
<1>8. OnceInv'
    BY <1>0, <1>2, <1>3, Zenon DEF OnceInv, Busy
<1> QED
    BY <1>6, <1>7, <1>8, Zenon DEF Moves

\* The response worker takes a response to the client.
LEMMA ReceiverMoves ==
    ASSUME Types, PlaceInv, OnceInv, Receiver
    PROVE Moves /\ OnceInv'
<1>0. UNCHANGED <<load, reqRing, disp, pool, task, completions, writer>>
    BY ReceiverKeeps, Zenon
<1>1. CASE UNCHANGED <<respRing, received>>
    BY <1>0, <1>1, Unmoved, NothingMoves, OnceStays, Zenon
<1>2. CASE respRing # <<>> /\ respRing' = Tail(respRing) /\ received' = received \cup {Head(respRing)}
  <2> DEFINE x == Head(respRing)
  <2>1. respRing \in Seq(Items) /\ \A r \in Requests : Once(r, respRing)
    BY Zenon DEF Types, RingTypes, OnceInv
  <2>2. /\ InSeq(x, respRing)
        /\ \A r \in Requests : (InSeq(r, respRing') <=> InSeq(r, respRing) /\ r # x) /\ Once(r, respRing')
    BY <1>2, <2>1, InSeqTail, Zenon
  <2>3. InResponses(x) /\ \A r \in Requests : InResponses(r)' <=> InResponses(r) /\ r # x
    BY <2>2, Zenon DEF InResponses
  <2>4. \A r : InClient(r)' <=> InClient(r) \/ r = x
    BY <1>2, Zenon DEF InClient
  <2> HIDE DEF x
  <2>5. Move(x, "response", "client")
    BY <1>0, <2>3, <2>4, Unmoved, MoveByPlace, Zenon
  <2>6. Passage(x, "response", "client")
    BY <2>3, AtPlace, Zenon DEF Passage, Along
  <2>7. OnceInv'
    BY <1>0, <2>2, Zenon DEF OnceInv, Busy
  <2> QED
    BY <2>5, <2>6, <2>7, Zenon DEF Moves
<1> QED
    BY <1>1, <1>2, Zenon DEF Receiver, CountResponses, PopResponse, SignalResponseCredit, WaitForResponseSignal

\* Every step moves at most one request by one place.
LEMMA StepMoves ==
    ASSUME Types, StopOrder, ConservedInv, [Next]_vars
    PROVE Moves /\ OnceInv'
<1> USE DEF ConservedInv
<1>1. ASSUME NEW w \in Workers, Worker(w) PROVE Moves /\ OnceInv'
    BY <1>1, WorkerMoves, Zenon
<1>2. CASE UNCHANGED vars
    BY <1>2, Unmoved, NothingMoves, OnceStays, Zenon DEF vars, shm, execution, completion, client
<1> QED
    BY <1>1, <1>2, StepIsOfAThread, DispatcherMoves, WriterMoves, PublisherMoves, StopperMoves, SubmitterMoves,
       ReceiverMoves, Zenon

\* What has been published stays so, and becomes so by a push, or with a client that
\* leaves a broken session.
LEMMA PublishedGrows ==
    ASSUME Types, SubmitInv, [Next]_vars
    PROVE /\ Published \subseteq Published'
          /\ broken \/ (cli.pc = "push" /\ cli'.pc = "pushed" /\ cli'.req = cli.req) \/ Published' = Published
          /\ cli.pc = "push" /\ cli'.pc = "pushed" => Published' = Published \cup {cli'.req}
<1>1. CASE UNCHANGED <<cli, pushed>>
  <2>1. ~(cli.pc = "push" /\ cli'.pc = "pushed")
    BY <1>1, Zenon
  <2> QED
    BY <1>1, <2>1, Zenon DEF Published
<1>2. CASE Submitter
  <2>1. CASE cli.pc \in {"idle", "push", "wait"} /\ cli'.pc \in {"push", "wait"} /\ pushed' = pushed
    <3>1. cli.pc \notin {"pushed", "gone"} /\ cli'.pc \notin {"pushed", "gone"}
        BY <2>1, Zenon
    <3>2. ~(cli.pc = "push" /\ cli'.pc = "pushed")
        BY <3>1, Zenon
    <3>3. Published = pushed /\ Published' = pushed
        BY <2>1, <3>1, Zenon DEF Published
    <3> QED
        BY <3>2, <3>3, Zenon
  <2>2. CASE cli.pc = "push" /\ cli'.pc = "pushed" /\ cli'.req = cli.req /\ pushed' = pushed
    <3>1. cli.pc \notin {"pushed", "gone"} /\ cli'.pc \in {"pushed", "gone"}
        BY <2>2, Zenon
    <3>2. Published = pushed /\ Published' = pushed \cup {cli'.req}
        BY <2>2, <3>1, Zenon DEF Published
    <3> QED
        BY <2>2, <3>2, Zenon
  <2>3. CASE cli.pc \in {"push", "wait", "pushed"} /\ cli'.pc = "gone" /\ broken /\ cli'.req = cli.req /\ pushed' = pushed
    <3>1. cli'.pc \in {"pushed", "gone"} /\ cli'.pc # "pushed"
        BY <2>3, Zenon
    <3>2. Published \subseteq Published'
        BY <2>3, <3>1, Zenon DEF Published
    <3> QED
        BY <2>3, <3>1, <3>2, Zenon
  <2>4. CASE cli.pc = "pushed" /\ cli'.pc = "signal" /\ cli'.req = cli.req /\ pushed' = pushed \cup {cli.req}
    <3>1. cli.pc \in {"pushed", "gone"} /\ cli'.pc \notin {"pushed", "gone"} /\ cli.pc # "push"
        BY <2>4, Zenon
    <3>2. Published' = Published
        BY <2>4, <3>1, Zenon DEF Published
    <3> QED
        BY <3>1, <3>2, Zenon
  <2>5. CASE cli.pc = "signal" /\ cli'.pc = "idle" /\ pushed' = pushed
    <3>1. cli.pc \notin {"pushed", "gone"} /\ cli'.pc \notin {"pushed", "gone"} /\ cli.pc # "push"
        BY <2>5, Zenon
    <3>2. Published' = Published
        BY <2>5, <3>1, Zenon DEF Published
    <3> QED
        BY <3>1, <3>2, Zenon
  <2> QED
    BY <1>2, <2>1, <2>2, <2>3, <2>4, <2>5, SubmitterEffect, ZenonT(60)
<1> QED
    BY <1>1, <1>2, StepIsOfAThread, DispatcherKeeps, WorkerKeeps, WriterKeeps, PublisherKeeps, StopperKeeps,
       ReceiverKeeps, Zenon DEF vars, client

\* What the threads hold after a step, they held before, or have just taken or queued.
LEMMA HandsStep ==
    ASSUME Types, [Next]_vars, NEW w \in Workers
    PROVE /\ task'[w].req = task[w].req \/ task'[w].req = NoItem \/ task'[w].pc = "run"
          /\ task'[w].pc = "await" =>
                 \/ task[w].pc = "await" /\ task'[w].req = task[w].req
                 \/ InSeq(task'[w].req, completions')
<1>1. CASE UNCHANGED task
    BY <1>1, Zenon
<1>2. ASSUME NEW v \in Workers, Worker(v)
      PROVE /\ task'[w].req = task[w].req \/ task'[w].req = NoItem \/ task'[w].pc = "run"
            /\ task'[w].pc = "await" =>
                   \/ task[w].pc = "await" /\ task'[w].req = task[w].req
                   \/ InSeq(task'[w].req, completions')
  <2>1. CASE v # w
    <3>1. task'[w] = task[w]
        BY <1>2, <2>1, WorkerEffect, Zenon
    <3> QED
        BY <3>1, Zenon
  <2>2. CASE v = w
    <3>1. CASE task[w].pc = "run" /\ task'[w].req = task[w].req /\ CanEnqueue /\ Enqueue(task[w].req)
      <4>1. completions' = Append(completions, task[w].req) /\ completions \in Seq(Items) /\ task[w].req \in Items
        BY <3>1, Zenon DEF Enqueue, Types, CompletionTypes, ExecutorTypes, Busy, Items
      <4>2. InSeq(task[w].req, Append(completions, task[w].req))
        BY <4>1, InSeqAppend, Zenon
      <4> QED
        BY <3>1, <4>1, <4>2, Zenon
    <3>2. CASE /\ task'[w].req = task[w].req \/ task'[w].req = NoItem \/ task'[w].pc = "run"
               /\ task'[w].pc \in {"idle", "run", "refused", "exit"}
      <4>1. task'[w].pc # "await"
        BY <3>2, Zenon
      <4> QED
        BY <3>2, <4>1, Zenon
    <3> QED
        BY <1>2, <2>2, <3>1, <3>2, WorkerEffect, ZenonT(60)
  <2> QED
    BY <2>1, <2>2, Zenon
<1> QED
    BY <1>1, <1>2, StepIsOfAThread, DispatcherKeeps, WriterKeeps, PublisherKeeps, StopperKeeps, SubmitterKeeps,
       ReceiverKeeps, Zenon DEF vars, execution

\* A push puts the request into its ring.
LEMMA PushEnters ==
    ASSUME Types, [Next]_vars, cli.pc = "push", cli'.pc = "pushed"
    PROVE At("ring", cli.req)'
<1>1. cli' # cli
  <2>1. cli'.pc # cli.pc
    BY Zenon
  <2> QED
    BY <2>1, Zenon
<1>2. Submitter
    BY <1>1, StepIsOfAThread, DispatcherKeeps, WorkerKeeps, WriterKeeps, PublisherKeeps, StopperKeeps, ReceiverKeeps,
       Zenon DEF vars, client
<1>3. cli'.req = cli.req /\ reqRing' = [reqRing EXCEPT ![KindOf(cli.req)] = Append(@, cli.req)]
    BY <1>2, SubmitterEffect, Zenon
<1> DEFINE x == cli.req
           k == KindOf(x)
           q == reqRing[k]
<1>4. k \in Kinds /\ q \in Seq(Requests) /\ x \in Requests /\ reqRing' = [reqRing EXCEPT ![k] = Append(q, x)]
    BY <1>3, KindsOf, Zenon DEF Types, RingTypes, ClientTypes
<1>5. reqRing'[k] = Append(q, x)
    BY <1>4, RingChange, Zenon
<1>6. load' = load
    BY <1>2, SubmitterKeeps, Zenon
<1>7. cli'.req = x /\ KindOf(x)' = k
    BY <1>3, <1>6, Zenon DEF KindOf
<1> HIDE DEF q
<1>8. InSeq(x, Append(q, x))
    BY <1>4, InSeqAppend, Zenon
<1>9. InRing(cli.req)'
    BY <1>5, <1>7, <1>8, Zenon DEF InRing
<1> QED
    BY <1>9, Zenon DEF At

\* Every step leaves a request in at most one place.
LEMMA PlaceStep ==
    ASSUME Types, StopOrder, ConservedInv, [Next]_vars
    PROVE PlaceInv'
<1>1. PICK x, a, b : Move(x, a, b) /\ Passage(x, a, b)
    BY StepMoves, Zenon DEF Moves
<1>2. "nowhere" \notin Stages /\ \A c, d : <<c, d>> \in Along => c \in Stages /\ d \in Stages
    BY Zenon DEF Stages, Along
<1>3. ASSUME NEW p \in Stages, x \in Requests, At(p, x)' PROVE p = b
  <2>1. CASE x = cli.req /\ cli.pc = "push"
    <3>1. ~At(p, x)
        BY <2>1, NextIsNowhere, Zenon DEF ConservedInv
    <3> QED
        BY <1>1, <1>3, <3>1, Zenon DEF Move
  <2>2. CASE At(a, x) /\ (<<a, b>> \in Along \/ a \in {"handler", "writer"})
    <3>1. a \in Stages
        BY <1>2, <2>2, Zenon DEF Stages
    <3>2. At(p, x) => p = a
        BY <1>3, <2>2, <3>1, Zenon DEF ConservedInv, PlaceInv
    <3> QED
        BY <1>1, <1>3, <3>2, Zenon DEF Move
  <2> QED
    BY <1>1, <1>3, <2>1, <2>2, Zenon DEF Passage
<1>4. ASSUME NEW r \in Requests, NEW p \in Stages, NEW q \in Stages, At(p, r)', At(q, r)' PROVE p = q
  <2>1. CASE r = x
    BY <1>3, <1>4, <2>1, Zenon
  <2>2. CASE r # x
    <3>1. At(p, r) /\ At(q, r)
        BY <1>1, <1>4, <2>2, Zenon DEF Move
    <3> QED
        BY <3>1, Zenon DEF ConservedInv, PlaceInv
  <2> QED
    BY <2>1, <2>2, Zenon
<1> DEFINE Late == {"completion", "writer", "response", "client"}
<1>5. ASSUME NEW r \in Requests, NEW w \in Workers, task'[w].pc = "await", task'[w].req = r,
             NEW p \in Stages, At(p, r)'
      PROVE p \in Late
  <2>1. CASE InSeq(r, completions')
    <3>1. At("completion", r)'
        BY <2>1, Zenon DEF At, InCompletions
    <3>2. p = "completion"
        BY <1>4, <1>5, <3>1, Zenon DEF Stages
    <3> QED
        BY <3>2, Zenon
  <2>2. CASE task[w].pc = "await" /\ task[w].req = r
    <3>1. \A s \in Stages : At(s, r) => s \in Late
        BY <2>2, Zenon DEF ConservedInv, PlaceInv
    <3>2. CASE r = x
      <4>1. p = b
        BY <1>3, <1>5, <3>2, Zenon
      <4>2. ~(x = cli.req /\ cli.pc = "push")
        BY <2>2, <3>2, NextIsNowhere, Zenon DEF ConservedInv
      <4>3. b # "nowhere"
        BY <1>2, <4>1, Zenon
      <4>4. At(a, x) /\ <<a, b>> \in Along
        BY <1>1, <3>2, <4>2, <4>3, Zenon DEF Passage
      <4>5. a \in Late
        BY <1>2, <3>1, <3>2, <4>4, Zenon
      <4>6. \A c, d : <<c, d>> \in Along /\ c \in Late => d \in Late
        BY Zenon DEF Along
      <4> QED
        BY <4>1, <4>4, <4>5, <4>6, Zenon
    <3>3. CASE r # x
      <4>1. At(p, r)
        BY <1>1, <1>5, <3>3, Zenon DEF Move
      <4> QED
        BY <3>1, <4>1, Zenon
    <3> QED
        BY <3>2, <3>3, Zenon
  <2> QED
    BY <1>5, <2>1, <2>2, HandsStep, Zenon
<1> QED
    BY <1>4, <1>5, Zenon DEF PlaceInv

\* Every step keeps what has been published, and nothing else, in its places.
LEMMA KnownStep ==
    ASSUME Types, StopOrder, ConservedInv, [Next]_vars
    PROVE KnownInv'
<1>1. PICK x, a, b : Move(x, a, b) /\ Passage(x, a, b)
    BY StepMoves, Zenon DEF Moves
<1>2. "nowhere" \notin Stages /\ \A c, d : <<c, d>> \in Along => c \in Stages /\ d \in Stages
    BY Zenon DEF Stages, Along
<1>3. /\ Published \subseteq Published'
      /\ broken \/ (cli.pc = "push" /\ cli'.pc = "pushed" /\ cli'.req = cli.req) \/ Published' = Published
      /\ cli.pc = "push" /\ cli'.pc = "pushed" => Published' = Published \cup {cli'.req}
    BY PublishedGrows, Zenon DEF ConservedInv
<1>4. \A r \in Requests : \A p \in Stages : At(p, r) => r \in Published
    BY Zenon DEF ConservedInv, KnownInv
<1>5. ASSUME NEW r \in Requests, NEW p \in Stages, At(p, r)' PROVE r \in Published'
  <2>1. CASE At(p, r)
    BY <1>3, <1>4, <2>1, Zenon
  <2>2. CASE r = x /\ p = b
    <3>1. CASE x = cli.req /\ cli.pc = "push" /\ cli'.pc = "pushed" /\ cli'.req = cli.req
        BY <1>3, <2>2, <3>1, Zenon
    <3>2. CASE At(a, x) /\ (<<a, b>> \in Along \/ a \in {"handler", "writer"})
      <4>1. a \in Stages
        BY <1>2, <3>2, Zenon DEF Stages
      <4> QED
        BY <1>3, <1>4, <2>2, <3>2, <4>1, Zenon
    <3> QED
        BY <1>1, <2>2, <3>1, <3>2, Zenon DEF Passage
  <2> QED
    BY <1>1, <1>5, <2>1, <2>2, Zenon DEF Move
<1>6. ASSUME NEW r \in Requests, NEW w \in Workers, task'[w].req = r PROVE r \in Published'
  <2>1. CASE task[w].req = r
    BY <1>3, <2>1, Zenon DEF ConservedInv, KnownInv
  <2>2. CASE task'[w].pc = "run"
    <3>1. At("handler", r)'
        BY <1>6, <2>2, Zenon DEF At, InHandler
    <3> QED
        BY <1>5, <3>1, Zenon DEF Stages
  <2>3. r # NoItem
    BY ItemsAssumption, Zenon
  <2> QED
    BY <1>6, <2>1, <2>2, <2>3, HandsStep, Zenon
<1>7. ASSUME ~broken', NEW r \in Published' PROVE \E p \in Stages : At(p, r)'
  <2>1. ~broken
    BY <1>7, BrokenStays, Zenon
  <2>2. CASE r \in Published
    <3>1. PICK p \in Stages : At(p, r)
        BY <2>1, <2>2, Zenon DEF ConservedInv, KnownInv
    <3>2. r \in Requests
      <4>1. pushed \subseteq Requests /\ (cli.pc = "pushed" => cli.req \in Requests)
        BY Zenon DEF Types, ClientTypes
      <4>2. cli.pc # "gone"
        BY <2>1, Zenon DEF ConservedInv, SubmitInv
      <4> QED
        BY <2>2, <4>1, <4>2, Zenon DEF Published
    <3>3. CASE r = x /\ p = a
      <4>1. <<a, b>> \in Along
        BY <1>1, <1>2, <1>7, <3>2, <3>3, Zenon DEF Passage
      <4>2. b \in Stages
        BY <1>2, <4>1, Zenon
      <4>3. At(b, r)'
        BY <1>1, <3>2, <3>3, <4>2, Zenon DEF Move
      <4> QED
        BY <4>2, <4>3, Zenon
    <3>4. CASE ~(r = x /\ p = a)
      <4>1. At(p, r)'
        BY <1>1, <3>1, <3>2, <3>4, Zenon DEF Move
      <4> QED
        BY <4>1, Zenon
    <3> QED
        BY <3>3, <3>4, Zenon
  <2>3. CASE r = cli.req /\ cli.pc = "push" /\ cli'.pc = "pushed" /\ cli'.req = cli.req
    <3>1. At("ring", cli.req)'
        BY <2>3, PushEnters, Zenon
    <3>2. At("ring", r)'
        BY <2>3, <3>1, Zenon DEF At, InRing, KindOf
    <3> QED
        BY <3>2, Zenon DEF Stages
  <2> QED
    BY <1>3, <1>7, <2>1, <2>2, <2>3, Zenon
<1> QED
    BY <1>5, <1>6, <1>7, Zenon DEF KnownInv

\* The steps that touch the completion of somebody who waits for it.
LEMMA DoneSteps ==
    /\ \A w \in Workers : Worker(w) => AwaitWriteCompletion(w) \/ UNCHANGED done
    /\ Writer => CompleteItem \/ UNCHANGED done
    /\ Publisher => PublishReturn \/ UNCHANGED done
    /\ Stopper => FailPendingCompletionItems \/ UNCHANGED done
<1>1. ASSUME NEW w \in Workers, Worker(w) PROVE AwaitWriteCompletion(w) \/ UNCHANGED done
    BY <1>1, Zenon DEF Worker, WorkerTake, WorkerExit, WriteResponse, WriteRefused, Enqueue, completion
<1>2. Writer => CompleteItem \/ UNCHANGED done
    BY Zenon DEF Writer, WaitAndPopCompletionItem, WriterBlocks, PushResponse, PushResponseRecheck,
        WaitForResponseCredit, ResponseCreditPoll, WriterSignal, OnCompletionItemFinished, WriterOnly, completion
<1>3. Publisher => PublishReturn \/ UNCHANGED done
    BY Zenon DEF Publisher, PublishEvent, PublishEnqueue, Enqueue, completion
<1>4. Stopper => FailPendingCompletionItems \/ UNCHANGED done
    BY Zenon DEF Stopper, StopBegins, StopSteps, StopTimesOut, StopBreaksSession, StopWriterFlag,
        StopSignalsCredit, StopNotifiesWriter, StopJoinsWriter, StopWakesDispatcher, OnlySessionBroken,
        StopJoinsDispatcher, StopExecutor, StopJoinsExecutor, StopResetsSession, completion
<1> QED
    BY <1>1, <1>2, <1>3, <1>4, Zenon

\* A notification of the response writer, and an item behind the others, leave a
\* completion served.
LEMMA ServedStays ==
    ASSUME Types, NEW i, done'[i] = done[i], InSeq(i, completions) => InSeq(i, completions'),
           NotifyWriter \/ UNCHANGED writer
    PROVE Served(i) => Served(i)'
<1>1. /\ writer'.item = writer.item
      /\ writer'.pc = writer.pc \/ (writer.pc = "blocked" /\ writer'.pc = "test")
    BY NotifyKeeps, Zenon
<1>2. CASE writer'.pc = writer.pc
    BY <1>1, <1>2, Zenon DEF Served, WriterHolds
<1>3. CASE writer.pc = "blocked"
  <2>1. ~WriterHolds
    BY <1>3, Zenon DEF WriterHolds
  <2> QED
    BY <2>1, Zenon DEF Served
<1> QED
    BY <1>1, <1>2, <1>3, Zenon

\* EnqueueCompletion leaves its item, and every other one, served.
LEMMA EnqueueServes ==
    ASSUME Types, NEW x \in Items, Enqueue(x), NEW i
    PROVE (Served(i) => Served(i)') /\ Served(x)'
<1>1. completions \in Seq(Items) /\ completions' = Append(completions, x) /\ done' = done /\ NotifyWriter
    BY Zenon DEF Types, CompletionTypes, Enqueue
<1>2. InSeq(i, Append(completions, x)) <=> InSeq(i, completions) \/ i = x
    BY <1>1, InSeqAppend, Zenon
<1>3. InSeq(x, Append(completions, x))
    BY <1>1, InSeqAppend, Zenon
<1>4. Served(i) => Served(i)'
    BY <1>1, <1>2, ServedStays, Zenon
<1> QED
    BY <1>1, <1>3, <1>4, Zenon DEF Served

\* The response writer completes what it takes.
LEMMA WriterServes ==
    ASSUME Types, Writer, NEW i \in Items, Served(i)
    PROVE Served(i)'
<1>1. /\ done \in [Items -> {"none", "Ok", "PeerDisconnected", "QueueFull"}]
      /\ writer.status \in {"Ok", "PeerDisconnected", "QueueFull"} /\ completions \in Seq(Items)
    BY Zenon DEF Types, CompletionTypes
<1>2. CASE CompleteItem
  <2>1. /\ done' = [done EXCEPT ![writer.item] = writer.status] /\ completions' = completions
        /\ writer.pc = "complete"
    BY <1>2, Zenon DEF CompleteItem
  <2>2. CASE i = writer.item
    <3>1. done'[i] = writer.status
        BY <1>1, <2>1, <2>2, Zenon
    <3>2. done'[i] # "none"
        BY <1>1, <3>1, Zenon
    <3> QED
        BY <3>2, Zenon DEF Served
  <2>3. CASE i # writer.item
    <3>1. done'[i] = done[i]
        BY <1>1, <2>1, <2>3, Zenon
    <3> QED
        BY <2>1, <2>3, <3>1, Zenon DEF Served
  <2> QED
    BY <2>2, <2>3, Zenon
<1>3. CASE ~CompleteItem
  <2>1. done' = done
    BY <1>3, DoneSteps, Zenon
  <2>2. CASE done[i] # "none"
    BY <2>1, <2>2, Zenon DEF Served
  <2>3. CASE InSeq(i, completions)
    <3>1. CASE completions' = completions
        BY <2>3, <3>1, Zenon DEF Served
    <3>2. CASE completions # <<>> /\ completions' = Tail(completions) /\ writer'.pc = "push" /\ writer'.item = Head(completions)
      <4>1. InSeq(i, Tail(completions)) \/ i = Head(completions)
        BY <1>1, <2>3, <3>2, InSeqTail, Zenon
      <4>2. WriterHolds' /\ writer'.pc # "account"
        BY <3>2, ZenonT(60) DEF WriterHolds
      <4> QED
        BY <3>2, <4>1, <4>2, Zenon DEF Served
    <3> QED
        BY <3>1, <3>2, WriterEffect, Zenon
  <2>4. CASE WriterHolds /\ writer.item = i /\ writer.pc # "account"
    <3>1. writer.pc # "test" /\ writer.pc # "blocking"
        BY <2>4, Zenon DEF WriterHolds
    <3>2. /\ writer'.item = writer.item
          /\ \/ writer'.pc = "push" \/ writer'.pc = "credit" \/ writer'.pc = "creditPoll"
             \/ writer'.pc = "pushed" \/ writer'.pc = "finish" \/ writer'.pc = "complete"
        BY <1>3, <2>4, <3>1, WriterEffect, ZenonT(60)
    <3>3. WriterHolds' /\ writer'.pc # "account"
        BY <3>2, Zenon DEF WriterHolds
    <3> QED
        BY <2>4, <3>2, <3>3, Zenon DEF Served
  <2> QED
    BY <2>2, <2>3, <2>4, Zenon DEF Served
<1> QED
    BY <1>2, <1>3, Zenon

\* Every step serves those who wait for a completion.
LEMMA ServedStep ==
    ASSUME Types, ConservedInv, ServedInv, [Next]_vars
    PROVE ServedInv'
<1> SUFFICES ASSUME NEW i \in Items, Awaited(i)' PROVE Served(i)'
    BY Zenon DEF ServedInv
<1>1. Awaited(i) => Served(i)
    BY Zenon DEF ServedInv
<1>2. /\ done \in [Items -> {"none", "Ok", "PeerDisconnected", "QueueFull"}]
      /\ \A w \in Workers : Busy(w) => task[w].req \in Requests
      /\ Event \notin Requests /\ Event \in Items /\ Requests \subseteq Items
    BY ItemsAssumption, Zenon DEF Types, CompletionTypes, ExecutorTypes, Items
<1>3. ASSUME UNCHANGED <<task, pub, done, completions>>, NotifyWriter \/ UNCHANGED writer PROVE Served(i)'
  <2>1. Awaited(i)
    BY <1>3, Zenon DEF Awaited
  <2> QED
    BY <1>1, <1>3, <2>1, ServedStays, Zenon
<1>4. ASSUME NEW w \in Workers, Worker(w) PROVE Served(i)'
  <2>0. pub' = pub /\ \A v \in Workers : v # w => task'[v] = task[v]
    BY <1>4, WorkerKeeps, WorkerEffect, Zenon
  <2>1. CASE task[w].pc = "run" /\ task'[w].req = task[w].req /\ Enqueue(task[w].req)
    <3>1. PICK x \in Items : x = task[w].req
        BY <1>2, <2>1, Zenon DEF Busy
    <3>2. (Served(i) => Served(i)') /\ Served(x)'
        BY <2>1, <3>1, EnqueueServes, Zenon
    <3>3. Awaited(i) \/ i = task[w].req
      <4>1. CASE pub'.pc = "await" /\ i = Event
        BY <2>0, <4>1, Zenon DEF Awaited
      <4>2. ASSUME NEW v \in Workers, task'[v].pc = "await", task'[v].req = i PROVE Awaited(i) \/ i = task[w].req
        BY <2>0, <2>1, <4>2, Zenon DEF Awaited
      <4> QED
        BY <4>1, <4>2, Zenon DEF Awaited
    <3> QED
        BY <1>1, <3>1, <3>2, <3>3, Zenon
  <2>2. CASE AwaitWriteCompletion(w) /\ task[w].pc = "await" /\ task'[w].pc = "idle" /\ UNCHANGED <<completions, writer>>
    <3>1. done' = [done EXCEPT ![task[w].req] = "none"] /\ task[w].req \in Requests
        BY <1>2, <2>2, Zenon DEF AwaitWriteCompletion, Busy
    <3>2. \A v \in Workers : v # w => task'[v] = task[v] /\ ~(task[v].req = task[w].req)
        BY <1>4, <3>1, WorkerEffect, Zenon DEF ConservedInv, OnceInv
    <3>3. Awaited(i) /\ i # task[w].req
      <4>1. CASE pub'.pc = "await" /\ i = Event
        BY <1>2, <2>0, <3>1, <4>1, Zenon DEF Awaited
      <4>2. ASSUME NEW v \in Workers, task'[v].pc = "await", task'[v].req = i PROVE Awaited(i) /\ i # task[w].req
        <5>1. v # w
            BY <2>2, <4>2, Zenon
        <5> QED
            BY <3>2, <4>2, <5>1, Zenon DEF Awaited
      <4> QED
        BY <4>1, <4>2, Zenon DEF Awaited
    <3>4. done'[i] = done[i]
        BY <1>2, <3>1, <3>3, Zenon
    <3> QED
        BY <1>1, <2>2, <3>3, <3>4, ServedStays, Zenon
  <2>3. CASE ~AwaitWriteCompletion(w) /\ task'[w].pc \in {"run", "exit", "refused", "idle"} /\ UNCHANGED <<completions, writer>>
    <3>1. done' = done
        BY <1>4, <2>3, DoneSteps, Zenon
    <3>2. task'[w].pc # "await"
        BY <2>3, Zenon
    <3>3. Awaited(i)
        BY <2>0, <3>2, Zenon DEF Awaited
    <3> QED
        BY <1>1, <2>3, <3>1, <3>3, ServedStays, Zenon
  <2>4. AwaitWriteCompletion(w) => task[w].pc = "await"
    BY Zenon DEF AwaitWriteCompletion
  <2>5. CASE AwaitWriteCompletion(w)
    BY <1>4, <2>2, <2>4, <2>5, WorkerEffect, ZenonT(60)
  <2>6. CASE ~AwaitWriteCompletion(w)
    BY <1>4, <2>1, <2>3, <2>6, WorkerEffect, ZenonT(60)
  <2> QED
    BY <2>5, <2>6, Zenon
<1>5. CASE Writer
  <2>1. Awaited(i)
    BY <1>5, WriterKeeps, Zenon DEF Awaited
  <2> QED
    BY <1>1, <1>5, <2>1, WriterServes, Zenon
<1>6. CASE Publisher
  <2>0. task' = task
    BY <1>6, PublisherKeeps, Zenon
  <2>1. CASE PublishReturn
    <3>1. pub' = [pub EXCEPT !.pc = "idle"] /\ done' = [done EXCEPT ![Event] = "none"] /\ UNCHANGED <<completions, writer>>
        BY <2>1, Zenon DEF PublishReturn
    <3>2. pub'.pc # "await"
      <4>1. pub \in [pc : {"idle", "enqueue", "await"}, count : 0 .. load.events]
        BY Zenon DEF Types, CallerTypes
      <4>2. pub'.pc = "idle"
        BY <3>1, <4>1, Zenon
      <4> QED
        BY <4>2, Zenon
    <3>3. Awaited(i) /\ i \in Requests
        BY <1>2, <2>0, <3>2, Zenon DEF Awaited, Busy
    <3>4. done'[i] = done[i]
        BY <1>2, <3>1, <3>3, Zenon
    <3> QED
        BY <1>1, <3>1, <3>3, <3>4, ServedStays, Zenon
  <2>2. CASE CanEnqueue /\ Enqueue(Event)
    <3>1. (Served(i) => Served(i)') /\ Served(Event)'
        BY <1>2, <2>2, EnqueueServes, Zenon
    <3> QED
        BY <1>1, <2>0, <3>1, Zenon DEF Awaited
  <2>3. CASE ~PublishReturn /\ UNCHANGED <<completions, writer>>
    <3>1. done' = done
        BY <1>6, <2>3, DoneSteps, Zenon
    <3>2. CASE Awaited(i)
        BY <1>1, <2>3, <3>1, <3>2, ServedStays, Zenon
    <3>3. CASE ~Awaited(i)
      <4>1. pub'.pc = "await" /\ pub.pc # "await"
        BY <2>0, <3>3, Zenon DEF Awaited
      <4>2. pub'.pc = "await" => CanEnqueue /\ Enqueue(Event)
        <5>1. CASE PublishEvent
          <6>1. pub'.pc \in {"idle", "enqueue"}
            BY <5>1, SMT, Z3 DEF PublishEvent
          <6> QED
            BY <6>1, Zenon
        <5>2. CASE PublishEnqueue /\ ~CanEnqueue
          <6>1. pub' = [pub EXCEPT !.pc = "idle"] /\ pub \in [pc : {"idle", "enqueue", "await"}, count : 0 .. load.events]
            BY <5>2, Zenon DEF PublishEnqueue, Types, CallerTypes
          <6>2. pub'.pc = "idle"
            BY <6>1, Zenon
          <6> QED
            BY <6>2, Zenon
        <5>3. CASE PublishEnqueue /\ CanEnqueue
            BY <5>3, Zenon DEF PublishEnqueue
        <5> QED
            BY <1>6, <2>3, <5>1, <5>2, <5>3, Zenon DEF Publisher
      <4>3. Served(Event)'
        BY <1>2, <4>1, <4>2, EnqueueServes, Zenon
      <4>4. i = Event
        BY <2>0, <3>3, Zenon DEF Awaited
      <4> QED
        BY <4>3, <4>4, Zenon
    <3> QED
        BY <3>2, <3>3, Zenon
  <2> QED
    BY <1>6, <2>1, <2>2, <2>3, EnqueueSteps, Zenon
<1>7. CASE Stopper
  <2>0. task' = task /\ pub' = pub
    BY <1>7, StopperKeeps, Zenon
  <2>1. CASE FailPendingCompletionItems
    <3>1. writer' = writer
        BY <2>1, Zenon DEF FailPendingCompletionItems
    <3>2. done'[i] = IF InSeq(i, completions) THEN "PeerDisconnected" ELSE done[i]
        BY <2>1, Zenon DEF FailPendingCompletionItems, InSeq
    <3>3. Awaited(i)
        BY <2>0, Zenon DEF Awaited
    <3>4. CASE InSeq(i, completions)
        BY <3>2, <3>4, Zenon DEF Served
    <3>5. CASE ~InSeq(i, completions)
        BY <1>1, <3>1, <3>2, <3>3, <3>5, Zenon DEF Served, WriterHolds
    <3> QED
        BY <3>4, <3>5, Zenon
  <2>2. CASE ~FailPendingCompletionItems
    BY <1>3, <1>7, <2>0, <2>2, DoneSteps, StopperEffect, Zenon
  <2> QED
    BY <2>1, <2>2, Zenon
<1>8. CASE Dispatcher \/ Submitter \/ Receiver \/ UNCHANGED vars
  <2>1. UNCHANGED <<task, pub, done, completions, writer>>
    BY <1>8, DispatcherKeeps, SubmitterKeeps, ReceiverKeeps, Zenon DEF vars, execution, completion
  <2> QED
    BY <1>3, <2>1, Zenon
<1> QED
    BY <1>4, <1>5, <1>6, <1>7, <1>8, StepIsOfAThread, Zenon

\* The initial state has no request and nobody who waits.
LEMMA ConservedInit == Init => ConservedInv /\ ServedInv
<1> SUFFICES ASSUME Init PROVE ConservedInv /\ ServedInv
    BY Zenon
<1>1. /\ \A k \in Kinds : reqRing[k] = <<>> /\ pool[k].queue = <<>>
      /\ respRing = <<>> /\ completions = <<>> /\ received = {} /\ pushed = {}
    BY Zenon DEF Init
<1>2. /\ \A w \in Workers : task[w].pc = "idle" /\ task[w].req = NoItem
      /\ writer.pc = "test" /\ cli.pc = "idle" /\ pub.pc = "idle"
      /\ disp.pc = "loop" /\ disp.req = NoItem
    BY Zenon DEF Init, DispatcherTop
<1>3. ~broken /\ writerRunning /\ stop = "idle" /\ load \in Workloads
    BY Zenon DEF Init
<1>4. \A x : ~InSeq(x, <<>>) /\ Once(x, <<>>)
    BY SMT, Z3 DEF InSeq, Once
<1>5. \A r \in Requests : KindOf(r) \in Kinds /\ r # NoItem
    BY KindsOf, ItemsAssumption, Zenon
<1>6. \A r \in Requests : \A p \in Stages : ~At(p, r)
  <2> SUFFICES ASSUME NEW r \in Requests, NEW p \in Stages PROVE ~At(p, r)
    BY Zenon
  <2>1. ~InRing(r) /\ ~InExecutor(r) /\ ~InCompletions(r) /\ ~InResponses(r)
    BY <1>1, <1>4, <1>5, Zenon DEF InRing, InExecutor, InCompletions, InResponses
  <2>2. ~InDispatcher(r) /\ ~InHandler(r) /\ ~InClient(r)
    BY <1>1, <1>2, <1>5, Zenon DEF InDispatcher, InHandler, InClient
  <2>3. ~InWriter(r)
    BY <1>2, Zenon DEF InWriter
  <2> QED
    BY <2>1, <2>2, <2>3, Zenon DEF At
<1>7. KindInv
    BY <1>1, <1>2, <1>4, Zenon DEF KindInv
<1>8. WriterInv
    BY <1>1, <1>2, <1>3, Zenon DEF WriterInv
<1>9. SubmitInv
  <2>1. Cardinality(pushed) = 0
    BY <1>1, FS_EmptySet, Zenon
  <2>2. Len(load.requests) \in Nat
    BY <1>3, WorkloadsAssumption, SMT, Z3
  <2>3. pushed = {load.requests[j] : j \in 1 .. Cardinality(pushed)} /\ Cardinality(pushed) <= Len(load.requests)
    BY <1>1, <2>1, <2>2, SMT, Z3
  <2> QED
    BY <1>2, <2>3, Zenon DEF SubmitInv
<1>10. OnceInv
    BY <1>1, <1>2, <1>4, <1>5, Zenon DEF OnceInv
<1>11. PlaceInv
    BY <1>6, Zenon DEF PlaceInv
<1>12. Published = {}
    BY <1>1, <1>2, Zenon DEF Published
<1>13. KnownInv
    BY <1>2, <1>5, <1>6, <1>12, Zenon DEF KnownInv
<1>14. ServedInv
  <2>1. \A i \in Items : ~Awaited(i)
    BY <1>2, Zenon DEF Awaited
  <2> QED
    BY <2>1, Zenon DEF ServedInv
<1> QED
    BY <1>7, <1>8, <1>9, <1>10, <1>11, <1>13, <1>14, Zenon DEF ConservedInv

\* Every step conserves the requests.
LEMMA ConservedStep ==
    ASSUME Types, StopOrder, ConservedInv, [Next]_vars
    PROVE ConservedInv'
<1>1. KindInv' /\ WriterInv' /\ SubmitInv'
    BY KindStep, WriterInvStep, SubmitInvStep, Zenon DEF ConservedInv
<1>2. OnceInv'
    BY StepMoves, Zenon
<1> QED
    BY <1>1, <1>2, PlaceStep, KnownStep, Zenon DEF ConservedInv

\* As long as the session is alive a request is At the one place that Places has.
LEMMA OnePlace ==
    ASSUME Types, ConservedInv, ~broken, NEW r \in pushed
    PROVE Cardinality(Places(r)) = 1
<1>1. r \in Requests /\ r \in Published
    BY Zenon DEF Types, ClientTypes, Published
<1>2. PICK p \in Stages : At(p, r)
    BY <1>1, Zenon DEF ConservedInv, KnownInv
<1>3. \A q \in Stages : At(q, r) <=> q = p
    BY <1>1, <1>2, Zenon DEF ConservedInv, PlaceInv
<1>4. InWriter(r) <=> /\ writer.item = r
                      /\ \/ writer.pc \in {"push", "credit", "creditPoll"}
                         \/ writer.pc = "finish" /\ writer.status # "Ok"
  <2>1. writer.status \in {"Ok", "PeerDisconnected", "QueueFull"}
    BY Zenon DEF Types, CompletionTypes
  <2>2. writer.pc = "finish" => writer.status # "PeerDisconnected"
    BY Zenon DEF ConservedInv, WriterInv
  <2>3. writer.pc = "finish" => (writer.status # "Ok" <=> writer.status = "QueueFull")
    BY <2>1, <2>2, Zenon
  <2> QED
    BY <2>3, Zenon DEF InWriter
<1>5. \A q : q \in Places(r) <=> q \in Stages /\ At(q, r)
  <2>1. ASSUME NEW q \in Stages PROVE q \in Places(r) <=> At(q, r)
    <3>1. CASE q = "ring"
        BY <3>1, Zenon DEF Places, At, InRing
    <3>2. CASE q = "dispatcher"
        BY <3>2, Zenon DEF Places, At, InDispatcher
    <3>3. CASE q = "executor"
        BY <3>3, Zenon DEF Places, At, InExecutor
    <3>4. CASE q = "handler"
        BY <3>4, Zenon DEF Places, At, InHandler
    <3>5. CASE q = "completion"
        BY <3>5, Zenon DEF Places, At, InCompletions
    <3>6. CASE q = "writer"
        BY <1>4, <3>6, Zenon DEF Places, At
    <3>7. CASE q = "response"
        BY <3>7, Zenon DEF Places, At, InResponses
    <3>8. CASE q = "client"
        BY <3>8, Zenon DEF Places, At, InClient
    <3> QED
        BY <2>1, <3>1, <3>2, <3>3, <3>4, <3>5, <3>6, <3>7, <3>8, Zenon DEF Stages
  <2>2. \A q : q \in Places(r) => q \in Stages
    BY Zenon DEF Places, Stages
  <2> QED
    BY <2>1, <2>2, Zenon
<1>6. Places(r) = {p}
    BY <1>3, <1>5, Zenon
<1> QED
    BY <1>6, FS_Singleton, Zenon

\* As long as the session is alive every request the client has pushed is in exactly one
\* place: DrainQueue pops it only for an executor that will take it, the executor thread
\* holds it until EnqueueCompletion has its reply, and the response writer until it is in
\* the ring or the session is broken. None is lost and none is answered twice.
THEOREM RequestsConserved == Spec => []RequestsAreConserved
<1>1. Types /\ StopOrder /\ [Next]_vars => StopOrder'
    BY StopOrderStep, Zenon
<1>2. Types /\ StopOrder /\ ConservedInv /\ [Next]_vars => ConservedInv'
    BY ConservedStep, Zenon
<1>3. Types /\ ConservedInv => RequestsAreConserved
    BY OnePlace, Zenon DEF RequestsAreConserved
<1>4. Init => ConservedInv
    BY ConservedInit, Zenon
<1> QED
    BY <1>1, <1>2, <1>3, <1>4, InitTypes, StepTypes, StopOrderInit, PTL DEF Spec

\* A thread that waits for its CompletionState is never forgotten, however
\* EnqueueCompletion races StopResponseWriter: the writer leaves only an empty queue
\* behind, and no other wait shares the state that AwaitWriteCompletion takes away.
THEOREM CompletionsServed == Spec => []NoStrandedCompletion
<1>1. Types /\ StopOrder /\ [Next]_vars => StopOrder'
    BY StopOrderStep, Zenon
<1>2. Types /\ StopOrder /\ ConservedInv /\ [Next]_vars => ConservedInv'
    BY ConservedStep, Zenon
<1>3. Types /\ ConservedInv /\ ServedInv /\ [Next]_vars => ServedInv'
    BY ServedStep, Zenon
<1>4. ConservedInv /\ ServedInv => NoStrandedCompletion
  <2> SUFFICES ASSUME ConservedInv, ServedInv, NEW i \in Items, Awaited(i)
               PROVE done[i] # "none" \/ (InSeq(i, completions) /\ QueueIsServed) \/ (WriterHolds /\ writer.item = i)
    BY Zenon DEF NoStrandedCompletion, Awaited
  <2>1. InSeq(i, completions) => QueueIsServed
    <3>1. ~InSeq(i, <<>>)
        BY SMT DEF InSeq
    <3> QED
        BY <3>1, Zenon DEF ConservedInv, WriterInv, QueueIsServed
  <2> QED
    BY <2>1, Zenon DEF ServedInv, Served
<1> QED
    BY <1>1, <1>2, <1>3, <1>4, ConservedInit, InitTypes, StepTypes, StopOrderInit, PTL DEF Spec

=============================================================================
