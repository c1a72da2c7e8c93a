------------------------- MODULE EngineSessionProofs -------------------------
(***************************************************************************)
(* For any number of control threads, starts, sessions and failures: a     *)
(* session id is served, a session is not reopened before its old server   *)
(* has stopped, publishers are joined, and OnStop leaves nothing behind.   *)
(***************************************************************************)
EXTENDS EngineSession, TLAPS

ServiceStates ==
    [closing : BOOLEAN, initialized : BOOLEAN, host : {"none", "empty", "open"},
     session : SomeSession, server : SomeSession, sessionId : SomeSession,
     running : BOOLEAN, thread : SomeSession]
ThreadStates ==
    [pc : Pcs, op : {"none", "open", "close", "any", "beat"},
     kinds : Kinds \cup {NoKinds}, svc : Services \cup {0}, session : SomeSession,
     join : SomeSession, dtor : BOOLEAN, calls : Nat]
PublisherStates == [pc : {"none", "test", "check", "take", "publish", "exited"}, server : SomeSession]

-----------------------------------------------------------------------------
(* The inductive invariant.                                                 *)

\* Between its first and its last critical section, CloseSession is in progress.
Closing(t) == thr[t].pc \in {"join", "stop", "drain", "closed"}

Outside == {"idle", "gate", "configure", "copy", "make", "initialize", "move"}
Inside == {"sample", "stats", "ensure", "handout", "invoke", "close", "join", "stop", "drain",
           "closed", "unpublish"}

\* A thread refers to a session service from the copy of session_service_ to its
\* return; a service that is not the current one does not become it again.
References ==
    /\ current \in {0, starts}
    /\ thr[Main].pc = "make" => current = 0 /\ starts < MaxStarts
    /\ thr[Main].pc = "move" => current # 0
    /\ \A t \in Threads :
          /\ thr[t].svc \in 0 .. starts
          /\ thr[t].pc \in Outside => thr[t].svc = 0
          /\ thr[t].pc \in Inside => thr[t].svc # 0

\* A session that was not created is not used.
Creation ==
    \A s \in Sessions :
        /\ s <= created => owner[s] \in Services
        /\ s > created => owner[s] = 0 /\ srv[s] = "none" /\ pub[s].pc = "none"

\* How the members of a service go together.
Service(g) ==
    LET v == svc[g] IN
    /\ v.host = "open" <=> v.session # 0
    /\ v.initialized <=> v.server # 0
    /\ v.running <=> v.thread # 0
    /\ v.session # 0 => owner[v.session] = g
    /\ v.sessionId # 0 => owner[v.sessionId] = g
    /\ v.thread # 0 => owner[v.thread] = g
    /\ v.initialized => v.server = v.session /\ srv[v.server] = "running"
    /\ v.closing => ~v.initialized /\ v.host = "none" /\ v.thread = 0 /\ v.sessionId = 0
    /\ g \notin failed => /\ v.host # "empty" /\ (v.host = "open" => v.initialized)
                          /\ v.thread # 0 => v.initialized
                          /\ v.sessionId # 0 => v.sessionId = v.server

\* What CloseSession has moved out of the service: the server runs until it is stopped.
Closer(t) ==
    LET g == thr[t].svc
        s == thr[t].session
    IN
    /\ svc[g].closing /\ s # 0 /\ owner[s] = g
    /\ thr[t].pc \in {"join", "stop"} => srv[s] = "running"
    /\ thr[t].pc = "drain" => srv[s] = "stopping"
    /\ thr[t].pc = "closed" => srv[s] = "stopped"

\* closing_ is a lock: it is set while one thread is in CloseSession, and by that one.
Closers ==
    /\ \A t \in Threads : Closing(t) => Closer(t)
    /\ \A t, u \in Threads : Closing(t) /\ Closing(u) /\ thr[t].svc = thr[u].svc => t = u
    /\ \A g \in Services : svc[g].closing => \E t \in Threads : Closing(t) /\ thr[t].svc = g
    /\ \A t \in Threads : thr[t].join # 0 => thr[t].pc = "join" /\ owner[thr[t].join] = thr[t].svc

\* Whoever has a server that runs.
Servers ==
    \A s \in Sessions : srv[s] \in {"running", "stopping"} =>
        svc[owner[s]].server = s \/ \E t \in Threads : Closing(t) /\ thr[t].session = s

\* Whoever has a publisher that runs, and the server that it publishes with.
Publishers ==
    \A p \in Sessions :
        /\ PublisherLives(p) => svc[owner[p]].thread = p \/ \E t \in Threads : thr[t].join = p
        /\ pub[p].pc = "publish" =>
              pub[p].server # 0 /\ owner[pub[p].server] = owner[p] /\ srv[pub[p].server] = "running"

\* The destructor runs in the last thread that holds a service nobody can get any more.
Destructors ==
    /\ \A t \in Threads : thr[t].dtor =>
          /\ thr[t].svc # 0 /\ thr[t].svc # current
          /\ \A u \in Threads : thr[u].svc = thr[t].svc => u = t
          /\ thr[t].pc \in {"close", "join", "stop", "drain", "closed", "return"}
          /\ thr[t].pc = "return" => ~svc[thr[t].svc].initialized
    /\ terminated => failed # {}

\* A service that nobody holds any more was closed by its destructor.
Abandoned ==
    \A g \in 1 .. starts : g # current /\ (\A t \in Threads : thr[t].svc # g) => ~svc[g].initialized

Types == TypeOK /\ References
Core == Creation /\ (\A g \in Services : Service(g)) /\ Closers /\ Servers /\ Publishers
Ending == Destructors /\ Abandoned
ESInv == Types /\ Core /\ Ending

\* What the types say of the variables that the steps read.
LEMMA TypesGive ==
    ASSUME Types
    PROVE /\ svc \in [Services -> ServiceStates] /\ thr \in [Threads -> ThreadStates]
          /\ pub \in [Sessions -> PublisherStates] /\ srv \in [Sessions -> {"none", "running", "stopping", "stopped"}]
          /\ owner \in [Sessions -> Services \cup {0}] /\ busy \subseteq Sessions /\ failed \subseteq Services
          /\ created \in 0 .. MaxSessions /\ starts \in 0 .. MaxStarts /\ MaxSessions \in Nat /\ MaxStarts \in Nat
          /\ Main \in Threads
          /\ \A t \in Threads : thr[t].pc \in Inside => thr[t].svc \in Services
<1>1. /\ svc \in [Services -> ServiceStates] /\ thr \in [Threads -> ThreadStates]
      /\ pub \in [Sessions -> PublisherStates]
    BY Zenon DEF Types, TypeOK, ServiceStates, ThreadStates, PublisherStates
<1>2. /\ srv \in [Sessions -> {"none", "running", "stopping", "stopped"}]
      /\ owner \in [Sessions -> Services \cup {0}] /\ busy \subseteq Sessions /\ failed \subseteq Services
    BY Zenon DEF Types, TypeOK
<1>3. created \in 0 .. MaxSessions /\ starts \in 0 .. MaxStarts /\ MaxSessions \in Nat /\ MaxStarts \in Nat
    BY BoundsAssumption DEF Types, TypeOK, SomeSession, Sessions, Services
<1>4. Main \in Threads
    BY Zenon DEF Threads
<1>5. ASSUME NEW t \in Threads, thr[t].pc \in Inside PROVE thr[t].svc \in Services
    <2>1. thr[t].svc \in Services \cup {0}
        BY <1>1, Zenon DEF ThreadStates
    <2> QED
        BY <1>5, <2>1, Zenon DEF Types, References
<1> QED
    BY <1>1, <1>2, <1>3, <1>4, <1>5, Zenon

-----------------------------------------------------------------------------
(* What the actions do.                                                     *)

\* Thread t goes to pc with these locals; the other threads stay where they are.
Moves(t, pc, g, s, j, d) ==
    /\ thr' \in [Threads -> ThreadStates]
    /\ thr'[t].pc = pc /\ thr'[t].svc = g /\ thr'[t].session = s /\ thr'[t].join = j /\ thr'[t].dtor = d
    /\ \A u \in Threads : u # t => thr'[u] = thr[u]

SameServices == UNCHANGED <<svc, pub, srv, owner, created, failed>>

\* A new record for one thread.
LEMMA ThreadUpdate ==
    ASSUME Types, NEW t \in Threads, NEW r \in ThreadStates, thr' = [thr EXCEPT ![t] = r]
    PROVE Moves(t, r.pc, r.svc, r.session, r.join, r.dtor)
<1>1. thr \in [Threads -> ThreadStates]
    BY TypesGive, Zenon
<1> QED
    BY <1>1, Zenon DEF Moves

\* A thread that only goes on keeps what it holds.
LEMMA GotoMoves ==
    ASSUME Types, NEW t \in Threads, NEW next \in Pcs, Goto(t, next)
    PROVE Moves(t, next, thr[t].svc, thr[t].session, thr[t].join, thr[t].dtor)
<1> DEFINE r == [thr[t] EXCEPT !.pc = next]
<1>1. thr \in [Threads -> ThreadStates]
    BY TypesGive, Zenon
<1>2. thr' = [thr EXCEPT ![t] = r]
    BY <1>1, Zenon DEF Goto
<1>3. r \in ThreadStates
    BY <1>1, Zenon DEF ThreadStates
<1>4. /\ r.pc = next /\ r.svc = thr[t].svc /\ r.session = thr[t].session /\ r.join = thr[t].join
      /\ r.dtor = thr[t].dtor
    BY <1>1, Zenon DEF ThreadStates
<1> HIDE DEF r
<1> QED
    BY <1>2, <1>3, <1>4, ThreadUpdate, Zenon

\* The steps of a thread that only moves.
LEMMA CallStep ==
    ASSUME Types, NEW t \in Threads, Call(t)
    PROVE /\ \E pc \in {"copy", "gate"} : Moves(t, pc, thr[t].svc, thr[t].session, thr[t].join, thr[t].dtor)
          /\ thr[t].pc = "idle" /\ work' \in 0 .. MaxWork
          /\ UNCHANGED <<stopping, current, starts, configured, ready, services, busy, terminated>>
<1>1. PICK op \in {"open", "close", "any", "beat"}, k \in Kinds \cup {NoKinds} :
          LET calls == thr[t].calls + 1
              next == IF op = "close" THEN "copy" ELSE "gate"
          IN thr' = [thr EXCEPT ![t] = [@ EXCEPT !.op = op, !.kinds = k, !.calls = calls, !.pc = next]]
    BY Zenon DEF Call
<1> DEFINE next == IF op = "close" THEN "copy" ELSE "gate"
           calls == thr[t].calls + 1
           r == [thr[t] EXCEPT !.op = op, !.kinds = k, !.calls = calls, !.pc = next]
<1>2. thr[t] \in ThreadStates /\ thr \in [Threads -> ThreadStates]
    BY TypesGive, Zenon
<1>3. next \in Pcs /\ next \in {"copy", "gate"} /\ calls \in Nat
    BY <1>2 DEF Pcs, ThreadStates
<1>4. thr' = [thr EXCEPT ![t] = r]
    BY <1>1, <1>2, Zenon
<1> HIDE DEF next, calls
<1>5. /\ r \in ThreadStates /\ r.pc = next /\ r.svc = thr[t].svc /\ r.session = thr[t].session
      /\ r.join = thr[t].join /\ r.dtor = thr[t].dtor
    BY <1>2, <1>3, Zenon DEF ThreadStates
<1> HIDE DEF r
<1>6. Moves(t, next, thr[t].svc, thr[t].session, thr[t].join, thr[t].dtor)
    BY <1>4, <1>5, ThreadUpdate, Zenon
<1>7. work' \in 0 .. MaxWork
    BY BoundsAssumption DEF Call, Types, TypeOK
<1> QED
    BY <1>3, <1>6, <1>7, Zenon DEF Call

\* What the copy of session_service_ changes.
LEMMA CopyStep ==
    ASSUME Types, NEW t \in Threads, CopyService(t)
    PROVE /\ \E pc \in {"return", "close", "sample", "ensure"} :
                /\ Moves(t, pc, current, thr[t].session, thr[t].join, thr[t].dtor)
                /\ pc # "return" => current # 0
          /\ thr[t].pc = "copy"
          /\ UNCHANGED <<lifecycle, services, busy, terminated>>
<1> DEFINE next == IF current = 0 THEN "return"
                   ELSE IF thr[t].op = "close" THEN "close"
                   ELSE IF thr[t].op = "beat" THEN "sample" ELSE "ensure"
           r == [thr[t] EXCEPT !.svc = current, !.pc = next]
<1>2. thr[t] \in ThreadStates /\ thr \in [Threads -> ThreadStates] /\ current \in Services \cup {0}
    BY TypesGive, Zenon DEF Types, TypeOK
<1>3. next \in Pcs /\ next \in {"return", "close", "sample", "ensure"} /\ (next # "return" => current # 0)
    BY Zenon DEF Pcs
<1>4. thr' = [thr EXCEPT ![t] = r]
    BY <1>2, Zenon DEF CopyService
<1> HIDE DEF next
<1>5. /\ r \in ThreadStates /\ r.pc = next /\ r.svc = current /\ r.session = thr[t].session
      /\ r.join = thr[t].join /\ r.dtor = thr[t].dtor
    BY <1>2, <1>3, Zenon DEF ThreadStates
<1> HIDE DEF r
<1>6. Moves(t, next, current, thr[t].session, thr[t].join, thr[t].dtor)
    BY <1>4, <1>5, ThreadUpdate, Zenon
<1> QED
    BY <1>3, <1>6, Zenon DEF CopyService

\* What the session id a heartbeat samples changes.
LEMMA SampleStep ==
    ASSUME Types, NEW t \in Threads, HeartbeatSample(t)
    PROVE /\ \E pc \in {"return", "stats"}, s \in SomeSession : Moves(t, pc, thr[t].svc, s, thr[t].join, thr[t].dtor)
          /\ thr[t].pc = "sample"
          /\ UNCHANGED <<lifecycle, services, busy, terminated>>
<1> DEFINE id == IF ready THEN svc[thr[t].svc].sessionId ELSE 0
           next == IF id # 0 THEN "stats" ELSE "return"
           r == [thr[t] EXCEPT !.session = id, !.pc = next]
<1>1. thr[t].pc = "sample" /\ UNCHANGED <<lifecycle, services, busy, terminated>>
    BY Zenon DEF HeartbeatSample
<1>2. thr[t] \in ThreadStates /\ thr \in [Threads -> ThreadStates]
    BY TypesGive, Zenon
<1>3. thr[t].svc \in Services /\ svc[thr[t].svc] \in ServiceStates
    BY <1>1, TypesGive, Zenon DEF Inside
<1>4. thr' = [thr EXCEPT ![t] = r]
    BY <1>2, Zenon DEF HeartbeatSample
<1>5. id \in SomeSession
    BY <1>3, Zenon DEF ServiceStates, SomeSession
<1>6. next \in Pcs /\ next \in {"return", "stats"}
    BY Zenon DEF Pcs
<1> HIDE DEF next, id
<1>7. /\ r \in ThreadStates /\ r.pc = next /\ r.svc = thr[t].svc /\ r.session = id
      /\ r.join = thr[t].join /\ r.dtor = thr[t].dtor
    BY <1>2, <1>5, <1>6, Zenon DEF ThreadStates
<1> HIDE DEF r
<1>8. Moves(t, next, thr[t].svc, id, thr[t].join, thr[t].dtor)
    BY <1>4, <1>7, ThreadUpdate, Zenon
<1> QED
    BY <1>1, <1>5, <1>6, <1>8, Zenon

\* Service g has these members afterwards; the others stay.
Becomes(g, closing, initialized, host, session, server, sessionId, running, thread) ==
    /\ svc' \in [Services -> ServiceStates]
    /\ svc'[g].closing = closing /\ svc'[g].initialized = initialized /\ svc'[g].host = host
    /\ svc'[g].session = session /\ svc'[g].server = server /\ svc'[g].sessionId = sessionId
    /\ svc'[g].running = running /\ svc'[g].thread = thread
    /\ \A h \in Services : h # g => svc'[h] = svc[h]

\* A new record for one service.
LEMMA ServiceBecomes ==
    ASSUME Types, NEW g \in Services, NEW v \in ServiceStates, svc' = [svc EXCEPT ![g] = v]
    PROVE Becomes(g, v.closing, v.initialized, v.host, v.session, v.server, v.sessionId, v.running, v.thread)
    BY TypesGive, Zenon DEF Becomes

\* Thread t stays in the same service with the same locals.
Walks(t, pc) == Moves(t, pc, thr[t].svc, thr[t].session, thr[t].join, thr[t].dtor)

\* The session host of g opens session s, which it has or creates.
Opens(g, s) ==
    /\ s \in Sessions /\ created' \in 0 .. MaxSessions /\ owner' \in [Sessions -> Services \cup {0}]
    /\ \/ svc[g].host = "open" /\ s = svc[g].session /\ UNCHANGED <<created, owner>>
       \/ /\ svc[g].host # "open" /\ s = created + 1 /\ created' = s /\ owner'[s] = g
          /\ \A r \in Sessions : r # s => owner'[r] = owner[r]

\* What the session host changes when it opens, or is open.
LEMMA OpensIs ==
    ASSUME Types, NEW g \in Services, Service(g), HostCreates(g, svc[g])
    PROVE /\ Opens(g, HostOpen(g, svc[g]).session)
          /\ LET o == HostOpen(g, svc[g]) IN
             /\ o \in ServiceStates /\ o.closing = svc[g].closing /\ o.initialized = svc[g].initialized /\ o.host = "open"
             /\ o.server = svc[g].server /\ o.sessionId = svc[g].sessionId
             /\ o.running = svc[g].running /\ o.thread = svc[g].thread
<1> DEFINE o == HostOpen(g, svc[g])
<1>1. svc[g] \in ServiceStates /\ created \in 0 .. MaxSessions /\ MaxSessions \in Nat /\ owner \in [Sessions -> Services \cup {0}]
    BY TypesGive, Zenon
<1>2. CASE svc[g].host = "open"
    <2>1. o = svc[g] /\ UNCHANGED <<created, owner>>
        BY <1>2, Zenon DEF HostOpen, HostCreates
    <2>2. svc[g].session \in Sessions
        BY <1>1, <1>2, Zenon DEF Service, ServiceStates, SomeSession
    <2> QED
        BY <1>1, <1>2, <2>1, <2>2, Zenon DEF Opens
<1>3. CASE svc[g].host # "open"
    <2>1. o = [svc[g] EXCEPT !.host = "open", !.session = created + 1]
        BY <1>3, Zenon DEF HostOpen
    <2>2. created + 1 \in Sessions /\ created' = created + 1 /\ owner' = [owner EXCEPT ![created + 1] = g]
        BY <1>1, <1>3 DEF HostCreates, Sessions
    <2>3. /\ o \in ServiceStates /\ o.closing = svc[g].closing /\ o.initialized = svc[g].initialized /\ o.host = "open"
          /\ o.server = svc[g].server /\ o.sessionId = svc[g].sessionId
          /\ o.running = svc[g].running /\ o.thread = svc[g].thread /\ o.session = created + 1
        BY <1>1, <2>1, <2>2, Zenon DEF ServiceStates, SomeSession
    <2>4. created' \in 0 .. MaxSessions
        BY <1>1, <2>2 DEF Sessions
    <2>5. /\ owner' \in [Sessions -> Services \cup {0}] /\ owner'[created + 1] = g
          /\ \A r \in Sessions : r # created + 1 => owner'[r] = owner[r]
        BY <1>1, <2>2, Zenon
    <2> QED
        BY <1>3, <2>2, <2>3, <2>4, <2>5, Zenon DEF Opens
<1> QED
    BY <1>2, <1>3, Zenon

\* The session host of g fails.
Fails(g) ==
    /\ svc[g].host # "open" /\ failures' \in 0 .. MaxFailures /\ failed' = failed \cup {g}
    /\ Becomes(g, svc[g].closing, svc[g].initialized, "empty", svc[g].session, svc[g].server, svc[g].sessionId,
               svc[g].running, svc[g].thread)
    /\ UNCHANGED <<pub, srv, owner, created>>

\* What the session host leaves behind when it fails.
LEMMA FailsIs ==
    ASSUME Types, NEW g \in Services, HostFails(g)
    PROVE Fails(g)
<1> DEFINE v == [svc[g] EXCEPT !.host = "empty"]
<1>1. svc[g] \in ServiceStates /\ svc \in [Services -> ServiceStates]
    BY TypesGive, Zenon
<1>2. svc' = [svc EXCEPT ![g] = v]
    BY <1>1, Zenon DEF HostFails
<1>3. /\ v \in ServiceStates /\ v.closing = svc[g].closing /\ v.initialized = svc[g].initialized /\ v.host = "empty"
      /\ v.session = svc[g].session /\ v.server = svc[g].server /\ v.sessionId = svc[g].sessionId
      /\ v.running = svc[g].running /\ v.thread = svc[g].thread
    BY <1>1, Zenon DEF ServiceStates
<1> HIDE DEF v
<1>4. Becomes(g, svc[g].closing, svc[g].initialized, "empty", svc[g].session, svc[g].server, svc[g].sessionId,
               svc[g].running, svc[g].thread)
    BY <1>2, <1>3, ServiceBecomes, Zenon
<1>5. failures' \in 0 .. MaxFailures
    BY BoundsAssumption DEF HostFails, Types, TypeOK
<1> QED
    BY <1>4, <1>5, Zenon DEF HostFails, Fails

\* The three ways in which EnsureInitialized changes a service, ...
EnsureFails(t) ==
    LET g == thr[t].svc IN Fails(g) /\ ~svc[g].initialized /\ ~svc[g].closing /\ Walks(t, "return")
StartFails(t) ==
    LET g == thr[t].svc IN
    /\ ~svc[g].initialized /\ ~svc[g].closing /\ failures' \in 0 .. MaxFailures /\ \E s \in Sessions : Opens(g, s)
    /\ Becomes(g, FALSE, FALSE, "none", 0, svc[g].server, svc[g].sessionId, svc[g].running, svc[g].thread)
    /\ Walks(t, "return") /\ UNCHANGED <<pub, srv, failed>>
Starts(t, s) ==
    LET g == thr[t].svc IN
    /\ ~svc[g].initialized /\ ~svc[g].closing /\ Opens(g, s)
    /\ Becomes(g, FALSE, TRUE, "open", s, s, svc[g].sessionId, svc[g].running, svc[g].thread)
    /\ srv' \in [Sessions -> {"none", "running", "stopping", "stopped"}]
    /\ srv'[s] = "running" /\ \A r \in Sessions : r # s => srv'[r] = srv[r]
    /\ Walks(t, "handout") \/ Walks(t, "invoke")
    /\ UNCHANGED <<pub, failures, failed>>

\* The outcomes of EnsureInitialized.
LEMMA EnsureStep ==
    ASSUME Types, Core, NEW t \in Threads, EnsureInitialized(t)
    PROVE /\ thr[t].pc = "ensure" /\ thr[t].svc \in Services /\ UNCHANGED <<lifecycle, busy, terminated>>
          /\ \/ (\E pc \in {"return", "handout", "invoke"} : Walks(t, pc)) /\ UNCHANGED services
             \/ EnsureFails(t) \/ StartFails(t) \/ \E s \in Sessions : Starts(t, s)
<1> DEFINE g == thr[t].svc
           onward == IF thr[t].op = "open" THEN "handout" ELSE "invoke"
<1>0. thr[t].pc = "ensure" /\ UNCHANGED <<lifecycle, busy, terminated>>
    BY Zenon DEF EnsureInitialized
<1>1. g \in Services /\ svc[g] \in ServiceStates /\ svc \in [Services -> ServiceStates]
    BY <1>0, TypesGive, Zenon DEF Inside
<1>2. Service(g)
    BY <1>1, Zenon DEF Core
<1>3. onward \in Pcs /\ onward \in {"handout", "invoke"} /\ "return" \in Pcs
    BY Zenon DEF Pcs
<1>4. ASSUME NEW next \in {"return", onward}, Goto(t, next) PROVE Walks(t, next)
    BY <1>3, <1>4, GotoMoves, Zenon DEF Walks
<1>5. CASE EnsureRefused(svc[g]) /\ Goto(t, "return") /\ UNCHANGED services
    BY <1>0, <1>1, <1>4, <1>5, Zenon
<1>6. CASE ~EnsureRefused(svc[g]) /\ svc[g].initialized /\ Goto(t, onward) /\ UNCHANGED services
    BY <1>0, <1>1, <1>3, <1>4, <1>6, Zenon
<1>7. CASE ~EnsureRefused(svc[g]) /\ ~svc[g].initialized /\ HostFails(g) /\ Goto(t, "return")
    BY <1>0, <1>1, <1>4, <1>7, FailsIs, Zenon DEF EnsureFails, EnsureRefused
<1>8. CASE /\ ~EnsureRefused(svc[g]) /\ ~svc[g].initialized
           /\ failures < MaxFailures /\ failures' = failures + 1 /\ HostCreates(g, svc[g])
           /\ svc' = [svc EXCEPT ![g] = [@ EXCEPT !.host = "none", !.session = 0]]
           /\ Goto(t, "return") /\ UNCHANGED <<pub, srv, failed>>
    <2> DEFINE v == [svc[g] EXCEPT !.host = "none", !.session = 0]
    <2>1. svc' = [svc EXCEPT ![g] = v]
        BY <1>1, <1>8, Zenon
    <2>2. /\ v \in ServiceStates /\ v.closing = svc[g].closing /\ v.initialized = svc[g].initialized /\ v.host = "none"
          /\ v.session = 0 /\ v.server = svc[g].server /\ v.sessionId = svc[g].sessionId
          /\ v.running = svc[g].running /\ v.thread = svc[g].thread
        BY <1>1, Zenon DEF ServiceStates, SomeSession
    <2>3. svc[g].closing = FALSE /\ svc[g].initialized = FALSE
        BY <1>1, <1>8, Zenon DEF EnsureRefused, ServiceStates
    <2> HIDE DEF v
    <2>4. Becomes(g, FALSE, FALSE, "none", 0, svc[g].server, svc[g].sessionId, svc[g].running, svc[g].thread)
        BY <1>1, <2>1, <2>2, <2>3, ServiceBecomes, Zenon
    <2>5. failures' \in 0 .. MaxFailures
        BY <1>8, BoundsAssumption DEF Types, TypeOK
    <2>6. \E s \in Sessions : Opens(g, s)
        BY <1>1, <1>2, <1>8, OpensIs, Zenon DEF Opens
    <2>7. Walks(t, "return")
        BY <1>4, <1>8, Zenon
    <2> QED
        BY <1>0, <1>1, <1>8, <2>3, <2>4, <2>5, <2>6, <2>7, Zenon DEF StartFails
<1>9. CASE /\ ~EnsureRefused(svc[g]) /\ ~svc[g].initialized /\ HostCreates(g, svc[g])
           /\ svc' = [svc EXCEPT ![g] = [HostOpen(g, svc[g]) EXCEPT !.server = HostOpen(g, svc[g]).session, !.initialized = TRUE]]
           /\ srv' = [srv EXCEPT ![HostOpen(g, svc[g]).session] = "running"]
           /\ Goto(t, onward) /\ UNCHANGED <<pub, failures, failed>>
    <2> DEFINE o == HostOpen(g, svc[g])
               s == o.session
               v == [o EXCEPT !.server = s, !.initialized = TRUE]
    <2>1. /\ Opens(g, s) /\ o \in ServiceStates /\ o.closing = svc[g].closing /\ o.host = "open"
          /\ o.sessionId = svc[g].sessionId /\ o.running = svc[g].running /\ o.thread = svc[g].thread
        BY <1>1, <1>2, <1>9, OpensIs, Zenon
    <2>2. svc' = [svc EXCEPT ![g] = v] /\ srv' = [srv EXCEPT ![s] = "running"]
        BY <1>9, Zenon
    <2> HIDE DEF o
    <2>3. s \in Sessions
        BY <2>1, Zenon DEF Opens
    <2>4. svc[g].closing = FALSE /\ ~svc[g].initialized
        BY <1>1, <1>9, Zenon DEF EnsureRefused, ServiceStates
    <2>5. /\ v \in ServiceStates /\ v.closing = FALSE /\ v.initialized = TRUE /\ v.host = "open"
          /\ v.session = s /\ v.server = s /\ v.sessionId = svc[g].sessionId
          /\ v.running = svc[g].running /\ v.thread = svc[g].thread
        BY <2>1, <2>3, <2>4, Zenon DEF ServiceStates, SomeSession
    <2> HIDE DEF v, s
    <2>6. Becomes(g, FALSE, TRUE, "open", s, s, svc[g].sessionId, svc[g].running, svc[g].thread)
        BY <1>1, <2>2, <2>5, ServiceBecomes, Zenon
    <2>7. /\ srv' \in [Sessions -> {"none", "running", "stopping", "stopped"}]
          /\ srv'[s] = "running" /\ \A r \in Sessions : r # s => srv'[r] = srv[r]
        BY <2>2, <2>3, TypesGive, Zenon
    <2>8. Walks(t, "handout") \/ Walks(t, "invoke")
        BY <1>3, <1>4, <1>9, Zenon
    <2>9. Starts(t, s)
        BY <1>9, <2>1, <2>4, <2>6, <2>7, <2>8, Zenon DEF Starts
    <2> QED
        BY <1>0, <1>1, <2>3, <2>9, Zenon
<1> QED
    BY <1>5, <1>6, <1>7, <1>8, <1>9, Zenon DEF EnsureInitialized

\* ... and the two ways in which the second section of OpenSession does.
HandOutFails(t) == Fails(thr[t].svc) /\ svc[thr[t].svc].host # "none" /\ Walks(t, "return") /\ UNCHANGED terminated
HandsOut(t, s) ==
    LET g == thr[t].svc IN
    /\ svc[g].host # "none" /\ Opens(g, s)
    /\ \/ /\ ~svc[g].running
          /\ Becomes(g, svc[g].closing, svc[g].initialized, "open", s, svc[g].server, s, TRUE, s)
          /\ pub' \in [Sessions -> PublisherStates] /\ pub'[s].pc = "test" /\ \A p \in Sessions : p # s => pub'[p] = pub[p]
          /\ terminated' = (terminated \/ svc[g].thread # 0)
       \/ /\ svc[g].running
          /\ Becomes(g, svc[g].closing, svc[g].initialized, "open", s, svc[g].server, s, TRUE, svc[g].thread)
          /\ UNCHANGED <<pub, terminated>>
    /\ Moves(t, "return", g, s, thr[t].join, thr[t].dtor) /\ UNCHANGED <<srv, failures, failed>>

\* The outcomes of the second section of OpenSession.
LEMMA HandOutStep ==
    ASSUME Types, Core, NEW t \in Threads, HandOut(t)
    PROVE /\ thr[t].pc = "handout" /\ thr[t].svc \in Services /\ UNCHANGED <<lifecycle, busy>>
          /\ \/ Walks(t, "return") /\ UNCHANGED <<services, terminated>>
             \/ HandOutFails(t) \/ \E s \in Sessions : HandsOut(t, s)
<1> DEFINE g == thr[t].svc
           o == HostOpen(g, svc[g])
           s == o.session
           thread == IF PublisherNeeded(svc[g]) THEN s ELSE svc[g].thread
<1>0. thr[t].pc = "handout" /\ UNCHANGED <<lifecycle, busy>>
    BY Zenon DEF HandOut
<1>1. g \in Services /\ svc[g] \in ServiceStates /\ svc \in [Services -> ServiceStates]
    BY <1>0, TypesGive, Zenon DEF Inside
<1>2. Service(g)
    BY <1>1, Zenon DEF Core
<1>3. "return" \in Pcs
    BY Zenon DEF Pcs
<1>4. Goto(t, "return") => Walks(t, "return")
    BY <1>3, GotoMoves, Zenon DEF Walks
<1>5. CASE svc[g].host = "none" /\ Goto(t, "return") /\ UNCHANGED <<services, terminated>>
    BY <1>0, <1>1, <1>4, <1>5, Zenon
<1>6. CASE svc[g].host # "none" /\ HostFails(g) /\ Goto(t, "return") /\ UNCHANGED terminated
    BY <1>0, <1>1, <1>4, <1>6, FailsIs, Zenon DEF HandOutFails
<1>7. CASE /\ svc[g].host # "none" /\ HostCreates(g, svc[g])
           /\ svc' = [svc EXCEPT ![g] = [o EXCEPT !.sessionId = s, !.running = TRUE, !.thread = thread]]
           /\ pub' = IF PublisherNeeded(svc[g]) THEN [pub EXCEPT ![s].pc = "test"] ELSE pub
           /\ terminated' = (terminated \/ (PublisherNeeded(svc[g]) /\ svc[g].thread # 0))
           /\ thr' = [thr EXCEPT ![t] = [@ EXCEPT !.session = s, !.pc = "return"]]
           /\ UNCHANGED <<srv, failures, failed>>
    <2> DEFINE v == [o EXCEPT !.sessionId = s, !.running = TRUE, !.thread = thread]
               r == [thr[t] EXCEPT !.session = s, !.pc = "return"]
    <2>1. /\ Opens(g, s) /\ o \in ServiceStates /\ o.closing = svc[g].closing /\ o.initialized = svc[g].initialized
          /\ o.host = "open" /\ o.server = svc[g].server
        BY <1>1, <1>2, <1>7, OpensIs, Zenon
    <2>2. svc' = [svc EXCEPT ![g] = v]
        BY <1>7, Zenon
    <2>3. s \in Sessions
        BY <2>1, Zenon DEF Opens
    <2>4. thread \in SomeSession
        BY <1>1, <2>3, Zenon DEF ServiceStates, SomeSession
    <2>5. thr' = [thr EXCEPT ![t] = r] /\ thr \in [Threads -> ThreadStates]
        BY <1>7, TypesGive, Zenon
    <2>6. svc[g].running \in BOOLEAN
        BY <1>1, Zenon DEF ServiceStates
    <2> HIDE DEF o
    <2>7. /\ r \in ThreadStates /\ r.pc = "return" /\ r.svc = g /\ r.session = s /\ r.join = thr[t].join
          /\ r.dtor = thr[t].dtor
        BY <1>3, <2>3, <2>5, ZenonT(60) DEF ThreadStates, SomeSession
    <2> HIDE DEF r
    <2>8. Moves(t, "return", g, s, thr[t].join, thr[t].dtor)
        BY <2>5, <2>7, ThreadUpdate, Zenon
    <2> HIDE DEF thread
    <2>9. /\ v \in ServiceStates /\ v.closing = svc[g].closing /\ v.initialized = svc[g].initialized /\ v.host = "open"
          /\ v.session = s /\ v.server = svc[g].server /\ v.sessionId = s /\ v.running = TRUE /\ v.thread = thread
        BY <2>1, <2>3, <2>4, Zenon DEF ServiceStates, SomeSession
    <2> HIDE DEF v, s
    <2>10. Becomes(g, svc[g].closing, svc[g].initialized, "open", s, svc[g].server, s, TRUE, thread)
        BY <1>1, <2>2, <2>9, ServiceBecomes, Zenon
    <2>11. CASE ~svc[g].running
        <3>1. thread = s /\ terminated' = (terminated \/ svc[g].thread # 0)
            BY <1>7, <2>11, Zenon DEF PublisherNeeded, thread, s
        <3>2. pub' = [pub EXCEPT ![s].pc = "test"]
            BY <1>7, <2>11, Zenon DEF PublisherNeeded, s
        <3>3. pub' \in [Sessions -> PublisherStates] /\ pub'[s].pc = "test" /\ \A p \in Sessions : p # s => pub'[p] = pub[p]
            BY <2>3, <3>2, TypesGive, Zenon DEF PublisherStates
        <3>4. HandsOut(t, s)
            BY <1>7, <2>1, <2>8, <2>10, <2>11, <3>1, <3>3, Zenon DEF HandsOut
        <3> QED
            BY <1>0, <1>1, <2>3, <3>4, Zenon
    <2>12. CASE svc[g].running
        <3>1. thread = svc[g].thread /\ terminated' = terminated /\ pub' = pub
            BY <1>7, <2>12, Zenon DEF PublisherNeeded, thread, Types, TypeOK
        <3>2. HandsOut(t, s)
            BY <1>7, <2>1, <2>8, <2>10, <2>12, <3>1, Zenon DEF HandsOut
        <3> QED
            BY <1>0, <1>1, <2>3, <3>2, Zenon
    <2> QED
        BY <2>6, <2>11, <2>12, Zenon
<1> QED
    BY <1>5, <1>6, <1>7, Zenon DEF HandOut

\* The two critical sections of CloseSession, and what it does in between.
Closes(t) ==
    LET g == thr[t].svc IN
    /\ ~svc[g].closing /\ svc[g].initialized
    /\ Becomes(g, TRUE, FALSE, "none", 0, 0, 0, FALSE, 0)
    /\ Moves(t, "join", g, svc[g].server, svc[g].thread, thr[t].dtor)
Leaves(t, pc) == Walks(t, pc) /\ (pc = "return" \/ (pc = "unpublish" /\ ~thr[t].dtor))

\* The outcomes of the first section of CloseSession.
LEMMA CloseStep ==
    ASSUME Types, NEW t \in Threads, CloseSession(t)
    PROVE /\ thr[t].pc = "close" /\ thr[t].svc \in Services
          /\ UNCHANGED <<lifecycle, pub, srv, owner, created, failures, failed, busy, terminated>>
          /\ \/ /\ svc[thr[t].svc].closing \/ ~svc[thr[t].svc].initialized
                /\ (\E pc \in Pcs : Leaves(t, pc)) /\ UNCHANGED svc
             \/ Closes(t)
<1> DEFINE g == thr[t].svc
           after == IF t = Main /\ ~thr[t].dtor THEN "unpublish" ELSE "return"
<1>0. thr[t].pc = "close" /\ UNCHANGED <<lifecycle, pub, srv, owner, created, failures, failed, busy, terminated>>
    BY Zenon DEF CloseSession
<1>1. g \in Services /\ svc[g] \in ServiceStates /\ svc \in [Services -> ServiceStates]
    BY <1>0, TypesGive, Zenon DEF Inside
<1>2. CASE (svc[g].closing \/ ~svc[g].initialized) /\ Goto(t, after) /\ UNCHANGED svc
    <2>1. after \in Pcs /\ (after = "return" \/ (after = "unpublish" /\ ~thr[t].dtor))
        BY Zenon DEF Pcs
    <2>2. Walks(t, after)
        BY <1>2, <2>1, GotoMoves, Zenon DEF Walks
    <2> QED
        BY <1>0, <1>1, <1>2, <2>1, <2>2, Zenon DEF Leaves
<1>3. CASE /\ ~svc[g].closing /\ svc[g].initialized /\ svc' = [svc EXCEPT ![g] = MarkClosing(svc[g])]
           /\ thr' = [thr EXCEPT ![t] = [@ EXCEPT !.session = svc[g].server, !.join = svc[g].thread, !.pc = "join"]]
    <2> DEFINE r == [thr[t] EXCEPT !.session = svc[g].server, !.join = svc[g].thread, !.pc = "join"]
               v == [FreshService EXCEPT !.closing = TRUE]
    <2>1. thr' = [thr EXCEPT ![t] = r] /\ thr \in [Threads -> ThreadStates]
        BY <1>3, TypesGive, Zenon
    <2>2. svc[g].server \in SomeSession /\ svc[g].thread \in SomeSession /\ "join" \in Pcs
        BY <1>1, Zenon DEF ServiceStates, Pcs
    <2>3. /\ r \in ThreadStates /\ r.pc = "join" /\ r.svc = g /\ r.session = svc[g].server /\ r.join = svc[g].thread
          /\ r.dtor = thr[t].dtor
        BY <2>1, <2>2, ZenonT(60) DEF ThreadStates
    <2>4. /\ v \in ServiceStates /\ v.closing = TRUE /\ v.initialized = FALSE /\ v.host = "none" /\ v.session = 0
          /\ v.server = 0 /\ v.sessionId = 0 /\ v.running = FALSE /\ v.thread = 0
        BY Zenon DEF FreshService, ServiceStates, SomeSession
    <2>5. svc' = [svc EXCEPT ![g] = v]
        BY <1>3, Zenon DEF MarkClosing
    <2> HIDE DEF r, v
    <2>6. Moves(t, "join", g, svc[g].server, svc[g].thread, thr[t].dtor)
        BY <2>1, <2>3, ThreadUpdate, Zenon
    <2>7. Becomes(g, TRUE, FALSE, "none", 0, 0, 0, FALSE, 0)
        BY <1>1, <2>4, <2>5, ServiceBecomes, Zenon
    <2> QED
        BY <1>0, <1>1, <1>3, <2>6, <2>7, Zenon DEF Closes
<1> QED
    BY <1>2, <1>3, Zenon DEF CloseSession

\* What the join of the publisher changes.
LEMMA JoinStep ==
    ASSUME Types, NEW t \in Threads, CloseJoin(t)
    PROVE /\ thr[t].pc = "join" /\ (thr[t].join # 0 => pub[thr[t].join].pc = "exited")
          /\ Moves(t, "stop", thr[t].svc, thr[t].session, 0, thr[t].dtor)
          /\ UNCHANGED <<lifecycle, services, busy, terminated>>
<1> DEFINE r == [thr[t] EXCEPT !.join = 0, !.pc = "stop"]
<1>1. thr' = [thr EXCEPT ![t] = r] /\ thr \in [Threads -> ThreadStates] /\ "stop" \in Pcs
    BY TypesGive, Zenon DEF CloseJoin, Pcs
<1>2. /\ r \in ThreadStates /\ r.pc = "stop" /\ r.svc = thr[t].svc /\ r.session = thr[t].session /\ r.join = 0
      /\ r.dtor = thr[t].dtor
    BY <1>1, ZenonT(60) DEF ThreadStates, SomeSession
<1> HIDE DEF r
<1>3. Moves(t, "stop", thr[t].svc, thr[t].session, 0, thr[t].dtor)
    BY <1>1, <1>2, ThreadUpdate, Zenon
<1> QED
    BY <1>3, Zenon DEF CloseJoin

ServerGoes(s, next) ==
    /\ srv' \in [Sessions -> {"none", "running", "stopping", "stopped"}]
    /\ srv'[s] = next /\ \A r \in Sessions : r # s => srv'[r] = srv[r]

\* What RpcServer::Stop changes, at its beginning and at its end.
LEMMA StopDrainStep ==
    ASSUME Types, NEW t \in Threads, thr[t].session \in Sessions
    PROVE /\ CloseStop(t) => /\ thr[t].pc = "stop" /\ Walks(t, "drain") /\ ServerGoes(thr[t].session, "stopping")
                             /\ UNCHANGED <<lifecycle, svc, pub, owner, created, failures, failed, busy, terminated>>
          /\ CloseDrain(t) => /\ thr[t].pc = "drain" /\ Walks(t, "closed") /\ ServerGoes(thr[t].session, "stopped")
                              /\ UNCHANGED <<lifecycle, svc, pub, owner, created, failures, failed, busy, terminated>>
<1>1. "drain" \in Pcs /\ "closed" \in Pcs
    BY Zenon DEF Pcs
<1>2. (Goto(t, "drain") => Walks(t, "drain")) /\ (Goto(t, "closed") => Walks(t, "closed"))
    BY <1>1, GotoMoves, Zenon DEF Walks
<1>3. srv \in [Sessions -> {"none", "running", "stopping", "stopped"}]
    BY TypesGive, Zenon
<1> QED
    BY <1>2, <1>3, Zenon DEF CloseStop, CloseDrain, ServerGoes

\* What the last section of CloseSession changes.
LEMMA DoneStep ==
    ASSUME Types, NEW t \in Threads, CloseDone(t)
    PROVE LET g == thr[t].svc IN
          /\ thr[t].pc = "closed" /\ g \in Services
          /\ Becomes(g, FALSE, svc[g].initialized, svc[g].host, svc[g].session, svc[g].server, svc[g].sessionId,
                     svc[g].running, svc[g].thread)
          /\ \E pc \in {"return", "unpublish"} :
                Moves(t, pc, g, 0, thr[t].join, thr[t].dtor) /\ (pc = "unpublish" => ~thr[t].dtor)
          /\ UNCHANGED <<lifecycle, pub, srv, owner, created, failures, failed, busy, terminated>>
<1> DEFINE g == thr[t].svc
           after == IF t = Main /\ ~thr[t].dtor THEN "unpublish" ELSE "return"
           r == [thr[t] EXCEPT !.session = 0, !.pc = after]
           v == [svc[g] EXCEPT !.closing = FALSE]
<1>0. thr[t].pc = "closed" /\ UNCHANGED <<lifecycle, pub, srv, owner, created, failures, failed, busy, terminated>>
    BY Zenon DEF CloseDone
<1>1. g \in Services /\ svc[g] \in ServiceStates /\ svc \in [Services -> ServiceStates]
    BY <1>0, TypesGive, Zenon DEF Inside
<1>2. thr' = [thr EXCEPT ![t] = r] /\ thr \in [Threads -> ThreadStates]
    BY TypesGive, Zenon DEF CloseDone
<1>3. svc' = [svc EXCEPT ![g] = v]
    BY <1>1, Zenon DEF CloseDone
<1>4. after \in Pcs /\ after \in {"return", "unpublish"} /\ (after = "unpublish" => ~thr[t].dtor)
    BY Zenon DEF Pcs
<1> HIDE DEF after
<1>5. /\ r \in ThreadStates /\ r.pc = after /\ r.svc = g /\ r.session = 0 /\ r.join = thr[t].join /\ r.dtor = thr[t].dtor
    BY <1>2, <1>4, ZenonT(60) DEF ThreadStates, SomeSession
<1>6. /\ v \in ServiceStates /\ v.closing = FALSE /\ v.initialized = svc[g].initialized /\ v.host = svc[g].host
      /\ v.session = svc[g].session /\ v.server = svc[g].server /\ v.sessionId = svc[g].sessionId
      /\ v.running = svc[g].running /\ v.thread = svc[g].thread
    BY <1>1, Zenon DEF ServiceStates
<1> HIDE DEF r, v
<1>7. Moves(t, after, g, 0, thr[t].join, thr[t].dtor)
    BY <1>2, <1>5, ThreadUpdate, Zenon
<1>8. Becomes(g, FALSE, svc[g].initialized, svc[g].host, svc[g].session, svc[g].server, svc[g].sessionId,
              svc[g].running, svc[g].thread)
    BY <1>1, <1>3, <1>6, ServiceBecomes, Zenon
<1> QED
    BY <1>0, <1>1, <1>4, <1>7, <1>8, Zenon

\* The outcomes of a return: the last one to hold a service destroys it.
LEMMA ReturnStep ==
    ASSUME Types, NEW t \in Threads, Return(t)
    PROVE LET g == thr[t].svc IN
          /\ thr[t].pc = "return" /\ UNCHANGED <<lifecycle, services, busy>>
          /\ \/ (g = 0 \/ g = current \/ Holders(g) # {t}) /\ Moves(t, "idle", 0, 0, 0, FALSE) /\ UNCHANGED terminated
             \/ /\ g # 0 /\ g # current /\ Holders(g) = {t} /\ ~thr[t].dtor
                /\ Moves(t, "close", g, thr[t].session, thr[t].join, TRUE) /\ UNCHANGED terminated
             \/ /\ thr[t].dtor /\ Moves(t, "idle", 0, 0, 0, FALSE)
                /\ terminated' = (terminated \/ svc[g].thread # 0)
<1> DEFINE back == [IdleThread EXCEPT !.calls = thr[t].calls]
           r == [thr[t] EXCEPT !.dtor = TRUE, !.pc = "close"]
<1>1. thr \in [Threads -> ThreadStates] /\ thr[t] \in ThreadStates
    BY TypesGive, Zenon
<1>2. /\ back \in ThreadStates /\ back.pc = "idle" /\ back.svc = 0 /\ back.session = 0 /\ back.join = 0 /\ back.dtor = FALSE
    BY <1>1, Zenon DEF IdleThread, ThreadStates, SomeSession, Pcs
<1>3. "close" \in Pcs
    BY Zenon DEF Pcs
<1>4. /\ r \in ThreadStates /\ r.pc = "close" /\ r.svc = thr[t].svc /\ r.session = thr[t].session /\ r.join = thr[t].join
      /\ r.dtor = TRUE
    BY <1>1, <1>3, Zenon DEF ThreadStates
<1>5. (thr' = [thr EXCEPT ![t] = back]) => Moves(t, "idle", 0, 0, 0, FALSE)
    <2> HIDE DEF back
    <2> QED
        BY <1>2, ThreadUpdate, Zenon
<1>6. (thr' = [thr EXCEPT ![t] = r]) => Moves(t, "close", thr[t].svc, thr[t].session, thr[t].join, TRUE)
    <2> HIDE DEF r
    <2> QED
        BY <1>4, ThreadUpdate, Zenon
<1> QED
    BY <1>1, <1>5, <1>6, Zenon DEF Return

\* The steps of a thread that only move its program counter.
LEMMA PlainSteps ==
    ASSUME Types, NEW t \in Threads
    PROVE /\ Gate(t) => /\ thr[t].pc = "gate" /\ \E pc \in {"return", "configure", "copy"} : Walks(t, pc)
                        /\ UNCHANGED <<lifecycle, services, busy, terminated>>
          /\ ConfigureEngines(t) => /\ thr[t].pc = "configure" /\ \E pc \in {"return", "copy"} : Walks(t, pc)
                                    /\ configured' \in Kinds \cup {NoKinds}
                                    /\ UNCHANGED <<stopping, current, starts, ready, work, services, busy, terminated>>
          /\ HeartbeatStats(t) => /\ thr[t].pc = "stats" /\ Walks(t, "return")
                                  /\ UNCHANGED <<lifecycle, services, busy, terminated>>
          /\ InvokeAnyCall(t) => /\ thr[t].pc = "invoke" /\ Walks(t, "return")
                                 /\ UNCHANGED <<lifecycle, services, busy, terminated>>
<1>1. ASSUME NEW pc \in {"return", "configure", "copy"}, Goto(t, pc) PROVE Walks(t, pc)
    <2>1. pc \in Pcs
        BY Zenon DEF Pcs
    <2> QED
        BY <1>1, <2>1, GotoMoves, Zenon DEF Walks
<1>2. ASSUME Gate(t)
      PROVE /\ thr[t].pc = "gate" /\ \E pc \in {"return", "configure", "copy"} : Walks(t, pc)
            /\ UNCHANGED <<lifecycle, services, busy, terminated>>
    <2> DEFINE pc == IF stopping \/ (thr[t].op = "any" /\ ~ready) THEN "return"
                     ELSE IF thr[t].op = "open" THEN "configure" ELSE "copy"
    <2>1. pc \in {"return", "configure", "copy"} /\ Goto(t, pc)
        BY <1>2, Zenon DEF Gate
    <2>2. Walks(t, pc)
        BY <1>1, <2>1, Zenon
    <2> QED
        BY <1>2, <2>1, <2>2, Zenon DEF Gate
<1>3. ASSUME ConfigureEngines(t)
      PROVE /\ thr[t].pc = "configure" /\ \E pc \in {"return", "copy"} : Walks(t, pc)
            /\ configured' \in Kinds \cup {NoKinds}
            /\ UNCHANGED <<stopping, current, starts, ready, work, services, busy, terminated>>
    <2>1. thr[t].kinds \in Kinds \cup {NoKinds} /\ configured \in Kinds \cup {NoKinds}
        BY TypesGive, Zenon DEF ThreadStates, Types, TypeOK
    <2>2. (Goto(t, "copy") => Walks(t, "copy")) /\ (Goto(t, "return") => Walks(t, "return"))
        BY <1>1, Zenon
    <2>3. \E pc \in {"return", "copy"} : Walks(t, pc)
        BY <1>3, <2>2, Zenon DEF ConfigureEngines
    <2>4. configured' \in Kinds \cup {NoKinds}
        BY <1>3, <2>1, Zenon DEF ConfigureEngines
    <2> QED
        BY <1>3, <2>3, <2>4, Zenon DEF ConfigureEngines
<1>4. Goto(t, "return") => Walks(t, "return")
    BY <1>1, Zenon
<1> QED
    BY <1>2, <1>3, <1>4, Zenon DEF HeartbeatStats, InvokeAnyCall

\* What the steps of OnStart and OnStop change.
LEMMA LifecycleSteps ==
    ASSUME Types
    PROVE /\ OnStart => /\ thr[Main].pc = "idle" /\ current = 0 /\ starts < MaxStarts /\ Walks(Main, "make")
                        /\ stopping' = FALSE /\ work' \in 0 .. MaxWork
                        /\ UNCHANGED <<current, starts, configured, ready, services, busy, terminated>>
          /\ OnStartMake => /\ thr[Main].pc = "make" /\ Walks(Main, "initialize")
                            /\ current' = starts + 1 /\ starts' = starts + 1
                            /\ UNCHANGED <<stopping, configured, ready, work, services, busy, terminated>>
          /\ OnStartInitialize => /\ thr[Main].pc = "initialize" /\ Walks(Main, "idle") /\ ready' = TRUE
                                  /\ UNCHANGED <<stopping, current, starts, configured, work, services, busy, terminated>>
          /\ OnStop => /\ thr[Main].pc = "idle" /\ current # 0 /\ Walks(Main, "move") /\ stopping' = TRUE
                       /\ UNCHANGED <<current, starts, configured, ready, work, services, busy, terminated>>
          /\ OnStopMove => /\ thr[Main].pc = "move" /\ current' = 0
                           /\ Moves(Main, "close", current, thr[Main].session, thr[Main].join, thr[Main].dtor)
                           /\ UNCHANGED <<stopping, starts, configured, ready, work, services, busy, terminated>>
          /\ OnStopReset => /\ thr[Main].pc = "unpublish" /\ Walks(Main, "return") /\ configured' = NoKinds
                            /\ UNCHANGED <<stopping, current, starts, ready, work, services, busy, terminated>>
<1>0. Main \in Threads
    BY TypesGive, Zenon
<1>1. ASSUME NEW pc \in {"make", "initialize", "idle", "move", "return"}, Goto(Main, pc) PROVE Walks(Main, pc)
    <2>1. pc \in Pcs
        BY Zenon DEF Pcs
    <2> QED
        BY <1>0, <1>1, <2>1, GotoMoves, Zenon DEF Walks
<1>2. ASSUME OnStart PROVE work' \in 0 .. MaxWork
    BY <1>2, BoundsAssumption DEF OnStart, Types, TypeOK
<1>3. ASSUME OnStopMove
      PROVE Moves(Main, "close", current, thr[Main].session, thr[Main].join, thr[Main].dtor)
    <2> DEFINE r == [thr[Main] EXCEPT !.svc = current, !.pc = "close"]
    <2>1. thr' = [thr EXCEPT ![Main] = r] /\ thr \in [Threads -> ThreadStates] /\ "close" \in Pcs
        BY <1>3, TypesGive, Zenon DEF OnStopMove, Pcs
    <2>2. current \in Services \cup {0}
        BY Zenon DEF Types, TypeOK
    <2>3. /\ r \in ThreadStates /\ r.pc = "close" /\ r.svc = current /\ r.session = thr[Main].session
          /\ r.join = thr[Main].join /\ r.dtor = thr[Main].dtor
        BY <1>0, <2>1, <2>2, ZenonT(60) DEF ThreadStates
    <2> HIDE DEF r
    <2> QED
        BY <1>0, <2>1, <2>3, ThreadUpdate, Zenon
<1>4. /\ Goto(Main, "make") => Walks(Main, "make")
      /\ Goto(Main, "initialize") => Walks(Main, "initialize")
      /\ Goto(Main, "idle") => Walks(Main, "idle")
      /\ Goto(Main, "move") => Walks(Main, "move")
      /\ Goto(Main, "return") => Walks(Main, "return")
    BY <1>1, Zenon
<1>5. OnStart => /\ thr[Main].pc = "idle" /\ current = 0 /\ starts < MaxStarts /\ Walks(Main, "make")
                 /\ stopping' = FALSE /\ work' \in 0 .. MaxWork
                 /\ UNCHANGED <<current, starts, configured, ready, services, busy, terminated>>
    BY <1>2, <1>4, Zenon DEF OnStart
<1>6. OnStartMake => /\ thr[Main].pc = "make" /\ Walks(Main, "initialize")
                     /\ current' = starts + 1 /\ starts' = starts + 1
                     /\ UNCHANGED <<stopping, configured, ready, work, services, busy, terminated>>
    BY <1>4, Zenon DEF OnStartMake
<1>7. OnStartInitialize => /\ thr[Main].pc = "initialize" /\ Walks(Main, "idle") /\ ready' = TRUE
                           /\ UNCHANGED <<stopping, current, starts, configured, work, services, busy, terminated>>
    BY <1>4, Zenon DEF OnStartInitialize
<1>8. OnStop => /\ thr[Main].pc = "idle" /\ current # 0 /\ Walks(Main, "move") /\ stopping' = TRUE
                /\ UNCHANGED <<current, starts, configured, ready, work, services, busy, terminated>>
    BY <1>4, Zenon DEF OnStop
<1>9. OnStopMove => /\ thr[Main].pc = "move" /\ current' = 0
                    /\ UNCHANGED <<stopping, starts, configured, ready, work, services, busy, terminated>>
    BY Zenon DEF OnStopMove
<1>10. OnStopReset => /\ thr[Main].pc = "unpublish" /\ Walks(Main, "return") /\ configured' = NoKinds
                      /\ UNCHANGED <<stopping, current, starts, ready, work, services, busy, terminated>>
    BY <1>4, Zenon DEF OnStopReset
<1> QED
    BY <1>3, <1>5, <1>6, <1>7, <1>8, <1>9, <1>10, Zenon

-----------------------------------------------------------------------------
(* Types.                                                                   *)

LifecycleTypes ==
    /\ stopping \in BOOLEAN /\ ready \in BOOLEAN /\ work \in 0 .. MaxWork
    /\ current \in Services \cup {0} /\ starts \in Services \cup {0} /\ configured \in Kinds \cup {NoKinds}
ServiceTypes ==
    /\ svc \in [Services -> ServiceStates] /\ pub \in [Sessions -> PublisherStates]
    /\ srv \in [Sessions -> {"none", "running", "stopping", "stopped"}]
    /\ owner \in [Sessions -> Services \cup {0}]
    /\ created \in 0 .. MaxSessions /\ failures \in 0 .. MaxFailures /\ failed \subseteq Services

\* TypeOK, by parts.
LEMMA TypesAre ==
    TypeOK <=> /\ LifecycleTypes /\ ServiceTypes /\ thr \in [Threads -> ThreadStates]
               /\ busy \subseteq Sessions /\ terminated \in BOOLEAN
<1>1. SomeSession = 0 .. MaxSessions
    BY BoundsAssumption DEF SomeSession, Sessions
<1>2. SomeSession = Sessions \cup {0}
    BY Zenon DEF SomeSession
<1> QED
    BY <1>1, <1>2, Zenon DEF TypeOK, LifecycleTypes, ServiceTypes, ServiceStates, ThreadStates, PublisherStates

\* TypeOK after a step, from its parts.
LEMMA TypesAreNext ==
    ASSUME LifecycleTypes', ServiceTypes', thr' \in [Threads -> ThreadStates], (busy \subseteq Sessions)',
           (terminated \in BOOLEAN)'
    PROVE TypeOK'
<1>1. (TypeOK <=> /\ LifecycleTypes /\ ServiceTypes /\ thr \in [Threads -> ThreadStates]
                  /\ busy \subseteq Sessions /\ terminated \in BOOLEAN)'
    BY TypesAre, PTL
<1>2. (thr \in [Threads -> ThreadStates])'
    BY Zenon DEF ThreadStates, Threads
<1> QED
    BY <1>1, <1>2, PTL

\* A step that leaves OnStart and OnStop alone.
LEMMA LifecycleSame ==
    ASSUME Types, UNCHANGED lifecycle
    PROVE LifecycleTypes' /\ UNCHANGED <<current, starts>>
    BY Zenon DEF Types, TypeOK, lifecycle, LifecycleTypes

\* A step that leaves the services alone.
LEMMA ServicesSame ==
    ASSUME Types, UNCHANGED services
    PROVE ServiceTypes' /\ SameServices
<1>1. ServiceTypes
    BY TypesAre, Zenon DEF Types
<1> QED
    BY <1>1, Zenon DEF services, ServiceTypes, SameServices

\* A thread that stays in its service, or outside of one, keeps References.
LEMMA ReferencesKeep ==
    ASSUME Types, NEW t \in Threads, NEW pc, NEW s, NEW j, NEW d, Moves(t, pc, thr[t].svc, s, j, d),
           pc \in Outside => thr[t].svc = 0, pc \in Inside => thr[t].svc # 0,
           pc \notin {"make", "move"}, UNCHANGED <<current, starts>>
    PROVE References'
<1>1. Main \in Threads
    BY TypesGive, Zenon
<1>2. current \in {0, starts}
    BY Zenon DEF Types, References
<1>3. thr'[Main].pc = "make" => current = 0 /\ starts < MaxStarts
    BY <1>1, Zenon DEF Types, References, Moves
<1>4. thr'[Main].pc = "move" => current # 0
    BY <1>1, Zenon DEF Types, References, Moves
<1>5. ASSUME NEW u \in Threads
      PROVE /\ thr'[u].svc \in 0 .. starts /\ (thr'[u].pc \in Outside => thr'[u].svc = 0)
            /\ (thr'[u].pc \in Inside => thr'[u].svc # 0)
    BY Zenon DEF Types, References, Moves
<1> QED
    BY <1>2, <1>3, <1>4, <1>5, Zenon DEF References, Outside, Inside

\* A step that leaves threads and session_service_ alone.
LEMMA ReferencesSame ==
    ASSUME Types, UNCHANGED <<current, starts, thr>>
    PROVE References'
    BY Zenon DEF Types, References, Outside, Inside

-----------------------------------------------------------------------------
(* Core: what a step that closes nothing leaves alone.                      *)

ClosingPcs == {"join", "stop", "drain", "closed"}

\* The threads in CloseSession stay where they are.
SameClosers ==
    \A u \in Threads : /\ Closing(u) => thr'[u] = thr[u]
                       /\ thr'[u].pc \in ClosingPcs => Closing(u)
                       /\ thr[u].join # 0 => thr'[u] = thr[u]
                       /\ thr'[u].join # 0 => thr[u].join # 0

\* A thread that moves outside of CloseSession changes no closer.
LEMMA MoverIsSame ==
    ASSUME Core, NEW t \in Threads, ~Closing(t), NEW pc, NEW g, NEW s, NEW j \in {0, thr[t].join}, NEW d,
           Moves(t, pc, g, s, j, d), pc \notin ClosingPcs
    PROVE SameClosers
<1>1. thr[t].join = 0
    BY Zenon DEF Core, Closers, Closing
<1> QED
    BY <1>1, Zenon DEF SameClosers, Moves, Closing, ClosingPcs

\* A step of no thread changes no closer.
LEMMA StandingIsSame ==
    ASSUME UNCHANGED thr
    PROVE SameClosers
    BY Zenon DEF SameClosers, Closing, ClosingPcs

\* Closers, when the services do not release or take the lock closing_, and keep owner and server.
LEMMA ClosersKeep ==
    ASSUME Types, Core, SameClosers,
           \A g \in Services : svc'[g].closing = svc[g].closing,
           \A s \in Sessions : owner[s] # 0 => owner'[s] = owner[s],
           \A s \in Sessions : owner[s] \in Services /\ svc[owner[s]].closing => srv'[s] = srv[s]
    PROVE Closers'
<1>0. Closers
    BY Zenon DEF Core
<1>1. ASSUME NEW t \in Threads, Closing(t)'
      PROVE /\ Closing(t) /\ thr'[t] = thr[t] /\ thr[t].svc \in Services /\ thr[t].session \in Sessions /\ Closer(t)
    <2>1. Closing(t) /\ thr'[t] = thr[t]
        BY <1>1, Zenon DEF SameClosers, Closing, ClosingPcs
    <2>2. thr[t].svc \in Services
        BY <2>1, TypesGive, Zenon DEF Closing, Inside
    <2>3. Closer(t)
        BY <1>0, <2>1, Zenon DEF Closers
    <2>4. thr[t].session \in SomeSession
        BY TypesGive, Zenon DEF ThreadStates
    <2> QED
        BY <2>1, <2>2, <2>3, <2>4, Zenon DEF Closer, SomeSession
<1>2. ASSUME NEW t \in Threads, Closing(t)' PROVE Closer(t)'
    <2>1. owner[thr[t].session] = thr[t].svc /\ thr[t].svc # 0 /\ svc[thr[t].svc].closing
        BY <1>1, <1>2 DEF Closer, Services
    <2>2. owner'[thr[t].session] = thr[t].svc /\ srv'[thr[t].session] = srv[thr[t].session]
        BY <1>1, <1>2, <2>1, Zenon
    <2> QED
        BY <1>1, <1>2, <2>1, <2>2, ZenonT(60) DEF Closer
<1>3. ASSUME NEW t \in Threads, NEW u \in Threads, Closing(t)', Closing(u)', thr'[t].svc = thr'[u].svc PROVE t = u
    BY <1>0, <1>1, <1>3, ZenonT(60) DEF Closers
<1>4. ASSUME NEW g \in Services, svc'[g].closing PROVE \E t \in Threads : Closing(t)' /\ thr'[t].svc = g
    <2>1. PICK t \in Threads : Closing(t) /\ thr[t].svc = g
        BY <1>0, <1>4, Zenon DEF Closers
    <2>2. thr'[t] = thr[t]
        BY <2>1, Zenon DEF SameClosers
    <2> QED
        BY <2>1, <2>2, Zenon DEF Closing
<1>5. ASSUME NEW t \in Threads, thr'[t].join # 0 PROVE thr'[t].pc = "join" /\ owner'[thr'[t].join] = thr'[t].svc
    <2>1. thr[t].join # 0 /\ thr'[t] = thr[t]
        BY <1>5, Zenon DEF SameClosers
    <2>2. thr[t].pc = "join" /\ owner[thr[t].join] = thr[t].svc
        BY <1>0, <2>1, Zenon DEF Closers
    <2>3. thr[t].svc # 0 /\ thr[t].join \in Sessions
        BY <2>1, <2>2, TypesGive, SMT, Z3 DEF Inside, Services, ThreadStates, SomeSession
    <2> QED
        BY <2>1, <2>2, <2>3, Zenon
<1> QED
    BY <1>2, <1>3, <1>4, <1>5, Zenon DEF Closers

\* A step that changes neither services nor closers preserves the invariant of the
\* services.
LEMMA QuietKeeps ==
    ASSUME Types, Core, SameServices, SameClosers
    PROVE Core'
<1>1. Creation' /\ \A g \in Services : Service(g)'
    BY ZenonT(200) DEF Core, SameServices, Creation, Service
<1>2. Closers'
    BY ClosersKeep, Zenon DEF SameServices
<1>3. Servers'
    <2>1. SUFFICES ASSUME NEW s \in Sessions, srv'[s] \in {"running", "stopping"}
                   PROVE svc'[owner'[s]].server = s \/ \E t \in Threads : Closing(t)' /\ thr'[t].session = s
        BY Zenon DEF Servers
    <2>2. svc[owner[s]].server = s \/ \E t \in Threads : Closing(t) /\ thr[t].session = s
        BY <2>1, Zenon DEF Core, Servers, SameServices
    <2> QED
        BY <2>2, Zenon DEF SameServices, SameClosers, Closing
<1>4. Publishers'
    <2>1. ASSUME NEW p \in Sessions, PublisherLives(p)'
          PROVE svc'[owner'[p]].thread = p \/ \E t \in Threads : thr'[t].join = p
        <3>1. svc[owner[p]].thread = p \/ \E t \in Threads : thr[t].join = p
            BY <2>1, Zenon DEF Core, Publishers, SameServices, PublisherLives
        <3>2. p # 0
            BY DEF Sessions
        <3> QED
            BY <3>1, <3>2, Zenon DEF SameServices, SameClosers
    <2>2. ASSUME NEW p \in Sessions, pub'[p].pc = "publish"
          PROVE pub'[p].server # 0 /\ owner'[pub'[p].server] = owner'[p] /\ srv'[pub'[p].server] = "running"
        BY <2>2, Zenon DEF Core, Publishers, SameServices
    <2> QED
        BY <2>1, <2>2, Zenon DEF Publishers
<1> QED
    BY <1>1, <1>2, <1>3, <1>4, Zenon DEF Core

-----------------------------------------------------------------------------
(* Core: the steps that open a session.                                     *)

\* Exactly the sessions created have an owner, and servers and publishers are theirs.
LEMMA Owned ==
    ASSUME Types, Core, NEW s \in Sessions
    PROVE /\ owner[s] # 0 <=> s <= created
          /\ srv[s] # "none" => owner[s] \in Services
          /\ pub[s].pc # "none" => owner[s] \in Services
<1>1. created \in Nat /\ s \in Nat /\ 0 \notin Services
    BY TypesGive DEF Sessions, Services
<1>2. s <= created \/ s > created
    BY <1>1
<1> QED
    BY <1>1, <1>2, Zenon DEF Core, Creation

\* A session host that opens has a session of its own service.
LEMMA Opened ==
    ASSUME Types, Core, NEW g \in Services, NEW s \in Sessions, Opens(g, s)
    PROVE /\ owner'[s] = g /\ owner[s] \in {0, g} /\ s <= created' /\ created <= created'
          /\ \A r \in Sessions : /\ owner[r] # 0 => owner'[r] = owner[r]
                                 /\ r # s => owner'[r] = owner[r]
          /\ \A r \in Sessions : r <= created' => owner'[r] \in Services
          /\ \A r \in Sessions : r > created' => owner'[r] = 0 /\ r > created
<1>1. created \in Nat /\ s \in Nat /\ 0 \notin Services
    BY TypesGive DEF Sessions, Services
<1>2. \A r \in Sessions : (owner[r] # 0 <=> r <= created) /\ owner[r] \in Services \cup {0}
    BY Owned, TypesGive, Zenon
<1>3. CASE svc[g].host = "open" /\ s = svc[g].session /\ UNCHANGED <<created, owner>>
    <2>1. owner[s] = g
        BY <1>1, <1>3, Zenon DEF Core, Service, Sessions
    <2> QED
        BY <1>1, <1>2, <1>3, <2>1, SMTT(60), Z3T(60) DEF Sessions
<1>4. CASE /\ svc[g].host # "open" /\ s = created + 1 /\ created' = s /\ owner'[s] = g
           /\ \A r \in Sessions : r # s => owner'[r] = owner[r]
    <2>1. owner[s] = 0
        BY <1>1, <1>2, <1>4, SMTT(60), Z3T(60)
    <2>2. \A r \in Sessions : r <= created' => r = s \/ r <= created
        BY <1>1, <1>4, SMT, Z3 DEF Sessions
    <2>3. \A r \in Sessions : r > created' => r # s /\ r > created
        BY <1>1, <1>4, SMT, Z3 DEF Sessions
    <2>4. \A r \in Sessions : r > created' => owner'[r] = 0
        BY <1>1, <1>2, <1>4, <2>3, SMT, Z3 DEF Sessions
    <2>5. \A r \in Sessions : r <= created' => owner'[r] \in Services
        BY <1>2, <1>4, <2>2, Zenon
    <2>6. s <= created' /\ created <= created'
        BY <1>1, <1>4
    <2> QED
        BY <1>4, <2>1, <2>3, <2>4, <2>5, <2>6, Zenon
<1> QED
    BY <1>3, <1>4, Zenon DEF Opens

\* What the sections of EnsureInitialized and OpenSession do to service g.
Rebuilt(g) ==
    /\ svc[g].closing = FALSE /\ svc'[g].closing = FALSE /\ \A h \in Services : h # g => svc'[h] = svc[h]
    /\ \A r \in Sessions : owner[r] # 0 => owner'[r] = owner[r]
    /\ \A r \in Sessions : srv'[r] = srv[r] \/ (srv'[r] = "running" /\ owner'[r] = g /\ svc'[g].server = r /\ owner[r] \in {0, g})
    /\ \A p \in Sessions : pub'[p] = pub[p] \/ (pub'[p].pc = "test" /\ owner'[p] = g /\ svc'[g].thread = p)
    /\ svc[g].server # 0 => svc'[g].server = svc[g].server
    /\ svc[g].thread # 0 => svc'[g].thread = svc[g].thread
    /\ failed \subseteq failed'

\* A step inside one service that leaves its closers alone preserves the invariant if it
\* does so for that service.
LEMMA RebuiltKeeps ==
    ASSUME Types, Core, SameClosers, NEW g \in Services, Rebuilt(g), Creation', Service(g)'
    PROVE Core'
<1>0. 0 \notin Services /\ 0 \notin Sessions
    BY DEF Services, Sessions
<1>1. ASSUME NEW h \in Services, h # g PROVE Service(h)'
    <2>1. Service(h) /\ svc'[h] = svc[h] /\ svc[h] \in ServiceStates
        BY <1>1, TypesGive, ZenonT(60) DEF Core, Rebuilt
    <2>2. \A s \in SomeSession : s # 0 /\ owner[s] = h => owner'[s] = h /\ srv'[s] = srv[s]
        BY <1>0, <1>1 DEF Rebuilt, SomeSession
    <2>3. svc[h].session \in SomeSession /\ svc[h].server \in SomeSession /\ svc[h].sessionId \in SomeSession
          /\ svc[h].thread \in SomeSession
        BY <2>1, Zenon DEF ServiceStates
    <2>4. h \notin failed' => h \notin failed
        BY Zenon DEF Rebuilt
    <2>5. /\ svc[h].session # 0 => owner'[svc[h].session] = h
          /\ svc[h].sessionId # 0 => owner'[svc[h].sessionId] = h
          /\ svc[h].thread # 0 => owner'[svc[h].thread] = h
          /\ svc[h].initialized => srv'[svc[h].server] = "running"
        BY <2>1, <2>2, <2>3, ZenonT(60) DEF Service
    <2> QED
        BY <2>1, <2>4, <2>5, ZenonT(60) DEF Service
<1>2. Closers'
    <2>1. \A h \in Services : svc'[h].closing = svc[h].closing
        BY Zenon DEF Rebuilt
    <2>2. ASSUME NEW s \in Sessions, owner[s] \in Services, svc[owner[s]].closing PROVE srv'[s] = srv[s]
        BY <1>0, <2>2, ZenonT(60) DEF Rebuilt
    <2> QED
        BY <2>1, <2>2, ClosersKeep, Zenon DEF Rebuilt
<1>3. Servers'
    <2>1. SUFFICES ASSUME NEW s \in Sessions, srv'[s] \in {"running", "stopping"}
                   PROVE svc'[owner'[s]].server = s \/ \E t \in Threads : Closing(t)' /\ thr'[t].session = s
        BY Zenon DEF Servers
    <2>2. CASE srv'[s] = srv[s]
        <3>1. owner[s] \in Services /\ owner'[s] = owner[s]
            BY <1>0, <2>1, <2>2, Owned, ZenonT(60) DEF Rebuilt
        <3>2. CASE svc[owner[s]].server = s
            BY <1>0, <3>1, <3>2, SMTT(60) DEF Rebuilt
        <3>3. CASE \E t \in Threads : Closing(t) /\ thr[t].session = s
            BY <3>3, Zenon DEF SameClosers, Closing
        <3> QED
            BY <2>1, <2>2, <3>2, <3>3, Zenon DEF Core, Servers
    <2>3. CASE owner'[s] = g /\ svc'[g].server = s
        BY <2>3, Zenon
    <2> QED
        BY <2>2, <2>3, Zenon DEF Rebuilt
<1>4. Publishers'
    <2>1. ASSUME NEW p \in Sessions, PublisherLives(p)'
          PROVE svc'[owner'[p]].thread = p \/ \E t \in Threads : thr'[t].join = p
        <3>1. CASE pub'[p] = pub[p]
            <4>1. PublisherLives(p)
                BY <2>1, <3>1, Zenon DEF PublisherLives
            <4>2. owner[p] \in Services /\ owner'[p] = owner[p]
                BY <1>0, <4>1, Owned, ZenonT(60) DEF Rebuilt, PublisherLives
            <4>3. svc[owner[p]].thread = p \/ \E t \in Threads : thr[t].join = p
                BY <4>1, Zenon DEF Core, Publishers
            <4>4. CASE svc[owner[p]].thread = p
                BY <1>0, <4>2, <4>4, SMTT(60) DEF Rebuilt
            <4>5. CASE \E t \in Threads : thr[t].join = p
                BY <1>0, <4>5, Zenon DEF SameClosers
            <4> QED
                BY <4>3, <4>4, <4>5, Zenon
        <3>2. CASE owner'[p] = g /\ svc'[g].thread = p
            BY <3>2, Zenon
        <3> QED
            BY <3>1, <3>2, Zenon DEF Rebuilt
    <2>2. ASSUME NEW p \in Sessions, pub'[p].pc = "publish"
          PROVE pub'[p].server # 0 /\ owner'[pub'[p].server] = owner'[p] /\ srv'[pub'[p].server] = "running"
        <3>1. pub'[p] = pub[p]
            BY <2>2, Zenon DEF Rebuilt
        <3>2. pub[p].server # 0 /\ owner[pub[p].server] = owner[p] /\ srv[pub[p].server] = "running"
            BY <2>2, <3>1, Zenon DEF Core, Publishers
        <3>3. pub[p].server \in Sessions
            BY <3>2, TypesGive, Zenon DEF PublisherStates, SomeSession
        <3>4. owner[p] \in Services
            BY <2>2, <3>1, Owned, Zenon
        <3> QED
            BY <1>0, <3>1, <3>2, <3>3, <3>4, SMTT(60) DEF Rebuilt
    <2> QED
        BY <2>1, <2>2, Zenon DEF Publishers
<1>5. \A h \in Services : Service(h)'
    BY <1>1, Zenon
<1> QED
    BY <1>2, <1>3, <1>4, <1>5, Zenon DEF Core

\* A service that is not closing has its flag down.
LEMMA NotClosing ==
    ASSUME Types, Core, NEW g \in Services, ~svc[g].closing
    PROVE svc[g].closing = FALSE
    BY TypesGive, Zenon DEF ServiceStates

\* Creating a session keeps the sessions numbered in the order of their creation.
LEMMA CreationOpened ==
    ASSUME Types, Core, NEW g \in Services, NEW s \in Sessions, Opens(g, s),
           \A r \in Sessions : r # s => srv'[r] = srv[r] /\ pub'[r] = pub[r]
    PROVE Creation'
<1>1. \A r \in Sessions : r <= created' => owner'[r] \in Services
    BY Opened, Zenon
<1>2. \A r \in Sessions : r > created' => owner'[r] = 0 /\ r > created
    BY Opened, Zenon
<1>3. \A r \in Sessions : r > created' => r # s
    <2>1. s <= created' /\ s \in Nat /\ created' \in Nat
        BY Opened DEF Opens, Sessions
    <2> QED
        BY <2>1, SMTT(60), Z3T(60)
<1> QED
    BY <1>1, <1>2, <1>3, Zenon DEF Core, Creation

\* A step that creates nothing keeps the sessions as they are numbered.
LEMMA CreationSame ==
    ASSUME Core, UNCHANGED <<owner, srv, pub, created>>
    PROVE Creation'
    BY Zenon DEF Core, Creation

\* A session host that fails preserves the invariant of the services.
LEMMA FailKeeps ==
    ASSUME Types, Core, SameClosers, NEW g \in Services, Fails(g), ~svc[g].closing
    PROVE Core'
<1>1. svc[g].closing = FALSE
    BY NotClosing, Zenon
<1>2. Rebuilt(g)
    BY <1>1, Zenon DEF Rebuilt, Fails, Becomes
<1>3. Creation'
    BY CreationSame, Zenon DEF Fails
<1>4. Service(g)'
    <2>1. Service(g)
        BY Zenon DEF Core
    <2>2. svc[g].session = 0 /\ ~svc[g].initialized
        BY <2>1, Zenon DEF Fails, Service
    <2>3. g \in failed'
        BY Zenon DEF Fails
    <2> QED
        BY <1>1, <2>1, <2>2, <2>3, Zenon DEF Service, Fails, Becomes
<1> QED
    BY <1>2, <1>3, <1>4, RebuiltKeeps, Zenon

\* A server that fails to start preserves the invariant of the services.
LEMMA StartFailsKeeps ==
    ASSUME Types, Core, SameClosers, NEW t \in Threads, NEW g \in Services, g = thr[t].svc, StartFails(t)
    PROVE Core'
<1>1. svc[g].closing = FALSE
    BY NotClosing, Zenon DEF StartFails
<1>2. PICK s \in Sessions : Opens(g, s)
    BY Zenon DEF StartFails
<1>3. /\ \A r \in Sessions : owner[r] # 0 => owner'[r] = owner[r]
      /\ \A r \in Sessions : r # s => srv'[r] = srv[r] /\ pub'[r] = pub[r]
    BY <1>2, Opened, Zenon DEF StartFails
<1>4. Rebuilt(g)
    BY <1>1, <1>3, Zenon DEF Rebuilt, StartFails, Becomes
<1>5. Creation'
    BY <1>2, <1>3, CreationOpened, Zenon
<1>6. Service(g)'
    <2>1. Service(g) /\ svc[g] \in ServiceStates
        BY TypesGive, Zenon DEF Core
    <2>2. \A r \in SomeSession : r # 0 /\ owner[r] = g => owner'[r] = g
        BY <1>3, SMTT(60), Z3T(60) DEF SomeSession, Services
    <2>3. svc[g].sessionId \in SomeSession /\ svc[g].thread \in SomeSession
        BY <2>1, Zenon DEF ServiceStates
    <2>4. /\ svc[g].sessionId # 0 => owner'[svc[g].sessionId] = g
          /\ svc[g].thread # 0 => owner'[svc[g].thread] = g
        BY <2>1, <2>2, <2>3, Zenon DEF Service
    <2>5. /\ ~svc[g].initialized /\ svc[g].server = 0
          /\ g \notin failed => svc[g].thread = 0 /\ svc[g].sessionId = 0
        BY <2>1, Zenon DEF StartFails, Service
    <2> QED
        BY <2>1, <2>4, <2>5, Zenon DEF Service, StartFails, Becomes
<1> QED
    BY <1>4, <1>5, <1>6, RebuiltKeeps, Zenon

\* A server that starts preserves the invariant of the services.
LEMMA StartKeeps ==
    ASSUME Types, Core, SameClosers, NEW t \in Threads, NEW g \in Services, g = thr[t].svc, NEW s \in Sessions, Starts(t, s)
    PROVE Core'
<1>1. svc[g].closing = FALSE /\ Opens(g, s) /\ Service(g) /\ svc[g] \in ServiceStates /\ s # 0
    BY NotClosing, TypesGive, SMTT(60), Z3T(60) DEF Starts, Core, Sessions
<1>2. /\ \A r \in Sessions : owner[r] # 0 => owner'[r] = owner[r]
      /\ owner'[s] = g /\ owner[s] \in {0, g}
    BY <1>1, Opened, Zenon
<1>3. svc[g].server = 0 /\ (g \notin failed => svc[g].thread = 0 /\ svc[g].sessionId = 0)
    BY <1>1, Zenon DEF Starts, Service
<1>4. Rebuilt(g)
    BY <1>1, <1>2, <1>3, Zenon DEF Rebuilt, Starts, Becomes
<1>5. Creation'
    BY <1>1, CreationOpened, Zenon DEF Starts
<1>6. Service(g)'
    <2>2. \A r \in SomeSession : r # 0 /\ owner[r] = g => owner'[r] = g
        BY <1>2 DEF SomeSession, Services
    <2>3. svc[g].sessionId \in SomeSession /\ svc[g].thread \in SomeSession
        BY <1>1, Zenon DEF ServiceStates
    <2>4. /\ svc[g].sessionId # 0 => owner'[svc[g].sessionId] = g
          /\ svc[g].thread # 0 => owner'[svc[g].thread] = g
        BY <1>1, <2>2, <2>3, Zenon DEF Service
    <2>5. /\ svc'[g].closing = FALSE /\ svc'[g].initialized = TRUE /\ svc'[g].host = "open"
          /\ svc'[g].session = s /\ svc'[g].server = s /\ svc'[g].sessionId = svc[g].sessionId
          /\ svc'[g].running = svc[g].running /\ svc'[g].thread = svc[g].thread
          /\ srv'[s] = "running" /\ failed' = failed
        BY Zenon DEF Starts, Becomes
    <2>6. svc[g].running <=> svc[g].thread # 0
        BY <1>1, Zenon DEF Service
    <2> QED
        BY <1>1, <1>2, <1>3, <2>4, <2>5, <2>6, Zenon DEF Service
<1> QED
    BY <1>4, <1>5, <1>6, RebuiltKeeps, Zenon

\* Handing out a session and starting its publisher preserves the invariant of the
\* services.
LEMMA HandsOutKeeps ==
    ASSUME Types, Core, SameClosers, NEW t \in Threads, NEW g \in Services, g = thr[t].svc, NEW s \in Sessions, HandsOut(t, s)
    PROVE Core'
<1>0. s # 0
    BY DEF Sessions
<1>1. Opens(g, s) /\ Service(g) /\ svc[g] \in ServiceStates /\ s # 0 /\ svc[g].host # "none"
    BY <1>0, TypesGive, Zenon DEF HandsOut, Core
<1>2. svc[g].closing = FALSE
    BY <1>1, NotClosing, Zenon DEF Service
<1>3. /\ \A r \in Sessions : owner[r] # 0 => owner'[r] = owner[r]
      /\ owner'[s] = g /\ owner[s] \in {0, g}
    BY <1>1, Opened, Zenon
<1>4. Rebuilt(g)
    <2>1. CASE svc[g].running
        BY <1>2, <1>3, <2>1, Zenon DEF Rebuilt, HandsOut, Becomes
    <2>2. CASE ~svc[g].running
        <3>1. svc[g].thread = 0
            BY <1>1, <2>2, Zenon DEF Service
        <3>2. \A p \in Sessions : pub'[p] = pub[p] \/ (pub'[p].pc = "test" /\ owner'[p] = g /\ svc'[g].thread = p)
            BY <1>3, <2>2, Zenon DEF HandsOut, Becomes
        <3> QED
            BY <1>2, <1>3, <2>2, <3>1, <3>2, ZenonT(60) DEF Rebuilt, HandsOut, Becomes
    <2> QED
        BY <2>1, <2>2, Zenon
<1>5. Creation'
    <2>1. \A r \in Sessions : r # s => srv'[r] = srv[r] /\ pub'[r] = pub[r]
        BY Zenon DEF HandsOut
    <2> QED
        BY <1>1, <2>1, CreationOpened, Zenon
<1>6. Service(g)'
    <2>2. \A r \in SomeSession : r # 0 /\ owner[r] = g => owner'[r] = g
        BY <1>3, SMTT(60), Z3T(60) DEF SomeSession, Services
    <2>3. svc[g].thread \in SomeSession /\ svc[g].running \in BOOLEAN
        BY <1>1, Zenon DEF ServiceStates
    <2>4. svc[g].thread # 0 => owner'[svc[g].thread] = g
        BY <1>1, <2>2, <2>3, Zenon DEF Service
    <2>5. svc[g].initialized => s = svc[g].session /\ s = svc[g].server /\ srv[s] = "running"
        BY <1>1, ZenonT(60) DEF Service, Opens
    <2>6. g \notin failed => svc[g].initialized
        BY <1>1, Zenon DEF Service, ServiceStates
    <2>7. /\ svc'[g].closing = FALSE /\ svc'[g].initialized = svc[g].initialized /\ svc'[g].host = "open" /\ svc'[g].session = s
          /\ svc'[g].server = svc[g].server /\ svc'[g].sessionId = s /\ svc'[g].running = TRUE
          /\ svc'[g].thread \in {s, svc[g].thread} /\ svc'[g].thread # 0
          /\ failed' = failed /\ srv' = srv
        BY <1>1, <1>2, ZenonT(60) DEF HandsOut, Becomes, Service
    <2>8. owner'[svc'[g].thread] = g
        BY <1>3, <2>4, <2>7, Zenon
    <2> QED
        BY <1>1, <1>3, <2>5, <2>6, <2>7, <2>8, Zenon DEF Service
<1> QED
    BY <1>4, <1>5, <1>6, RebuiltKeeps, Zenon

-----------------------------------------------------------------------------
(* Core: the steps that close a session.                                    *)

\* A CloseSession that begins takes over what the service held.
LEMMA ClosesKeeps ==
    ASSUME Types, Core, NEW t \in Threads, NEW g \in Services, g = thr[t].svc, ~Closing(t), Closes(t),
           UNCHANGED <<pub, srv, owner, created, failed>>
    PROVE Core'
<1>0. 0 \notin Sessions /\ 0 \notin Services
    BY SMTT(60) DEF Sessions, Services
<1>1. Service(g) /\ svc[g] \in ServiceStates /\ Closers /\ svc[g].initialized /\ ~svc[g].closing
    BY TypesGive, Zenon DEF Core, Closes
<1>2. svc[g].server # 0 /\ svc[g].server \in Sessions /\ owner[svc[g].server] = g /\ srv[svc[g].server] = "running"
    BY <1>1, Zenon DEF Service, ServiceStates, SomeSession
<1>3. /\ thr'[t].pc = "join" /\ thr'[t].svc = g /\ thr'[t].session = svc[g].server /\ thr'[t].join = svc[g].thread
      /\ \A u \in Threads : u # t => thr'[u] = thr[u]
    BY Zenon DEF Closes, Moves
<1>4. /\ svc'[g].closing = TRUE /\ svc'[g].initialized = FALSE /\ svc'[g].host = "none" /\ svc'[g].session = 0
      /\ svc'[g].server = 0 /\ svc'[g].sessionId = 0 /\ svc'[g].running = FALSE /\ svc'[g].thread = 0
      /\ \A h \in Services : h # g => svc'[h] = svc[h]
    BY Zenon DEF Closes, Becomes
<1>5. Creation'
    BY CreationSame, Zenon
<1>6. ASSUME NEW h \in Services PROVE Service(h)'
    <2>1. CASE h = g
        BY <1>4, <2>1, Zenon DEF Service
    <2>2. CASE h # g
        <3>1. svc'[h] = svc[h] /\ Service(h)
            BY <1>4, <2>2, Zenon DEF Core
        <3> QED
            BY <3>1, Zenon DEF Service
    <2> QED
        BY <2>1, <2>2, Zenon
<1>7. Closers'
    <2>1. ASSUME NEW u \in Threads, Closing(u), u # t PROVE Closer(u) /\ thr'[u] = thr[u] /\ thr[u].svc \in Services /\ thr[u].svc # g
        <3>1. Closer(u) /\ thr'[u] = thr[u] /\ thr[u].svc \in Services
            BY <1>1, <1>3, <2>1, TypesGive, Zenon DEF Closers, Closing, Inside
        <3> QED
            BY <1>1, <3>1, Zenon DEF Closer
    <2>2. Closing(t)' /\ Closer(t)'
        BY <1>2, <1>3, <1>4, Zenon DEF Closing, Closer
    <2>3. ASSUME NEW u \in Threads, Closing(u)', u # t PROVE Closing(u)
        BY <1>3, <2>3, Zenon DEF Closing
    <2>4. ASSUME NEW u \in Threads, Closing(u)' PROVE Closer(u)'
        <3>1. CASE u = t
            BY <2>2, <3>1, Zenon
        <3>2. CASE u # t
            <4>1. Closer(u) /\ thr'[u] = thr[u] /\ svc'[thr[u].svc] = svc[thr[u].svc]
                BY <1>4, <2>1, <2>3, <2>4, <3>2, Zenon
            <4> QED
                BY <4>1, Zenon DEF Closer
        <3> QED
            BY <3>1, <3>2, Zenon
    <2>5. ASSUME NEW u \in Threads, NEW w \in Threads, Closing(u)', Closing(w)', thr'[u].svc = thr'[w].svc PROVE u = w
        BY <1>1, <1>3, <2>1, <2>3, <2>5, SMTT(60), Z3T(60) DEF Closers
    <2>6. ASSUME NEW h \in Services, svc'[h].closing PROVE \E u \in Threads : Closing(u)' /\ thr'[u].svc = h
        <3>1. CASE h = g
            BY <1>3, <2>2, <3>1, Zenon
        <3>2. CASE h # g
            <4>1. PICK u \in Threads : Closing(u) /\ thr[u].svc = h
                BY <1>1, <1>4, <2>6, <3>2, Zenon DEF Closers
            <4>2. thr'[u] = thr[u]
                BY <1>3, <4>1, Zenon
            <4> QED
                BY <4>1, <4>2, Zenon DEF Closing
        <3> QED
            BY <3>1, <3>2, Zenon
    <2>7. ASSUME NEW u \in Threads, thr'[u].join # 0 PROVE thr'[u].pc = "join" /\ owner'[thr'[u].join] = thr'[u].svc
        BY <1>1, <1>3, <2>7, ZenonT(200) DEF Closers, Service
    <2> QED
        BY <2>4, <2>5, <2>6, <2>7, Zenon DEF Closers
<1>8. Servers'
    <2>1. SUFFICES ASSUME NEW s \in Sessions, srv[s] \in {"running", "stopping"}
                   PROVE svc'[owner[s]].server = s \/ \E u \in Threads : Closing(u)' /\ thr'[u].session = s
        BY Zenon DEF Servers
    <2>2. owner[s] \in Services
        BY <2>1, Owned, Zenon
    <2>3. CASE svc[owner[s]].server = s
        BY <1>3, <1>4, <2>2, <2>3, ZenonT(60) DEF Closing
    <2>4. CASE \E u \in Threads : Closing(u) /\ thr[u].session = s
        BY <1>3, <2>4, Zenon DEF Closing
    <2> QED
        BY <2>1, <2>3, <2>4, Zenon DEF Core, Servers
<1>9. Publishers'
    <2>1. ASSUME NEW p \in Sessions, PublisherLives(p)
          PROVE svc'[owner[p]].thread = p \/ \E u \in Threads : thr'[u].join = p
        <3>1. owner[p] \in Services
            BY <2>1, Owned, Zenon DEF PublisherLives
        <3>2. svc[owner[p]].thread = p \/ \E u \in Threads : thr[u].join = p
            BY <2>1, Zenon DEF Core, Publishers
        <3>3. thr[t].join = 0
            BY <1>1, Zenon DEF Closers, Closing
        <3>4. CASE svc[owner[p]].thread = p
            <4>1. CASE owner[p] = g
                <5>1. thr'[t].join = p
                    BY <1>3, <3>4, <4>1, Zenon
                <5> QED
                    BY <5>1, Zenon
            <4>2. CASE owner[p] # g
                <5>1. svc'[owner[p]] = svc[owner[p]]
                    BY <1>4, <3>1, <4>2, Zenon
                <5> QED
                    BY <3>4, <5>1, Zenon
            <4> QED
                BY <4>1, <4>2, Zenon
        <3>5. CASE \E u \in Threads : thr[u].join = p
            BY <1>0, <1>3, <3>3, <3>5, Zenon
        <3> QED
            BY <3>2, <3>4, <3>5, Zenon
    <2> QED
        BY <2>1, Zenon DEF Publishers, Core, PublisherLives
<1> QED
    BY <1>5, <1>6, <1>7, <1>8, <1>9, Zenon DEF Core

\* A thread inside CloseSession is the only one for its service, and has its session to
\* itself.
LEMMA CloserHas ==
    ASSUME Types, Core, NEW t \in Threads, Closing(t)
    PROVE /\ thr[t].svc \in Services /\ thr[t].session \in Sessions /\ Closer(t) /\ thr[t].svc # 0
          /\ (\A u \in Threads : Closing(u) /\ u # t => thr[u].svc # thr[t].svc /\ thr[u].session # thr[t].session)
          /\ (\A h \in Services : svc[h].initialized => h # thr[t].svc /\ svc[h].server # thr[t].session)
<1>0. Closers
    BY Zenon DEF Core
<1>1. ASSUME NEW u \in Threads, Closing(u) PROVE thr[u].svc \in Services /\ thr[u].session \in Sessions /\ Closer(u)
    <2>1. thr[u].svc \in Services /\ thr[u].session \in SomeSession
        BY <1>1, TypesGive, Zenon DEF Closing, Inside, ThreadStates
    <2>2. Closer(u)
        BY <1>0, <1>1, Zenon DEF Closers
    <2> QED
        BY <2>1, <2>2, Zenon DEF Closer, SomeSession
<1>2. thr[t].svc # 0
    BY <1>1, SMTT(60), Z3T(60) DEF Services
<1>3. ASSUME NEW u \in Threads, Closing(u), u # t PROVE thr[u].svc # thr[t].svc /\ thr[u].session # thr[t].session
    <2>1. thr[u].svc # thr[t].svc
        BY <1>0, <1>3, Zenon DEF Closers
    <2> QED
        BY <1>1, <1>3, <2>1, Zenon DEF Closer
<1>4. ASSUME NEW h \in Services, svc[h].initialized PROVE h # thr[t].svc /\ svc[h].server # thr[t].session
    <2>1. Service(h) /\ Service(thr[t].svc) /\ Closer(t)
        BY <1>1, Zenon DEF Core
    <2>2. h # thr[t].svc
        BY <1>4, <2>1, Zenon DEF Service, Closer
    <2>3. owner[svc[h].server] = h
        BY <1>4, <2>1, Zenon DEF Service
    <2> QED
        BY <2>1, <2>2, <2>3, Zenon DEF Closer
<1> QED
    BY <1>1, <1>2, <1>3, <1>4, Zenon

\* Joining the publisher preserves the invariant of the services.
LEMMA JoinKeeps ==
    ASSUME Types, Core, NEW t \in Threads, thr[t].pc = "join", thr[t].join # 0 => pub[thr[t].join].pc = "exited",
           Moves(t, "stop", thr[t].svc, thr[t].session, 0, thr[t].dtor), SameServices
    PROVE Core'
<1>1. /\ thr'[t].pc = "stop" /\ thr'[t].svc = thr[t].svc /\ thr'[t].session = thr[t].session /\ thr'[t].join = 0
      /\ \A u \in Threads : u # t => thr'[u] = thr[u]
    BY Zenon DEF Moves
<1>2. \A u \in Threads : (Closing(u)' <=> Closing(u)) /\ thr'[u].svc = thr[u].svc /\ thr'[u].session = thr[u].session
    BY <1>1, Zenon DEF Closing
<1>3. Creation' /\ \A g \in Services : Service(g)'
    BY ZenonT(200) DEF Core, SameServices, Creation, Service
<1>4. Closers'
    <2>0. Closers
        BY Zenon DEF Core
    <2>1. ASSUME NEW u \in Threads, Closing(u)' PROVE Closer(u)'
        <3>1. Closer(u)
            BY <1>2, <2>0, <2>1, Zenon DEF Closers
        <3>2. CASE u = t
            BY <1>1, <3>1, <3>2, Zenon DEF Closer, SameServices
        <3>3. CASE u # t
            BY <1>1, <3>1, <3>3, Zenon DEF Closer, SameServices
        <3> QED
            BY <3>2, <3>3, Zenon
    <2>2. ASSUME NEW u \in Threads, NEW w \in Threads, Closing(u)', Closing(w)', thr'[u].svc = thr'[w].svc PROVE u = w
        <3>1. Closing(u) /\ Closing(w) /\ thr[u].svc = thr[w].svc
            BY <1>2, <2>2, Zenon
        <3> QED
            BY <2>0, <3>1, Zenon DEF Closers
    <2>3. ASSUME NEW h \in Services, svc'[h].closing PROVE \E u \in Threads : Closing(u)' /\ thr'[u].svc = h
        BY <1>2, <2>0, <2>3, SMTT(60) DEF Closers, SameServices
    <2>4. ASSUME NEW u \in Threads, thr'[u].join # 0 PROVE thr'[u].pc = "join" /\ owner'[thr'[u].join] = thr'[u].svc
        BY <1>1, <2>0, <2>4, ZenonT(60) DEF Closers, SameServices
    <2> QED
        BY <2>1, <2>2, <2>3, <2>4, Zenon DEF Closers
<1>5. Servers'
    <2>1. SUFFICES ASSUME NEW s \in Sessions, srv[s] \in {"running", "stopping"}
                   PROVE svc[owner[s]].server = s \/ \E u \in Threads : Closing(u)' /\ thr'[u].session = s
        BY Zenon DEF Servers, SameServices
    <2> QED
        BY <1>2, <2>1, ZenonT(60) DEF Core, Servers
<1>6. Publishers'
    <2>1. ASSUME NEW p \in Sessions, PublisherLives(p)
          PROVE svc[owner[p]].thread = p \/ \E u \in Threads : thr'[u].join = p
        <3>1. svc[owner[p]].thread = p \/ \E u \in Threads : thr[u].join = p
            BY <2>1, Zenon DEF Core, Publishers
        <3>2. thr[t].join # p
            BY <2>1, SMTT(60) DEF PublisherLives, Sessions
        <3> QED
            BY <1>1, <3>1, <3>2, Zenon
    <2> QED
        BY <2>1, Zenon DEF Publishers, Core, PublisherLives, SameServices
<1> QED
    BY <1>3, <1>4, <1>5, <1>6, Zenon DEF Core

\* Nobody publishes with the server that CloseSession is about to stop: the only
\* publisher of the service has been joined.
LEMMA NobodyPublishes ==
    ASSUME Types, Core, NEW t \in Threads, thr[t].pc \in {"stop", "drain"}, NEW p \in Sessions, pub[p].pc = "publish"
    PROVE pub[p].server # thr[t].session
<1>1. Closing(t)
    BY Zenon DEF Closing
<1>2. thr[t].svc \in Services /\ Closer(t)
    BY <1>1, CloserHas, Zenon
<1>3. owner[pub[p].server] = owner[p] /\ srv[pub[p].server] = "running" /\ PublisherLives(p)
    BY Zenon DEF Core, Publishers, PublisherLives
<1>4. SUFFICES ASSUME pub[p].server = thr[t].session PROVE FALSE
    BY Zenon
<1>5. owner[p] = thr[t].svc /\ svc[thr[t].svc].closing
    BY <1>2, <1>3, <1>4, Zenon DEF Closer
<1>6. svc[owner[p]].thread = 0
    BY <1>2, <1>5, ZenonT(200) DEF Core, Service
<1>7. PICK u \in Threads : thr[u].join = p
    BY <1>3, <1>6, SMTT(60) DEF Core, Publishers, Sessions
<1>8. thr[u].pc = "join" /\ thr[u].svc = thr[t].svc
    BY <1>5, <1>7, SMTT(60) DEF Core, Closers, Sessions
<1>9. u = t
    BY <1>1, <1>8, ZenonT(60) DEF Core, Closers, Closing
<1> QED
    BY <1>8, <1>9, Zenon

\* Stopping the server preserves the invariant of the services.
LEMMA ServerStopKeeps ==
    ASSUME Types, Core, NEW t \in Threads, NEW pc, NEW next,
           \/ thr[t].pc = "stop" /\ pc = "drain" /\ next = "stopping"
           \/ thr[t].pc = "drain" /\ pc = "closed" /\ next = "stopped",
           Walks(t, pc), ServerGoes(thr[t].session, next), UNCHANGED <<svc, pub, owner, created, failed>>
    PROVE Core'
<1>0. Closing(t) /\ Closers
    BY Zenon DEF Closing, Core
<1>1. /\ thr'[t].pc = pc /\ thr'[t].svc = thr[t].svc /\ thr'[t].session = thr[t].session /\ thr'[t].join = thr[t].join
      /\ \A u \in Threads : u # t => thr'[u] = thr[u]
    BY Zenon DEF Walks, Moves
<1>2. \A u \in Threads : (Closing(u)' <=> Closing(u)) /\ thr'[u].svc = thr[u].svc /\ thr'[u].session = thr[u].session
    BY <1>1, Zenon DEF Closing
<1>3. thr[t].session \in Sessions /\ srv'[thr[t].session] = next /\ \A r \in Sessions : r # thr[t].session => srv'[r] = srv[r]
    BY <1>0, CloserHas, Zenon DEF ServerGoes
<1>4. thr[t].join = 0
    BY <1>0, Zenon DEF Closers
<1>5. Creation'
    <2>1. owner[thr[t].session] # 0
        BY <1>0, CloserHas, Zenon DEF Closer
    <2>2. thr[t].session <= created
        BY <1>3, <2>1, Owned, Zenon
    <2>3. \A s \in Sessions : s > created => s # thr[t].session
        BY <1>3, <2>2, TypesGive, SMTT(60), Z3T(60) DEF Sessions
    <2> QED
        BY <1>3, <2>3, Zenon DEF Creation, Core
<1>6. ASSUME NEW h \in Services PROVE Service(h)'
    <2>1. Service(h) /\ svc[h] \in ServiceStates
        BY TypesGive, Zenon DEF Core
    <2>2. svc[h].initialized => svc[h].server # thr[t].session /\ svc[h].server \in Sessions
        BY <1>0, <2>1, CloserHas, Zenon DEF Service, ServiceStates, SomeSession
    <2>3. svc[h].initialized => srv'[svc[h].server] = srv[svc[h].server]
        BY <1>3, <2>2, Zenon
    <2> QED
        BY <2>1, <2>3, Zenon DEF Service
<1>7. Closers'
    <2>1. ASSUME NEW u \in Threads, Closing(u)' PROVE Closer(u)'
        <3>1. Closer(u) /\ Closing(u) /\ thr[u].session \in Sessions
            BY <1>2, <2>1, CloserHas, Zenon
        <3>2. CASE u = t
            BY <1>1, <1>3, <3>1, <3>2, Zenon DEF Closer
        <3>3. CASE u # t
            <4>1. thr[u].session # thr[t].session
                BY <1>0, <3>1, <3>3, CloserHas, Zenon
            <4> QED
                BY <1>1, <1>3, <3>1, <3>3, <4>1, ZenonT(60) DEF Closer
        <3> QED
            BY <3>2, <3>3, Zenon
    <2>2. ASSUME NEW u \in Threads, NEW w \in Threads, Closing(u)', Closing(w)', thr'[u].svc = thr'[w].svc PROVE u = w
        BY <1>0, <1>2, <2>2, ZenonT(60) DEF Closers
    <2>3. ASSUME NEW h \in Services, svc'[h].closing PROVE \E u \in Threads : Closing(u)' /\ thr'[u].svc = h
        <3>1. PICK u \in Threads : Closing(u) /\ thr[u].svc = h
            BY <1>0, <1>2, <2>3, Zenon DEF Closers
        <3> QED
            BY <1>0, <1>2, <3>1, Zenon
    <2>4. ASSUME NEW u \in Threads, thr'[u].join # 0 PROVE thr'[u].pc = "join" /\ owner'[thr'[u].join] = thr'[u].svc
        BY <1>0, <1>1, <1>4, <2>4, ZenonT(60) DEF Closers
    <2> QED
        BY <2>1, <2>2, <2>3, <2>4, Zenon DEF Closers
<1>8. Servers'
    <2>1. SUFFICES ASSUME NEW s \in Sessions, srv'[s] \in {"running", "stopping"}
                   PROVE svc[owner[s]].server = s \/ \E u \in Threads : Closing(u)' /\ thr'[u].session = s
        BY Zenon DEF Servers
    <2>2. CASE s = thr[t].session
        BY <1>0, <1>2, <2>2, Zenon
    <2>3. CASE s # thr[t].session
        BY <1>2, <1>3, <2>1, <2>3, SMTT(60) DEF Core, Servers
    <2> QED
        BY <2>2, <2>3, Zenon
<1>9. Publishers'
    <2>1. ASSUME NEW p \in Sessions, PublisherLives(p)
          PROVE svc[owner[p]].thread = p \/ \E u \in Threads : thr'[u].join = p
        <3>1. svc[owner[p]].thread = p \/ \E u \in Threads : thr[u].join = p
            BY <2>1, Zenon DEF Core, Publishers
        <3> QED
            BY <1>1, <3>1, Zenon
    <2>2. ASSUME NEW p \in Sessions, pub[p].pc = "publish"
          PROVE pub[p].server # 0 /\ owner[pub[p].server] = owner[p] /\ srv'[pub[p].server] = "running"
        <3>1. pub[p].server # 0 /\ owner[pub[p].server] = owner[p] /\ srv[pub[p].server] = "running"
            BY <2>2, Zenon DEF Core, Publishers
        <3>2. pub[p].server \in Sessions
            BY <3>1, TypesGive, Zenon DEF PublisherStates, SomeSession
        <3>3. pub[p].server # thr[t].session
            BY <2>2, NobodyPublishes, Zenon
        <3> QED
            BY <1>3, <3>1, <3>2, <3>3, Zenon
    <2> QED
        BY <2>1, <2>2, Zenon DEF Publishers, PublisherLives
<1>10. \A h \in Services : Service(h)'
    BY <1>6, Zenon
<1> QED
    BY <1>5, <1>7, <1>8, <1>9, <1>10, Zenon DEF Core

\* A CloseSession that ends gives its service back closed.
LEMMA DoneKeeps ==
    ASSUME Types, Core, NEW t \in Threads, NEW g \in Services, g = thr[t].svc, thr[t].pc = "closed",
           Becomes(g, FALSE, svc[g].initialized, svc[g].host, svc[g].session, svc[g].server, svc[g].sessionId,
                   svc[g].running, svc[g].thread),
           NEW pc \in {"return", "unpublish"}, Moves(t, pc, g, 0, thr[t].join, thr[t].dtor),
           UNCHANGED <<pub, srv, owner, created, failed>>
    PROVE Core'
<1>0. Closing(t) /\ Closers
    BY Zenon DEF Closing, Core
<1>1. /\ thr'[t].pc = pc /\ thr'[t].svc = g /\ thr'[t].session = 0 /\ thr'[t].join = thr[t].join
      /\ \A u \in Threads : u # t => thr'[u] = thr[u]
    BY Zenon DEF Moves
<1>2. /\ svc'[g].closing = FALSE /\ svc'[g].initialized = svc[g].initialized /\ svc'[g].host = svc[g].host
      /\ svc'[g].session = svc[g].session /\ svc'[g].server = svc[g].server /\ svc'[g].sessionId = svc[g].sessionId
      /\ svc'[g].running = svc[g].running /\ svc'[g].thread = svc[g].thread
      /\ \A h \in Services : h # g => svc'[h] = svc[h]
    BY Zenon DEF Becomes
<1>3. \A u \in Threads : Closing(u)' => Closing(u) /\ u # t /\ thr'[u] = thr[u]
    BY <1>1, Zenon DEF Closing
<1>4. \A u \in Threads : Closing(u) /\ u # t => Closing(u)' /\ thr'[u] = thr[u] /\ thr[u].svc # g
    BY <1>0, <1>1, CloserHas, Zenon DEF Closing
<1>5. thr[t].join = 0
    BY <1>0, Zenon DEF Closers
<1>6. srv[thr[t].session] = "stopped"
    BY <1>0, Zenon DEF Closers, Closer
<1>7. Creation'
    BY CreationSame, Zenon
<1>8. ASSUME NEW h \in Services PROVE Service(h)'
    <2>1. Service(h)
        BY Zenon DEF Core
    <2>2. Service(g)'
        <3>1. Service(g) /\ svc[g].closing = TRUE
            BY <1>0, CloserHas, TypesGive, Zenon DEF Core, Closer, ServiceStates
        <3>2. /\ ~svc[g].initialized /\ svc[g].host = "none" /\ svc[g].session = 0 /\ svc[g].server = 0
              /\ svc[g].sessionId = 0 /\ svc[g].thread = 0 /\ ~svc[g].running
            BY <3>1, Zenon DEF Service
        <3> QED
            BY <1>2, <3>2, Zenon DEF Service
    <2>3. CASE h # g
        BY <1>2, <2>1, <2>3, ZenonT(60) DEF Service
    <2> QED
        BY <2>2, <2>3, Zenon
<1>9. Closers'
    <2>1. ASSUME NEW u \in Threads, Closing(u)' PROVE Closer(u)'
        <3>1. Closer(u) /\ thr'[u] = thr[u] /\ thr[u].svc # g /\ thr[u].svc \in Services
            BY <1>3, <1>4, <2>1, CloserHas, Zenon
        <3> QED
            BY <1>2, <3>1, ZenonT(60) DEF Closer
    <2>2. ASSUME NEW u \in Threads, NEW w \in Threads, Closing(u)', Closing(w)', thr'[u].svc = thr'[w].svc PROVE u = w
        BY <1>0, <1>3, <2>2, ZenonT(60) DEF Closers
    <2>3. ASSUME NEW h \in Services, svc'[h].closing PROVE \E u \in Threads : Closing(u)' /\ thr'[u].svc = h
        <3>1. h # g /\ svc[h].closing
            BY <1>2, <2>3, Zenon
        <3>2. PICK u \in Threads : Closing(u) /\ thr[u].svc = h
            BY <1>0, <3>1, Zenon DEF Closers
        <3> QED
            BY <1>4, <3>1, <3>2, Zenon
    <2>4. ASSUME NEW u \in Threads, thr'[u].join # 0 PROVE thr'[u].pc = "join" /\ owner'[thr'[u].join] = thr'[u].svc
        BY <1>0, <1>1, <1>5, <2>4, ZenonT(60) DEF Closers
    <2> QED
        BY <2>1, <2>2, <2>3, <2>4, Zenon DEF Closers
<1>10. Servers'
    <2>1. SUFFICES ASSUME NEW s \in Sessions, srv[s] \in {"running", "stopping"}
                   PROVE svc'[owner[s]].server = s \/ \E u \in Threads : Closing(u)' /\ thr'[u].session = s
        BY Zenon DEF Servers
    <2>2. owner[s] \in Services
        BY <2>1, Owned, Zenon
    <2>3. CASE svc[owner[s]].server = s
        BY <1>2, <2>2, <2>3, Zenon
    <2>4. CASE \E u \in Threads : Closing(u) /\ thr[u].session = s
        BY <1>4, <1>6, <2>1, <2>4, Zenon
    <2> QED
        BY <2>1, <2>3, <2>4, Zenon DEF Core, Servers
<1>11. Publishers'
    <2>1. ASSUME NEW p \in Sessions, PublisherLives(p)
          PROVE svc'[owner[p]].thread = p \/ \E u \in Threads : thr'[u].join = p
        <3>1. svc[owner[p]].thread = p \/ \E u \in Threads : thr[u].join = p
            BY <2>1, Zenon DEF Core, Publishers
        <3>2. owner[p] \in Services
            BY <2>1, Owned, Zenon DEF PublisherLives
        <3> QED
            BY <1>1, <1>2, <3>1, <3>2, ZenonT(60)
    <2> QED
        BY <2>1, Zenon DEF Publishers, Core, PublisherLives
<1>12. \A h \in Services : Service(h)'
    BY <1>8, Zenon
<1> QED
    BY <1>7, <1>9, <1>10, <1>11, <1>12, Zenon DEF Core

-----------------------------------------------------------------------------
(* The publishers.                                                          *)

\* The publisher thread preserves the invariant and changes only its own record.
LEMMA PublisherStep ==
    ASSUME Types, Core, NEW p \in Sessions, Publisher(p)
    PROVE /\ Core' /\ pub' \in [Sessions -> PublisherStates]
          /\ UNCHANGED <<lifecycle, svc, srv, owner, created, failures, failed, thr, busy, terminated>>
<1>1. pub \in [Sessions -> PublisherStates] /\ svc \in [Services -> ServiceStates]
    BY TypesGive, Zenon
<1>2. UNCHANGED <<lifecycle, svc, srv, owner, created, failures, failed, thr, busy, terminated>>
    BY Zenon DEF Publisher, PublisherTest, PublisherCheck, PublishEventBlocking, Published, PublisherGoto
<1>3. PublisherLives(p) /\ owner[p] \in Services
    <2>1. PublisherLives(p)
        BY Zenon DEF Publisher, PublisherTest, PublisherCheck, PublishEventBlocking, Published, PublisherLives
    <2> QED
        BY <2>1, Owned, Zenon DEF PublisherLives
<1>4. /\ pub' \in [Sessions -> PublisherStates] /\ \A q \in Sessions : q # p => pub'[q] = pub[q]
      /\ pub'[p].pc = "publish" => CanPublish(svc[owner[p]]) /\ pub'[p].server = svc[owner[p]].server
    <2>1. CASE PublisherTest(p)
        BY <1>1, <2>1, Zenon DEF PublisherTest, PublisherGoto, PublisherStates
    <2>2. CASE PublisherCheck(p)
        BY <1>1, <2>2, Zenon DEF PublisherCheck, PublisherGoto, PublisherStates
    <2>3. CASE PublishEventBlocking(p)
        BY <1>1, <1>3, <2>3, Zenon DEF PublishEventBlocking, PublisherStates, ServiceStates
    <2>4. CASE Published(p)
        BY <1>1, <2>4, Zenon DEF Published, PublisherStates, SomeSession
    <2> QED
        BY <2>1, <2>2, <2>3, <2>4, Zenon DEF Publisher
<1>5. Creation'
    <2>1. p <= created
        BY <1>3, Owned, SMTT(60), Z3T(60) DEF Services
    <2>2. \A s \in Sessions : s > created => s # p
        BY <2>1, TypesGive, SMTT(60), Z3T(60) DEF Sessions
    <2> QED
        BY <1>2, <1>4, <2>2, Zenon DEF Core, Creation
<1>6. \A h \in Services : Service(h)'
    BY <1>2, ZenonT(60) DEF Core, Service
<1>7. Closers'
    BY <1>2, StandingIsSame, ClosersKeep, Zenon
<1>8. Servers'
    BY <1>2, Zenon DEF Core, Servers, Closing
<1>9. Publishers'
    <2>1. ASSUME NEW q \in Sessions, PublisherLives(q)'
          PROVE svc[owner[q]].thread = q \/ \E u \in Threads : thr[u].join = q
        BY <1>3, <1>4, <2>1, Zenon DEF Core, Publishers, PublisherLives
    <2>2. ASSUME NEW q \in Sessions, pub'[q].pc = "publish"
          PROVE pub'[q].server # 0 /\ owner[pub'[q].server] = owner[q] /\ srv[pub'[q].server] = "running"
        <3>1. CASE q # p
            BY <1>4, <2>2, <3>1, ZenonT(60) DEF Core, Publishers
        <3>2. CASE q = p
            <4>1. svc[owner[p]].initialized /\ pub'[p].server = svc[owner[p]].server /\ svc[owner[p]].server # 0
                BY <1>4, <2>2, <3>2, Zenon DEF CanPublish
            <4>2. Service(owner[p])
                BY <1>3, Zenon DEF Core
            <4> QED
                BY <3>2, <4>1, <4>2, Zenon DEF Service
        <3> QED
            BY <3>1, <3>2, Zenon
    <2> QED
        BY <1>2, <2>1, <2>2, Zenon DEF Publishers
<1>10. Core'
    BY <1>5, <1>6, <1>7, <1>8, <1>9, Zenon DEF Core
<1> QED
    BY <1>2, <1>4, <1>10, Zenon

-----------------------------------------------------------------------------
(* Ending: destructors, and the services that nobody holds.                 *)

DestructorPcs == {"close", "join", "stop", "drain", "closed", "return"}

\* A thread that starts a session holds its service.
InitializedKeeps ==
    \A h \in Services : svc'[h].initialized =>
        svc[h].initialized \/ \E u \in Threads : thr[u].svc = h /\ thr[u].pc = "ensure"

\* A step that takes nobody out of a service preserves what the end of a service relies
\* on.
LEMMA EndingKeeps ==
    ASSUME Types, Ending, InitializedKeeps, UNCHANGED <<current, starts>>, terminated' => terminated, failed \subseteq failed',
           \A u \in Threads : thr'[u].svc = thr[u].svc /\ thr'[u].dtor = thr[u].dtor,
           \A u \in Threads : thr[u].dtor =>
               \/ thr'[u] = thr[u]
               \/ thr'[u].pc \in DestructorPcs \ {"return"}
               \/ thr'[u].pc = "return" /\ ~svc'[thr[u].svc].initialized
    PROVE Ending'
<1>0. Destructors /\ Abandoned
    BY Zenon DEF Ending
<1>1. ASSUME NEW t \in Threads, thr'[t].dtor
      PROVE /\ thr'[t].svc # 0 /\ thr'[t].svc # current
            /\ \A u \in Threads : thr'[u].svc = thr'[t].svc => u = t
            /\ thr'[t].pc \in {"close", "join", "stop", "drain", "closed", "return"}
            /\ thr'[t].pc = "return" => ~svc'[thr'[t].svc].initialized
    <2>1. /\ thr[t].svc # 0 /\ thr[t].svc # current
          /\ \A u \in Threads : thr[u].svc = thr[t].svc => u = t
          /\ thr[t].pc \in {"close", "join", "stop", "drain", "closed", "return"}
          /\ thr[t].pc = "return" => ~svc[thr[t].svc].initialized
        BY <1>0, <1>1, Zenon DEF Destructors
    <2>2. thr[t].svc \in Services
        BY <2>1, TypesGive, ZenonT(60) DEF ThreadStates
    <2>3. CASE thr'[t] = thr[t]
        <3>1. thr[t].pc = "return" => ~svc'[thr[t].svc].initialized
            <4>1. SUFFICES ASSUME thr[t].pc = "return", svc'[thr[t].svc].initialized PROVE FALSE
                BY Zenon
            <4>2. PICK u \in Threads : thr[u].svc = thr[t].svc /\ thr[u].pc = "ensure"
                BY <2>1, <2>2, <4>1, Zenon DEF InitializedKeeps
            <4> QED
                BY <2>1, <4>1, <4>2, Zenon
        <3> QED
            BY <2>1, <2>3, <3>1, Zenon
    <2>4. CASE thr'[t].pc \in DestructorPcs \ {"return"}
        BY <2>1, <2>4, Zenon DEF DestructorPcs
    <2>5. CASE thr'[t].pc = "return" /\ ~svc'[thr[t].svc].initialized
        BY <2>1, <2>5, Zenon
    <2> QED
        BY <1>1, <2>3, <2>4, <2>5, Zenon
<1>2. ASSUME NEW g \in 1 .. starts, g # current, \A t \in Threads : thr'[t].svc # g PROVE ~svc'[g].initialized
    <2>1. ~svc[g].initialized /\ \A t \in Threads : thr[t].svc # g
        BY <1>0, <1>2, Zenon DEF Abandoned
    <2>2. g \in Services
        BY TypesGive, SMTT(60), Z3T(60) DEF Services
    <2> QED
        BY <2>1, <2>2, Zenon DEF InitializedKeeps
<1>3. terminated' => failed' # {}
    BY <1>0, Zenon DEF Destructors
<1>4. Destructors'
    BY <1>1, <1>3, Zenon DEF Destructors
<1>5. Abandoned'
    BY <1>2, Zenon DEF Abandoned
<1> QED
    BY <1>4, <1>5, Zenon DEF Ending

\* A step that keeps everything but where one thread is.
LEMMA WalkKeeps ==
    ASSUME ESInv, NEW t \in Threads, thr[t].pc \notin DestructorPcs, NEW pc, NEW s,
           Moves(t, pc, thr[t].svc, s, thr[t].join, thr[t].dtor), pc \notin ClosingPcs, SameServices,
           UNCHANGED <<current, starts, terminated>>
    PROVE Core' /\ Ending'
<1>1. Types /\ Core /\ Ending /\ ~Closing(t) /\ ~thr[t].dtor
    BY Zenon DEF ESInv, Closing, DestructorPcs, Ending, Destructors
<1>2. SameClosers
    BY <1>1, MoverIsSame, Zenon
<1>3. Core'
    BY <1>1, <1>2, QuietKeeps, Zenon
<1>4. Ending'
    <2>1. InitializedKeeps /\ failed \subseteq failed'
        BY Zenon DEF InitializedKeeps, SameServices
    <2>2. \A u \in Threads : thr'[u].svc = thr[u].svc /\ thr'[u].dtor = thr[u].dtor /\ (thr[u].dtor => thr'[u] = thr[u])
        BY <1>1, Zenon DEF Moves
    <2> QED
        BY <1>1, <2>1, <2>2, EndingKeeps, Zenon
<1> QED
    BY <1>3, <1>4, Zenon

\* A step of one thread preserves the types.
LEMMA WalkTypes ==
    ASSUME Types, NEW t \in Threads, NEW pc, NEW g, NEW s, NEW j, NEW d, Moves(t, pc, g, s, j, d),
           LifecycleTypes', UNCHANGED <<services, busy, terminated>>
    PROVE TypeOK'
<1>1. ServiceTypes' /\ thr' \in [Threads -> ThreadStates]
    BY ServicesSame, Zenon DEF Moves
<1>2. (busy \subseteq Sessions)' /\ (terminated \in BOOLEAN)'
    BY Zenon DEF Types, TypeOK
<1> QED
    BY <1>1, <1>2, TypesAreNext, Zenon

\* The steps of a request before and after it is inside the session service.
LEMMA WalkStep ==
    ASSUME ESInv, NEW t \in Threads, NEW pc, NEW s, Moves(t, pc, thr[t].svc, s, thr[t].join, thr[t].dtor),
           thr[t].pc \notin DestructorPcs, pc \notin ClosingPcs,
           \/ thr[t].pc \in Outside /\ pc \in Outside \cup {"return"}
           \/ thr[t].pc \in Inside /\ pc \in Inside \cup {"return"},
           pc \notin {"make", "move"}, LifecycleTypes', UNCHANGED <<current, starts, services, busy, terminated>>
    PROVE ESInv'
<1>1. Types
    BY Zenon DEF ESInv
<1>2. SameServices
    BY <1>1, ServicesSame, Zenon
<1>3. TypeOK'
    BY <1>1, WalkTypes, Zenon
<1>4. References'
    <2>1. (thr[t].pc \in Outside => thr[t].svc = 0) /\ (thr[t].pc \in Inside => thr[t].svc # 0)
        BY <1>1, Zenon DEF Types, References
    <2>2. (pc \in Outside => thr[t].svc = 0) /\ (pc \in Inside => thr[t].svc # 0)
        BY <2>1, Zenon DEF Outside, Inside
    <2> QED
        BY <1>1, <2>2, ReferencesKeep, Zenon
<1>5. Core' /\ Ending'
    BY <1>2, WalkKeeps, Zenon
<1> QED
    BY <1>3, <1>4, <1>5, Zenon DEF ESInv, Types

\* The steps of a request that change no service preserve the invariant.
LEMMA RequestSteps ==
    ASSUME ESInv, NEW t \in Threads,
           \/ Call(t) \/ Gate(t) \/ ConfigureEngines(t) \/ HeartbeatSample(t) \/ HeartbeatStats(t) \/ InvokeAnyCall(t)
    PROVE ESInv'
<1>0. Types /\ LifecycleTypes
    BY TypesAre, Zenon DEF ESInv, Types
<1>1. CASE Call(t)
    <2>1. PICK pc \in {"copy", "gate"} : Moves(t, pc, thr[t].svc, thr[t].session, thr[t].join, thr[t].dtor)
        BY <1>0, <1>1, CallStep, Zenon
    <2>2. /\ thr[t].pc = "idle" /\ UNCHANGED <<stopping, current, starts, configured, ready, services, busy, terminated>>
          /\ work' \in 0 .. MaxWork
        BY <1>0, <1>1, CallStep, Zenon
    <2>3. LifecycleTypes'
        BY <1>0, <2>2, Zenon DEF LifecycleTypes
    <2> QED
        BY <2>1, <2>2, <2>3, WalkStep, Zenon DEF Outside, ClosingPcs, DestructorPcs
<1>2. CASE Gate(t)
    <2>1. PICK pc \in {"return", "configure", "copy"} : Walks(t, pc)
        BY <1>0, <1>2, PlainSteps, Zenon
    <2>2. thr[t].pc = "gate" /\ UNCHANGED <<lifecycle, services, busy, terminated>>
        BY <1>0, <1>2, PlainSteps, Zenon
    <2>3. LifecycleTypes' /\ UNCHANGED <<current, starts>>
        BY <1>0, <2>2, LifecycleSame, Zenon
    <2> QED
        BY <2>1, <2>2, <2>3, WalkStep, Zenon DEF Outside, ClosingPcs, DestructorPcs, Walks
<1>3. CASE ConfigureEngines(t)
    <2>1. PICK pc \in {"return", "copy"} : Walks(t, pc)
        BY <1>0, <1>3, PlainSteps, Zenon
    <2>2. /\ thr[t].pc = "configure" /\ UNCHANGED <<stopping, current, starts, ready, work, services, busy, terminated>>
          /\ configured' \in Kinds \cup {NoKinds}
        BY <1>0, <1>3, PlainSteps, Zenon
    <2>3. LifecycleTypes'
        BY <1>0, <2>2, Zenon DEF LifecycleTypes
    <2> QED
        BY <2>1, <2>2, <2>3, WalkStep, Zenon DEF Outside, ClosingPcs, DestructorPcs, Walks
<1>4. CASE HeartbeatSample(t)
    <2>1. PICK pc \in {"return", "stats"}, s \in SomeSession : Moves(t, pc, thr[t].svc, s, thr[t].join, thr[t].dtor)
        BY <1>0, <1>4, SampleStep, Zenon
    <2>2. thr[t].pc = "sample" /\ UNCHANGED <<lifecycle, services, busy, terminated>>
        BY <1>0, <1>4, SampleStep, Zenon
    <2>3. LifecycleTypes' /\ UNCHANGED <<current, starts>>
        BY <1>0, <2>2, LifecycleSame, Zenon
    <2> QED
        BY <2>1, <2>2, <2>3, WalkStep, Zenon DEF Inside, ClosingPcs, DestructorPcs
<1>5. CASE HeartbeatStats(t) \/ InvokeAnyCall(t)
    <2>1. Walks(t, "return") /\ thr[t].pc \in {"stats", "invoke"} /\ UNCHANGED <<lifecycle, services, busy, terminated>>
        BY <1>0, <1>5, PlainSteps, Zenon
    <2>3. LifecycleTypes' /\ UNCHANGED <<current, starts>>
        BY <1>0, <2>1, LifecycleSame, Zenon
    <2> QED
        BY <2>1, <2>3, WalkStep, Zenon DEF Inside, ClosingPcs, DestructorPcs, Walks
<1> QED
    BY <1>1, <1>2, <1>3, <1>4, <1>5, Zenon

\* The copy of session_service_ preserves the invariant.
LEMMA CopyKeeps ==
    ASSUME ESInv, NEW t \in Threads, CopyService(t)
    PROVE ESInv'
<1>0. Types /\ Core /\ Ending /\ Destructors /\ Abandoned
    BY Zenon DEF ESInv, Ending
<1>1. PICK pc \in {"return", "close", "sample", "ensure"} :
          Moves(t, pc, current, thr[t].session, thr[t].join, thr[t].dtor) /\ (pc # "return" => current # 0)
    BY <1>0, CopyStep, Zenon
<1>2. thr[t].pc = "copy" /\ UNCHANGED <<lifecycle, services, busy, terminated>>
    BY <1>0, CopyStep, Zenon
<1>3. LifecycleTypes' /\ UNCHANGED <<current, starts>> /\ SameServices
    BY <1>0, <1>2, LifecycleSame, ServicesSame, Zenon
<1>4. TypeOK'
    BY <1>0, <1>1, <1>2, <1>3, WalkTypes, Zenon
<1>5. /\ thr'[t].pc = pc /\ thr'[t].svc = current /\ thr'[t].dtor = thr[t].dtor
      /\ \A u \in Threads : u # t => thr'[u] = thr[u]
    BY <1>1, Zenon DEF Moves
<1>6. current \in {0, starts} /\ starts \in Nat /\ Main \in Threads
    BY <1>0, TypesGive, SMTT(60), Z3T(60) DEF Types, References
<1>7. References'
    <2>1. ASSUME NEW u \in Threads
          PROVE /\ thr'[u].svc \in 0 .. starts
                /\ thr'[u].pc \in Outside => thr'[u].svc = 0
                /\ thr'[u].pc \in Inside => thr'[u].svc # 0
        <3>1. CASE u = t
            BY <1>1, <1>5, <1>6, <3>1, SMTT(60), Z3T(60) DEF Outside, Inside
        <3>2. CASE u # t
            BY <1>0, <1>5, <3>2, Zenon DEF Types, References
        <3> QED
            BY <3>1, <3>2, Zenon
    <2>2. /\ thr'[Main].pc = "make" => current = 0 /\ starts < MaxStarts
          /\ thr'[Main].pc = "move" => current # 0
        BY <1>0, <1>1, <1>5, <1>6, Zenon DEF Types, References
    <2> QED
        BY <1>3, <1>6, <2>1, <2>2, Zenon DEF References, Outside, Inside
<1>8. ~Closing(t) /\ pc \notin ClosingPcs
    BY <1>2, Zenon DEF Closing, ClosingPcs
<1>9. SameClosers
    BY <1>0, <1>1, <1>8, MoverIsSame, Zenon
<1>10. Core'
    BY <1>0, <1>3, <1>9, QuietKeeps, Zenon
<1>11. thr[t].svc = 0 /\ ~thr[t].dtor
    BY <1>0, <1>2, Zenon DEF Types, References, Outside, Destructors
<1>12. Destructors'
    <2>1. ASSUME NEW u \in Threads, thr'[u].dtor
          PROVE /\ thr'[u].svc # 0 /\ thr'[u].svc # current
                /\ \A w \in Threads : thr'[w].svc = thr'[u].svc => w = u
                /\ thr'[u].pc \in {"close", "join", "stop", "drain", "closed", "return"}
                /\ thr'[u].pc = "return" => ~svc[thr'[u].svc].initialized
        <3>1. u # t /\ thr'[u] = thr[u] /\ thr[u].dtor
            BY <1>5, <1>11, <2>1, Zenon
        <3>2. /\ thr[u].svc # 0 /\ thr[u].svc # current
              /\ \A w \in Threads : thr[w].svc = thr[u].svc => w = u
              /\ thr[u].pc \in {"close", "join", "stop", "drain", "closed", "return"}
              /\ thr[u].pc = "return" => ~svc[thr[u].svc].initialized
            BY <1>0, <3>1, Zenon DEF Destructors
        <3>3. ASSUME NEW w \in Threads, thr'[w].svc = thr'[u].svc PROVE w = u
            BY <1>5, <3>1, <3>2, <3>3, Zenon
        <3> QED
            BY <3>1, <3>2, <3>3, Zenon
    <2> QED
        BY <1>0, <1>2, <1>3, <2>1, Zenon DEF Destructors, SameServices
<1>13. Abandoned'
    <2>1. ASSUME NEW g \in 1 .. starts, g # current, \A u \in Threads : thr'[u].svc # g PROVE ~svc[g].initialized
        <3>1. \A u \in Threads : thr[u].svc # g
            BY <1>5, <1>6, <1>11, <2>1, SMTT(60), Z3T(60)
        <3> QED
            BY <1>0, <2>1, <3>1, Zenon DEF Abandoned
    <2> QED
        BY <1>3, <2>1, Zenon DEF Abandoned, SameServices
<1> QED
    BY <1>4, <1>7, <1>10, <1>12, <1>13, Zenon DEF ESInv, Types, Ending

\* The types after a step that changes services.
LEMMA ServiceStepTypes ==
    ASSUME Types, NEW t \in Threads, NEW pc, NEW g, NEW s, NEW j, NEW d, Moves(t, pc, g, s, j, d),
           ServiceTypes', UNCHANGED <<lifecycle, busy>>, (terminated \in BOOLEAN)'
    PROVE TypeOK'
<1>1. LifecycleTypes' /\ thr' \in [Threads -> ThreadStates]
    BY LifecycleSame, Zenon DEF Moves
<1>2. (busy \subseteq Sessions)'
    BY Zenon DEF Types, TypeOK
<1> QED
    BY <1>1, <1>2, TypesAreNext, Zenon

\* A thread inside a service stays among its references.
LEMMA StaysInside ==
    ASSUME Types, NEW t \in Threads, thr[t].pc \in Inside \cup {"return"}, NEW pc \in Inside \cup {"return"}, NEW s, NEW j, NEW d,
           thr[t].svc # 0, Moves(t, pc, thr[t].svc, s, j, d), UNCHANGED lifecycle
    PROVE References'
<1>1. pc \notin Outside /\ pc \notin {"make", "move"}
    BY Zenon DEF Inside, Outside
<1>2. UNCHANGED <<current, starts>>
    BY LifecycleSame, Zenon
<1> QED
    BY <1>1, <1>2, ReferencesKeep, Zenon

\* EnsureInitialized preserves the invariant.
LEMMA EnsureKeeps ==
    ASSUME ESInv, NEW t \in Threads, EnsureInitialized(t)
    PROVE ESInv'
<1>0. Types /\ Core /\ Ending /\ Destructors
    BY Zenon DEF ESInv, Ending
<1>1. thr[t].pc = "ensure" /\ thr[t].svc \in Services /\ UNCHANGED <<lifecycle, busy, terminated>>
    BY <1>0, EnsureStep, Zenon
<1>2. PICK g \in Services : g = thr[t].svc
    BY <1>1, Zenon
<1>3. ~Closing(t) /\ ~thr[t].dtor /\ g # 0 /\ (terminated \in BOOLEAN)' /\ UNCHANGED <<current, starts>>
    <2>1. ~Closing(t) /\ ~thr[t].dtor /\ g # 0
        BY <1>0, <1>1, SMTT(60), Z3T(60) DEF Closing, Destructors, Services
    <2>2. (terminated \in BOOLEAN)'
        BY <1>0, <1>1, Zenon DEF Types, TypeOK
    <2> QED
        BY <1>0, <1>1, <2>1, <2>2, LifecycleSame, Zenon
<1>4. ServiceTypes
    BY <1>0, TypesAre, Zenon DEF Types
<1>5. ASSUME NEW pc \in {"return", "handout", "invoke"}, Walks(t, pc), Core', ServiceTypes', failed \subseteq failed'
      PROVE ESInv'
    <2>0. Moves(t, pc, thr[t].svc, thr[t].session, thr[t].join, thr[t].dtor)
        BY <1>5, Zenon DEF Walks
    <2>1. TypeOK'
        BY <1>0, <1>1, <1>3, <1>5, <2>0, ServiceStepTypes, Zenon
    <2>2. References'
        BY <1>0, <1>1, <1>2, <1>3, <2>0, StaysInside, Zenon DEF Inside
    <2>3. \A u \in Threads : thr'[u].svc = thr[u].svc /\ thr'[u].dtor = thr[u].dtor /\ (thr[u].dtor => thr'[u] = thr[u])
        BY <1>3, <2>0, Zenon DEF Moves
    <2>4. InitializedKeeps
        <3>1. \A h \in Services : h # g => (svc'[h].initialized => svc[h].initialized)
            <4>1. \A h \in Services : h # g => svc'[h] = svc[h]
                BY <1>0, <1>2, EnsureStep, Zenon DEF EnsureFails, Fails, StartFails, Starts, Becomes, services
            <4> QED
                BY <4>1, Zenon
        <3> QED
            BY <1>1, <1>2, <3>1, Zenon DEF InitializedKeeps
    <2>5. Ending'
        BY <1>0, <1>1, <1>3, <1>5, <2>3, <2>4, EndingKeeps, Zenon
    <2> QED
        BY <1>5, <2>1, <2>2, <2>5, Zenon DEF ESInv, Types
<1>6. ASSUME NEW pc \in {"return", "handout", "invoke"}, Walks(t, pc) PROVE SameClosers
    BY <1>0, <1>3, <1>6, MoverIsSame, Zenon DEF Walks, ClosingPcs
<1>7. CASE (\E pc \in {"return", "handout", "invoke"} : Walks(t, pc)) /\ UNCHANGED services
    <2>1. ServiceTypes' /\ SameServices
        BY <1>0, <1>7, ServicesSame, Zenon
    <2>2. SameClosers
        BY <1>6, <1>7, Zenon
    <2>3. Core' /\ failed \subseteq failed'
        BY <1>0, <2>1, <2>2, QuietKeeps, Zenon DEF SameServices
    <2> QED
        BY <1>5, <1>7, <2>1, <2>3, Zenon
<1>8. CASE EnsureFails(t)
    <2>1. Fails(g) /\ ~svc[g].closing /\ Walks(t, "return")
        BY <1>2, <1>8, Zenon DEF EnsureFails
    <2>2. Core'
        BY <1>0, <1>6, <2>1, FailKeeps, Zenon
    <2>3. ServiceTypes' /\ failed \subseteq failed'
        BY <1>4, <2>1, Zenon DEF Fails, Becomes, ServiceTypes
    <2> QED
        BY <1>5, <2>1, <2>2, <2>3, Zenon
<1>9. CASE StartFails(t)
    <2>1. Walks(t, "return")
        BY <1>9, Zenon DEF StartFails
    <2>2. Core'
        BY <1>0, <1>2, <1>6, <1>9, <2>1, StartFailsKeeps, Zenon
    <2>3. ServiceTypes' /\ failed \subseteq failed'
        BY <1>4, <1>9, Zenon DEF StartFails, Opens, Becomes, ServiceTypes
    <2> QED
        BY <1>5, <2>1, <2>2, <2>3, Zenon
<1>10. CASE \E s \in Sessions : Starts(t, s)
    <2>1. PICK s \in Sessions : Starts(t, s)
        BY <1>10, Zenon
    <2>2. PICK pc \in {"return", "handout", "invoke"} : Walks(t, pc)
        BY <2>1, Zenon DEF Starts
    <2>3. Core'
        BY <1>0, <1>2, <1>6, <2>1, <2>2, StartKeeps, Zenon
    <2>4. ServiceTypes' /\ failed \subseteq failed'
        BY <1>4, <2>1, Zenon DEF Starts, Opens, Becomes, ServiceTypes
    <2> QED
        BY <1>5, <2>2, <2>3, <2>4, Zenon
<1> QED
    BY <1>0, <1>7, <1>8, <1>9, <1>10, EnsureStep, Zenon

\* The second section of OpenSession preserves the invariant.
LEMMA HandOutKeeps ==
    ASSUME ESInv, NEW t \in Threads, HandOut(t)
    PROVE ESInv'
<1>0. Types /\ Core /\ Ending /\ Destructors
    BY Zenon DEF ESInv, Ending
<1>1. thr[t].pc = "handout" /\ thr[t].svc \in Services /\ UNCHANGED <<lifecycle, busy>>
    BY <1>0, HandOutStep, Zenon
<1>2. PICK g \in Services : g = thr[t].svc
    BY <1>1, Zenon
<1>3. ~Closing(t) /\ ~thr[t].dtor /\ g # 0 /\ UNCHANGED <<current, starts>> /\ terminated \in BOOLEAN
    <2>1. ~Closing(t) /\ ~thr[t].dtor /\ g # 0
        BY <1>0, <1>1, SMTT(60), Z3T(60) DEF Closing, Destructors, Services
    <2>2. terminated \in BOOLEAN
        BY <1>0, Zenon DEF Types, TypeOK
    <2> QED
        BY <1>0, <1>1, <2>1, <2>2, LifecycleSame, Zenon
<1>4. ServiceTypes /\ Service(g)
    BY <1>0, TypesAre, Zenon DEF Types, Core
<1>5. ASSUME NEW s, Moves(t, "return", thr[t].svc, s, thr[t].join, thr[t].dtor), Core', ServiceTypes', failed \subseteq failed',
             terminated' = terminated, \A h \in Services : svc'[h].initialized = svc[h].initialized
      PROVE ESInv'
    <2>1. TypeOK'
        BY <1>0, <1>1, <1>3, <1>5, ServiceStepTypes, Zenon
    <2>2. References'
        BY <1>0, <1>1, <1>2, <1>3, <1>5, StaysInside, Zenon DEF Inside
    <2>3. \A u \in Threads : thr'[u].svc = thr[u].svc /\ thr'[u].dtor = thr[u].dtor /\ (thr[u].dtor => thr'[u] = thr[u])
        BY <1>3, <1>5, Zenon DEF Moves
    <2>4. InitializedKeeps
        BY <1>5, Zenon DEF InitializedKeeps
    <2>5. Ending'
        BY <1>0, <1>3, <1>5, <2>3, <2>4, EndingKeeps, Zenon
    <2> QED
        BY <1>5, <2>1, <2>2, <2>5, Zenon DEF ESInv, Types
<1>6. ASSUME NEW s, Moves(t, "return", thr[t].svc, s, thr[t].join, thr[t].dtor) PROVE SameClosers
    <2>1. "return" \notin ClosingPcs
        BY Zenon DEF ClosingPcs
    <2>2. thr[t].join \in {0, thr[t].join}
        BY Zenon
    <2> QED
        BY <1>0, <1>3, <1>6, <2>1, <2>2, MoverIsSame, Zenon
<1>7. CASE Walks(t, "return") /\ UNCHANGED <<services, terminated>>
    <2>1. ServiceTypes' /\ SameServices
        BY <1>0, <1>7, ServicesSame, Zenon
    <2>2. Core' /\ failed \subseteq failed'
        BY <1>0, <1>6, <1>7, <2>1, QuietKeeps, Zenon DEF SameServices, Walks
    <2> QED
        BY <1>5, <1>7, <2>1, <2>2, Zenon DEF Walks, SameServices
<1>8. CASE HandOutFails(t)
    <2>1. Fails(g) /\ svc[g].host # "none" /\ Walks(t, "return") /\ UNCHANGED terminated
        BY <1>2, <1>8, Zenon DEF HandOutFails
    <2>2. ~svc[g].closing
        BY <1>4, <2>1, Zenon DEF Service
    <2>3. Core'
        BY <1>0, <1>6, <2>1, <2>2, FailKeeps, Zenon DEF Walks
    <2>4. ServiceTypes' /\ failed \subseteq failed' /\ \A h \in Services : svc'[h].initialized = svc[h].initialized
        BY <1>4, <2>1, Zenon DEF Fails, Becomes, ServiceTypes
    <2> QED
        BY <1>5, <2>1, <2>3, <2>4, Zenon DEF Walks
<1>9. CASE \E s \in Sessions : HandsOut(t, s)
    <2>1. PICK s \in Sessions : HandsOut(t, s)
        BY <1>9, Zenon
    <2>2. Moves(t, "return", thr[t].svc, s, thr[t].join, thr[t].dtor)
        BY <2>1, Zenon DEF HandsOut
    <2>3. Core'
        BY <1>0, <1>2, <1>6, <2>1, <2>2, HandsOutKeeps, Zenon
    <2>4. ServiceTypes' /\ failed \subseteq failed' /\ \A h \in Services : svc'[h].initialized = svc[h].initialized
        BY <1>2, <1>4, <2>1, Zenon DEF HandsOut, Opens, Becomes, ServiceTypes
    <2>5. terminated' = terminated
        BY <1>2, <1>3, <1>4, <2>1, Zenon DEF HandsOut, Service
    <2> QED
        BY <1>5, <2>2, <2>3, <2>4, <2>5, Zenon
<1> QED
    BY <1>0, <1>7, <1>8, <1>9, HandOutStep, Zenon

\* A step of CloseSession that starts nothing.
LEMMA CloserEnds ==
    ASSUME Types, Ending, NEW t \in Threads, NEW pc, NEW s, NEW j, Moves(t, pc, thr[t].svc, s, j, thr[t].dtor),
           \A h \in Services : svc'[h].initialized => svc[h].initialized,
           thr[t].dtor => \/ pc \in DestructorPcs \ {"return"}
                          \/ pc = "return" /\ ~svc'[thr[t].svc].initialized,
           UNCHANGED <<current, starts, terminated, failed>>
    PROVE Ending'
<1>1. InitializedKeeps
    BY Zenon DEF InitializedKeeps
<1>2. \A u \in Threads : /\ thr'[u].svc = thr[u].svc /\ thr'[u].dtor = thr[u].dtor
                         /\ u # t => thr'[u] = thr[u]
    BY Zenon DEF Moves
<1>3. thr'[t].pc = pc
    BY Zenon DEF Moves
<1> QED
    BY <1>1, <1>2, <1>3, EndingKeeps, Zenon

\* The first section of CloseSession preserves the invariant.
LEMMA CloseSessionKeeps ==
    ASSUME ESInv, NEW t \in Threads, CloseSession(t)
    PROVE ESInv'
<1>0. Types /\ Core /\ Ending /\ Destructors
    BY Zenon DEF ESInv, Ending
<1>1. /\ thr[t].pc = "close" /\ thr[t].svc \in Services
      /\ UNCHANGED <<lifecycle, pub, srv, owner, created, failures, failed, busy, terminated>>
    BY <1>0, CloseStep, Zenon
<1>2. PICK g \in Services : g = thr[t].svc
    BY <1>1, Zenon
<1>3. ~Closing(t) /\ g # 0 /\ "close" \in Inside
    BY <1>1, SMTT(60), Z3T(60) DEF Closing, Services, Inside
<1>4. ServiceTypes /\ (terminated \in BOOLEAN)' /\ UNCHANGED <<current, starts>>
    <2>1. (terminated \in BOOLEAN)'
        BY <1>0, <1>1, Zenon DEF Types, TypeOK
    <2> QED
        BY <1>0, <1>1, <2>1, TypesAre, LifecycleSame, Zenon DEF Types
<1>5. CASE /\ svc[g].closing \/ ~svc[g].initialized
           /\ (\E pc \in Pcs : Leaves(t, pc)) /\ UNCHANGED svc
    <2>1. PICK pc \in Pcs : Walks(t, pc) /\ (pc = "return" \/ (pc = "unpublish" /\ ~thr[t].dtor))
        BY <1>5, Zenon DEF Leaves
    <2>2. Moves(t, pc, thr[t].svc, thr[t].session, thr[t].join, thr[t].dtor) /\ pc \in Inside \cup {"return"} /\ pc \notin ClosingPcs
        BY <2>1, Zenon DEF Walks, Inside, ClosingPcs
    <2>3. SameServices /\ ServiceTypes'
        BY <1>1, <1>4, <1>5, Zenon DEF SameServices, ServiceTypes
    <2>4. TypeOK'
        BY <1>0, <1>1, <1>4, <2>2, <2>3, ServiceStepTypes, Zenon
    <2>5. References'
        BY <1>0, <1>1, <1>2, <1>3, <2>2, StaysInside, Zenon
    <2>6. SameClosers
        BY <1>0, <1>3, <2>2, MoverIsSame, Zenon
    <2>7. Core'
        BY <1>0, <2>3, <2>6, QuietKeeps, Zenon
    <2>8. thr[t].dtor => pc = "return" /\ ~svc'[thr[t].svc].initialized
        <3>1. ASSUME thr[t].dtor, svc[g].closing PROVE FALSE
            <4>1. PICK u \in Threads : Closing(u) /\ thr[u].svc = g
                BY <1>0, <3>1, Zenon DEF Core, Closers
            <4>2. u = t
                BY <1>0, <1>2, <3>1, <4>1, Zenon DEF Destructors
            <4> QED
                BY <1>3, <4>1, <4>2, Zenon
        <3> QED
            BY <1>2, <1>5, <2>1, <3>1, Zenon
    <2>9. Ending'
        BY <1>0, <1>1, <1>4, <1>5, <2>2, <2>8, CloserEnds, Zenon
    <2> QED
        BY <2>4, <2>5, <2>7, <2>9, Zenon DEF ESInv, Types
<1>6. CASE Closes(t)
    <2>1. Core'
        BY <1>0, <1>1, <1>2, <1>3, <1>6, ClosesKeeps, Zenon
    <2>2. /\ Moves(t, "join", thr[t].svc, svc[g].server, svc[g].thread, thr[t].dtor)
          /\ \A h \in Services : svc'[h].initialized => svc[h].initialized
        BY <1>2, <1>6, Zenon DEF Closes, Becomes
    <2>3. ServiceTypes'
        BY <1>1, <1>4, <1>6, Zenon DEF Closes, Becomes, ServiceTypes
    <2>4. TypeOK'
        BY <1>0, <1>1, <1>4, <2>2, <2>3, ServiceStepTypes, Zenon
    <2>5. "join" \in Inside \cup {"return"} /\ "join" \in DestructorPcs \ {"return"}
        BY Zenon DEF Inside, DestructorPcs
    <2>6. References'
        BY <1>0, <1>1, <1>2, <1>3, <2>2, <2>5, StaysInside, Zenon
    <2>7. Ending'
        BY <1>0, <1>1, <1>4, <2>2, <2>5, CloserEnds, Zenon
    <2> QED
        BY <2>1, <2>4, <2>6, <2>7, Zenon DEF ESInv, Types
<1> QED
    BY <1>0, <1>2, <1>5, <1>6, CloseStep, Zenon

\* Join and Stop of CloseSession preserve the invariant.
LEMMA ClosingKeeps ==
    ASSUME ESInv, NEW t \in Threads, CloseJoin(t) \/ CloseStop(t) \/ CloseDrain(t)
    PROVE ESInv'
<1>0. Types /\ Core /\ Ending
    BY Zenon DEF ESInv
<1>1. Closing(t) /\ thr[t].pc \in Inside
    BY Zenon DEF CloseJoin, CloseStop, CloseDrain, Closing, Inside
<1>2. thr[t].svc # 0 /\ thr[t].session \in Sessions
    BY <1>0, <1>1, CloserHas, Zenon
<1>3. UNCHANGED <<lifecycle, svc, pub, owner, created, failures, failed, busy, terminated>>
    BY Zenon DEF CloseJoin, CloseStop, CloseDrain, services
<1>4. ServiceTypes /\ (terminated \in BOOLEAN)' /\ UNCHANGED <<current, starts>>
    <2>1. (terminated \in BOOLEAN)'
        BY <1>0, <1>3, Zenon DEF Types, TypeOK
    <2> QED
        BY <1>0, <1>3, <2>1, TypesAre, LifecycleSame, Zenon DEF Types
<1>5. ASSUME NEW pc \in {"stop", "drain", "closed"}, NEW j, Moves(t, pc, thr[t].svc, thr[t].session, j, thr[t].dtor), Core', ServiceTypes'
      PROVE ESInv'
    <2>1. pc \in Inside \cup {"return"} /\ pc \in DestructorPcs \ {"return"}
        BY Zenon DEF Inside, DestructorPcs
    <2>2. TypeOK'
        BY <1>0, <1>3, <1>4, <1>5, ServiceStepTypes, Zenon
    <2>3. References'
        BY <1>0, <1>1, <1>2, <1>3, <1>5, <2>1, StaysInside, Zenon
    <2>4. Ending'
        BY <1>0, <1>3, <1>4, <1>5, <2>1, CloserEnds, Zenon
    <2> QED
        BY <1>5, <2>2, <2>3, <2>4, Zenon DEF ESInv, Types
<1>6. CASE CloseJoin(t)
    <2>1. /\ thr[t].pc = "join" /\ (thr[t].join # 0 => pub[thr[t].join].pc = "exited")
          /\ Moves(t, "stop", thr[t].svc, thr[t].session, 0, thr[t].dtor)
          /\ UNCHANGED <<lifecycle, services, busy, terminated>>
        BY <1>0, <1>6, JoinStep, Zenon
    <2>2. SameServices /\ ServiceTypes'
        BY <1>0, <2>1, ServicesSame, Zenon
    <2>3. Core'
        BY <1>0, <2>1, <2>2, JoinKeeps, Zenon
    <2> QED
        BY <1>5, <2>1, <2>2, <2>3, Zenon
<1>7. CASE CloseStop(t)
    <2>1. thr[t].pc = "stop" /\ Walks(t, "drain") /\ ServerGoes(thr[t].session, "stopping")
        BY <1>0, <1>2, <1>7, StopDrainStep, Zenon
    <2>2. Core'
        BY <1>0, <1>3, <2>1, ServerStopKeeps, Zenon
    <2>3. ServiceTypes'
        BY <1>3, <1>4, <2>1, Zenon DEF ServerGoes, ServiceTypes
    <2> QED
        BY <1>5, <2>1, <2>2, <2>3, Zenon DEF Walks
<1>8. CASE CloseDrain(t)
    <2>1. thr[t].pc = "drain" /\ Walks(t, "closed") /\ ServerGoes(thr[t].session, "stopped")
        BY <1>0, <1>2, <1>8, StopDrainStep, Zenon
    <2>2. Core'
        BY <1>0, <1>3, <2>1, ServerStopKeeps, Zenon
    <2>3. ServiceTypes'
        BY <1>3, <1>4, <2>1, Zenon DEF ServerGoes, ServiceTypes
    <2> QED
        BY <1>5, <2>1, <2>2, <2>3, Zenon DEF Walks
<1> QED
    BY <1>6, <1>7, <1>8, Zenon

\* The last section of CloseSession preserves the invariant.
LEMMA CloseDoneKeeps ==
    ASSUME ESInv, NEW t \in Threads, CloseDone(t)
    PROVE ESInv'
<1>0. Types /\ Core /\ Ending
    BY Zenon DEF ESInv
<1>1. /\ thr[t].pc = "closed" /\ thr[t].svc \in Services
      /\ UNCHANGED <<lifecycle, pub, srv, owner, created, failures, failed, busy, terminated>>
    BY <1>0, DoneStep, Zenon
<1>2. PICK g \in Services : g = thr[t].svc
    BY <1>1, Zenon
<1>3. Becomes(g, FALSE, svc[g].initialized, svc[g].host, svc[g].session, svc[g].server, svc[g].sessionId,
              svc[g].running, svc[g].thread)
    BY <1>0, <1>2, DoneStep, Zenon
<1>4. PICK pc \in {"return", "unpublish"} :
          Moves(t, pc, g, 0, thr[t].join, thr[t].dtor) /\ (pc = "unpublish" => ~thr[t].dtor)
    BY <1>0, <1>2, DoneStep, Zenon
<1>5. Core'
    BY <1>0, <1>1, <1>2, <1>3, <1>4, DoneKeeps, Zenon
<1>6. ServiceTypes /\ (terminated \in BOOLEAN)' /\ UNCHANGED <<current, starts>>
    <2>1. (terminated \in BOOLEAN)'
        BY <1>0, <1>1, Zenon DEF Types, TypeOK
    <2> QED
        BY <1>0, <1>1, <2>1, TypesAre, LifecycleSame, Zenon DEF Types
<1>7. ServiceTypes'
    BY <1>1, <1>3, <1>6, Zenon DEF Becomes, ServiceTypes
<1>8. TypeOK'
    BY <1>0, <1>1, <1>4, <1>6, <1>7, ServiceStepTypes, Zenon
<1>9. References'
    BY <1>0, <1>1, <1>2, <1>4, StaysInside, SMTT(60), Z3T(60) DEF Inside, Services
<1>10. \A h \in Services : svc'[h].initialized = svc[h].initialized
    BY <1>3, Zenon DEF Becomes
<1>11. ~svc[g].initialized
    <2>1. Closer(t) /\ Service(g)
        BY <1>0, <1>1, CloserHas, Zenon DEF Closing, Core
    <2> QED
        BY <1>2, <2>1, Zenon DEF Closer, Service
<1>12. Ending'
    <2>1. thr[t].dtor => pc = "return" /\ ~svc'[thr[t].svc].initialized
        BY <1>2, <1>4, <1>10, <1>11, Zenon
    <2> QED
        BY <1>0, <1>1, <1>2, <1>4, <1>6, <1>10, <2>1, CloserEnds, Zenon
<1> QED
    BY <1>5, <1>8, <1>9, <1>12, Zenon DEF ESInv, Types

\* A return, and the destructor it may run, preserve the invariant.
LEMMA ReturnKeeps ==
    ASSUME ESInv, NEW t \in Threads, Return(t)
    PROVE ESInv'
<1>0. Types /\ Core /\ Ending /\ Destructors /\ Abandoned
    BY Zenon DEF ESInv, Ending
<1>1. thr[t].pc = "return" /\ UNCHANGED <<lifecycle, services, busy>>
    BY <1>0, ReturnStep, Zenon
<1>2. SameServices /\ ServiceTypes' /\ UNCHANGED <<current, starts>> /\ ~Closing(t)
    BY <1>0, <1>1, ServicesSame, LifecycleSame, Zenon DEF Closing
<1>3. terminated \in BOOLEAN /\ starts \in Nat /\ Main \in Threads
    BY <1>0, TypesGive, SMTT(60), Z3T(60) DEF Types, TypeOK
<1>4. CASE Moves(t, "idle", 0, 0, 0, FALSE) /\ terminated' \in BOOLEAN
           /\ (thr[t].svc \in 1 .. starts /\ thr[t].svc # current =>
                  ~svc[thr[t].svc].initialized \/ \E u \in Threads : u # t /\ thr[u].svc = thr[t].svc)
           /\ (terminated' => failed # {})
    <2>1. (terminated \in BOOLEAN)'
        BY <1>4, Zenon
    <2>2. TypeOK'
        BY <1>0, <1>1, <1>2, <1>4, <2>1, ServiceStepTypes, Zenon
    <2>3. /\ thr'[t].pc = "idle" /\ thr'[t].svc = 0 /\ thr'[t].dtor = FALSE
          /\ \A u \in Threads : u # t => thr'[u] = thr[u]
        BY <1>4, Zenon DEF Moves
    <2>4. References'
        <3>1. ASSUME NEW u \in Threads
              PROVE /\ thr'[u].svc \in 0 .. starts
                    /\ thr'[u].pc \in Outside => thr'[u].svc = 0
                    /\ thr'[u].pc \in Inside => thr'[u].svc # 0
            <4>1. CASE u = t
                BY <1>3, <2>3, <4>1, SMTT(60), Z3T(60) DEF Inside
            <4>2. CASE u # t
                BY <1>0, <2>3, <4>2, Zenon DEF Types, References
            <4> QED
                BY <4>1, <4>2, Zenon
        <3>2. /\ current \in {0, starts}
              /\ thr'[Main].pc = "make" => current = 0 /\ starts < MaxStarts
              /\ thr'[Main].pc = "move" => current # 0
            BY <1>0, <1>3, <2>3, Zenon DEF Types, References
        <3> QED
            BY <1>2, <3>1, <3>2, Zenon DEF References, Outside, Inside
    <2>5. Core'
        <3>1. "idle" \notin ClosingPcs /\ 0 \in {0, thr[t].join}
            BY Zenon DEF ClosingPcs
        <3>2. SameClosers
            BY <1>0, <1>2, <1>4, <3>1, MoverIsSame, Zenon
        <3> QED
            BY <1>0, <1>2, <3>2, QuietKeeps, Zenon
    <2>6. Destructors'
        <3>1. ASSUME NEW u \in Threads, thr'[u].dtor
              PROVE /\ thr'[u].svc # 0 /\ thr'[u].svc # current
                    /\ \A w \in Threads : thr'[w].svc = thr'[u].svc => w = u
                    /\ thr'[u].pc \in {"close", "join", "stop", "drain", "closed", "return"}
                    /\ thr'[u].pc = "return" => ~svc[thr'[u].svc].initialized
            <4>1. u # t /\ thr'[u] = thr[u] /\ thr[u].dtor
                BY <2>3, <3>1, Zenon
            <4> QED
                BY <1>0, <2>3, <4>1, SMTT(60), Z3T(60) DEF Destructors
        <3> QED
            BY <1>2, <1>4, <3>1, Zenon DEF Destructors, SameServices
    <2>7. Abandoned'
        <3>1. ASSUME NEW g \in 1 .. starts, g # current, \A u \in Threads : thr'[u].svc # g PROVE ~svc[g].initialized
            <4>1. CASE thr[t].svc = g
                BY <1>4, <2>3, <3>1, <4>1, Zenon
            <4>2. CASE thr[t].svc # g
                <5>1. \A u \in Threads : thr[u].svc # g
                    BY <2>3, <3>1, <4>2, Zenon
                <5> QED
                    BY <1>0, <3>1, <5>1, Zenon DEF Abandoned
            <4> QED
                BY <4>1, <4>2, Zenon
        <3> QED
            BY <1>2, <3>1, Zenon DEF Abandoned, SameServices
    <2> QED
        BY <2>2, <2>4, <2>5, <2>6, <2>7, Zenon DEF ESInv, Types, Ending
<1>5. CASE /\ thr[t].svc = 0 \/ thr[t].svc = current \/ Holders(thr[t].svc) # {t}
           /\ Moves(t, "idle", 0, 0, 0, FALSE) /\ UNCHANGED terminated
    <2>1. thr[t].svc \in 1 .. starts /\ thr[t].svc # current => \E u \in Threads : u # t /\ thr[u].svc = thr[t].svc
        <3>1. SUFFICES ASSUME thr[t].svc \in 1 .. starts, thr[t].svc # current
                       PROVE \E u \in Threads : u # t /\ thr[u].svc = thr[t].svc
            BY Zenon
        <3>2. Holders(thr[t].svc) # {t} /\ t \in Holders(thr[t].svc)
            BY <1>3, <1>5, <3>1, SMT, Z3 DEF Holders
        <3>3. PICK u \in Holders(thr[t].svc) : u # t
            BY <3>2, Zenon
        <3> QED
            BY <3>3, Zenon DEF Holders
    <2>2. terminated' => failed # {}
        BY <1>0, <1>5, Zenon DEF Destructors
    <2> QED
        BY <1>3, <1>4, <1>5, <2>1, <2>2, Zenon
<1>6. CASE thr[t].dtor /\ Moves(t, "idle", 0, 0, 0, FALSE) /\ terminated' = (terminated \/ svc[thr[t].svc].thread # 0)
    <2>1. ~svc[thr[t].svc].initialized /\ thr[t].svc \in Services
        BY <1>0, <1>1, <1>6, TypesGive, Zenon DEF Destructors, ThreadStates
    <2>2. svc[thr[t].svc].thread # 0 => thr[t].svc \in failed
        BY <1>0, <2>1, Zenon DEF Core, Service
    <2>3. (terminated' => failed # {}) /\ terminated' \in BOOLEAN
        BY <1>0, <1>3, <1>6, <2>2, Zenon DEF Destructors
    <2> QED
        BY <1>4, <1>6, <2>1, <2>3, Zenon
<1>7. CASE /\ thr[t].svc # 0 /\ thr[t].svc # current /\ Holders(thr[t].svc) = {t} /\ ~thr[t].dtor
           /\ Moves(t, "close", thr[t].svc, thr[t].session, thr[t].join, TRUE) /\ UNCHANGED terminated
    <2>1. /\ thr'[t].pc = "close" /\ thr'[t].svc = thr[t].svc /\ thr'[t].dtor = TRUE
          /\ \A u \in Threads : u # t => thr'[u] = thr[u]
        BY <1>7, Zenon DEF Moves
    <2>2. TypeOK'
        <3>1. (terminated \in BOOLEAN)'
            BY <1>3, <1>7, Zenon
        <3> QED
            BY <1>0, <1>1, <1>2, <1>7, <3>1, ServiceStepTypes, Zenon
    <2>3. References'
        BY <1>0, <1>1, <1>7, StaysInside, Zenon DEF Inside
    <2>4. Core'
        <3>1. "close" \notin ClosingPcs /\ thr[t].join \in {0, thr[t].join}
            BY Zenon DEF ClosingPcs
        <3>2. SameClosers
            BY <1>0, <1>2, <1>7, <3>1, MoverIsSame, Zenon
        <3> QED
            BY <1>0, <1>2, <3>2, QuietKeeps, Zenon
    <2>5. Destructors'
        <3>0. \A u \in Threads : thr[u].svc = thr[t].svc => u = t
            BY <1>7, Zenon DEF Holders
        <3>1. ASSUME NEW u \in Threads, thr'[u].dtor
              PROVE /\ thr'[u].svc # 0 /\ thr'[u].svc # current
                    /\ \A w \in Threads : thr'[w].svc = thr'[u].svc => w = u
                    /\ thr'[u].pc \in {"close", "join", "stop", "drain", "closed", "return"}
                    /\ thr'[u].pc = "return" => ~svc[thr'[u].svc].initialized
            <4>1. CASE u = t
                BY <1>7, <2>1, <3>0, <4>1, Zenon
            <4>2. CASE u # t
                <5>1. thr'[u] = thr[u] /\ thr[u].dtor
                    BY <2>1, <3>1, <4>2, Zenon
                <5>2. /\ thr[u].svc # 0 /\ thr[u].svc # current
                      /\ \A w \in Threads : thr[w].svc = thr[u].svc => w = u
                      /\ thr[u].pc \in {"close", "join", "stop", "drain", "closed", "return"}
                      /\ thr[u].pc = "return" => ~svc[thr[u].svc].initialized
                    BY <1>0, <5>1, Zenon DEF Destructors
                <5>3. \A w \in Threads : thr'[w].svc = thr[w].svc
                    BY <2>1, Zenon
                <5> QED
                    BY <5>1, <5>2, <5>3, Zenon
            <4> QED
                BY <4>1, <4>2, Zenon
        <3> QED
            BY <1>0, <1>2, <1>7, <3>1, Zenon DEF Destructors, SameServices
    <2>6. Abandoned'
        <3>1. ASSUME NEW g \in 1 .. starts, g # current, \A u \in Threads : thr'[u].svc # g PROVE ~svc[g].initialized
            BY <1>0, <2>1, <3>1, Zenon DEF Abandoned
        <3> QED
            BY <1>2, <3>1, Zenon DEF Abandoned, SameServices
    <2> QED
        BY <2>2, <2>3, <2>4, <2>5, <2>6, Zenon DEF ESInv, Types, Ending
<1> QED
    BY <1>0, <1>5, <1>6, <1>7, ReturnStep, Zenon

-----------------------------------------------------------------------------
(* OnStart and OnStop.                                                      *)

\* The steps of OnStart and OnStop that leave session_service_ alone preserve the
\* invariant.
LEMMA LifecycleMoves ==
    ASSUME ESInv, OnStart \/ OnStop \/ OnStartInitialize \/ OnStopReset
    PROVE ESInv'
<1>0. Types /\ LifecycleTypes /\ Main \in Threads
    BY TypesAre, TypesGive, Zenon DEF ESInv, Types
<1>1. CASE OnStartInitialize
    <2>1. /\ thr[Main].pc = "initialize" /\ Walks(Main, "idle") /\ ready' = TRUE
          /\ UNCHANGED <<stopping, current, starts, configured, work, services, busy, terminated>>
        BY <1>0, <1>1, LifecycleSteps, Zenon
    <2>2. LifecycleTypes'
        BY <1>0, <2>1, Zenon DEF LifecycleTypes
    <2> QED
        BY <1>0, <2>1, <2>2, WalkStep, SMTT(60), Z3T(60) DEF Outside, ClosingPcs, DestructorPcs, Walks
<1>2. CASE OnStopReset
    <2>1. /\ thr[Main].pc = "unpublish" /\ Walks(Main, "return") /\ configured' = NoKinds
          /\ UNCHANGED <<stopping, current, starts, ready, work, services, busy, terminated>>
        BY <1>0, <1>2, LifecycleSteps, Zenon
    <2>2. LifecycleTypes'
        BY <1>0, <2>1, Zenon DEF LifecycleTypes
    <2> QED
        BY <1>0, <2>1, <2>2, WalkStep, Zenon DEF Inside, ClosingPcs, DestructorPcs, Walks
<1>3. CASE OnStart \/ OnStop
    <2>1. PICK pc \in {"make", "move"} :
              /\ thr[Main].pc = "idle" /\ Walks(Main, pc)
              /\ pc = "make" => current = 0 /\ starts < MaxStarts
              /\ pc = "move" => current # 0
              /\ stopping' \in BOOLEAN /\ (work' = work \/ work' \in 0 .. MaxWork)
              /\ UNCHANGED <<current, starts, configured, ready, services, busy, terminated>>
        BY <1>0, <1>3, LifecycleSteps, Zenon
    <2>2. LifecycleTypes'
        BY <1>0, <2>1, Zenon DEF LifecycleTypes
    <2>3. Moves(Main, pc, thr[Main].svc, thr[Main].session, thr[Main].join, thr[Main].dtor)
        BY <2>1, Zenon DEF Walks
    <2>4. TypeOK'
        BY <1>0, <2>1, <2>2, <2>3, WalkTypes, Zenon
    <2>5. References'
        <3>1. /\ thr'[Main].pc = pc /\ thr'[Main].svc = thr[Main].svc
              /\ \A u \in Threads : u # Main => thr'[u] = thr[u]
            BY <2>3, Zenon DEF Moves
        <3>2. thr[Main].svc = 0
            BY <1>0, <2>1, Zenon DEF Types, References, Outside
        <3>3. ASSUME NEW u \in Threads
              PROVE /\ thr'[u].svc \in 0 .. starts
                    /\ thr'[u].pc \in Outside => thr'[u].svc = 0
                    /\ thr'[u].pc \in Inside => thr'[u].svc # 0
            <4>1. CASE u = Main
                BY <1>0, <3>1, <3>2, <4>1, Zenon DEF Types, References, Inside
            <4>2. CASE u # Main
                BY <1>0, <3>1, <4>2, Zenon DEF Types, References
            <4> QED
                BY <4>1, <4>2, Zenon
        <3>4. current \in {0, starts}
            BY <1>0, Zenon DEF Types, References
        <3> QED
            BY <2>1, <3>1, <3>3, <3>4, Zenon DEF References, Outside, Inside
    <2>6. SameServices
        BY <1>0, <2>1, ServicesSame, Zenon
    <2>7. thr[Main].pc \notin DestructorPcs /\ pc \notin ClosingPcs
        BY <2>1, Zenon DEF DestructorPcs, ClosingPcs
    <2>8. Core' /\ Ending'
        BY <1>0, <2>1, <2>3, <2>6, <2>7, WalkKeeps, Zenon
    <2> QED
        BY <2>4, <2>5, <2>8, Zenon DEF ESInv, Types
<1> QED
    BY <1>1, <1>2, <1>3, Zenon

\* A new session service preserves the invariant.
LEMMA OnStartMakeKeeps ==
    ASSUME ESInv, OnStartMake
    PROVE ESInv'
<1>0. Types /\ Core /\ Ending /\ Destructors /\ Abandoned /\ LifecycleTypes /\ Main \in Threads
    BY TypesAre, TypesGive, Zenon DEF ESInv, Types, Ending
<1>1. /\ thr[Main].pc = "make" /\ Walks(Main, "initialize") /\ current' = starts + 1 /\ starts' = starts + 1
      /\ UNCHANGED <<stopping, configured, ready, work, services, busy, terminated>>
    BY <1>0, LifecycleSteps, Zenon
<1>2. current = 0 /\ starts < MaxStarts /\ starts \in Nat /\ MaxStarts \in Nat
    BY <1>0, <1>1, TypesGive, SMT, Z3 DEF Types, References
<1>3. starts + 1 \in Services
    BY <1>2, SMTT(60), Z3T(60) DEF Services
<1>4. LifecycleTypes'
    BY <1>0, <1>1, <1>3, Zenon DEF LifecycleTypes
<1>5. Moves(Main, "initialize", thr[Main].svc, thr[Main].session, thr[Main].join, thr[Main].dtor)
    BY <1>1, Zenon DEF Walks
<1>6. TypeOK'
    BY <1>0, <1>1, <1>4, <1>5, WalkTypes, Zenon
<1>7. /\ thr'[Main].pc = "initialize" /\ thr'[Main].svc = thr[Main].svc /\ thr'[Main].dtor = thr[Main].dtor
      /\ \A u \in Threads : u # Main => thr'[u] = thr[u]
    BY <1>5, Zenon DEF Moves
<1>8. thr[Main].svc = 0 /\ ~thr[Main].dtor /\ \A u \in Threads : thr[u].svc \in 0 .. starts
    BY <1>0, <1>1, Zenon DEF Types, References, Outside, Destructors
<1>9. References'
    <2>1. ASSUME NEW u \in Threads
          PROVE /\ thr'[u].svc \in 0 .. (starts + 1)
                /\ thr'[u].pc \in Outside => thr'[u].svc = 0
                /\ thr'[u].pc \in Inside => thr'[u].svc # 0
        <3>1. CASE u = Main
            BY <1>2, <1>7, <1>8, <3>1, SMTT(60), Z3T(60) DEF Inside
        <3>2. CASE u # Main
            <4>1. thr[u].svc \in 0 .. starts /\ thr'[u] = thr[u]
                BY <1>7, <1>8, <3>2, Zenon
            <4>2. thr[u].svc \in 0 .. (starts + 1)
                BY <1>2, <4>1, SMTT(60), Z3T(60)
            <4> QED
                BY <1>0, <4>1, <4>2, Zenon DEF Types, References
        <3> QED
            BY <3>1, <3>2, Zenon
    <2> QED
        BY <1>1, <1>7, <2>1, Zenon DEF References, Outside, Inside
<1>10. SameServices
    BY <1>0, <1>1, ServicesSame, Zenon
<1>11. Core'
    <2>1. ~Closing(Main) /\ "initialize" \notin ClosingPcs
        BY <1>1, Zenon DEF Closing, ClosingPcs
    <2>2. SameClosers
        BY <1>0, <1>5, <2>1, MoverIsSame, Zenon
    <2> QED
        BY <1>0, <1>10, <2>2, QuietKeeps, Zenon
<1>12. \A u \in Threads : thr'[u].svc = thr[u].svc /\ thr'[u].dtor = thr[u].dtor /\ (thr[u].dtor => thr'[u] = thr[u])
    BY <1>7, <1>8, Zenon
<1>13. Destructors'
    <2>1. ASSUME NEW u \in Threads, thr'[u].dtor
          PROVE /\ thr'[u].svc # 0 /\ thr'[u].svc # current'
                /\ \A w \in Threads : thr'[w].svc = thr'[u].svc => w = u
                /\ thr'[u].pc \in {"close", "join", "stop", "drain", "closed", "return"}
                /\ thr'[u].pc = "return" => ~svc[thr'[u].svc].initialized
        <3>1. thr[u].dtor /\ thr'[u] = thr[u]
            BY <1>12, <2>1, Zenon
        <3>2. thr[u].svc # starts + 1
            BY <1>2, <1>8
        <3> QED
            BY <1>0, <1>1, <1>12, <3>1, <3>2, ZenonT(200) DEF Destructors
    <2> QED
        BY <1>0, <1>1, <1>10, <2>1, Zenon DEF Destructors, SameServices
<1>14. Abandoned'
    <2>1. ASSUME NEW g \in 1 .. (starts + 1), g # starts + 1, \A u \in Threads : thr'[u].svc # g PROVE ~svc[g].initialized
        <3>1. g \in 1 .. starts /\ g # current
            BY <1>2, <2>1, SMTT(60)
        <3> QED
            BY <1>0, <1>12, <2>1, <3>1, Zenon DEF Abandoned
    <2> QED
        BY <1>1, <1>10, <2>1, Zenon DEF Abandoned, SameServices
<1> QED
    BY <1>6, <1>9, <1>11, <1>13, <1>14, Zenon DEF ESInv, Types, Ending

\* OnStop takes session_service_ away and becomes a holder of it.
LEMMA OnStopMoveKeeps ==
    ASSUME ESInv, OnStopMove
    PROVE ESInv'
<1>0. Types /\ Core /\ Ending /\ Destructors /\ Abandoned /\ LifecycleTypes /\ Main \in Threads
    BY TypesAre, TypesGive, Zenon DEF ESInv, Types, Ending
<1>1. /\ thr[Main].pc = "move" /\ current' = 0
      /\ Moves(Main, "close", current, thr[Main].session, thr[Main].join, thr[Main].dtor)
      /\ UNCHANGED <<stopping, starts, configured, ready, work, services, busy, terminated>>
    BY <1>0, LifecycleSteps, Zenon
<1>2. current = starts /\ current # 0 /\ starts \in Nat
    BY <1>0, <1>1, TypesGive, SMTT(60) DEF Types, References
<1>3. LifecycleTypes'
    BY <1>0, <1>1, Zenon DEF LifecycleTypes
<1>4. TypeOK'
    BY <1>0, <1>1, <1>3, WalkTypes, Zenon
<1>5. /\ thr'[Main].pc = "close" /\ thr'[Main].svc = current /\ thr'[Main].dtor = thr[Main].dtor
      /\ \A u \in Threads : u # Main => thr'[u] = thr[u]
    BY <1>1, Zenon DEF Moves
<1>6. thr[Main].svc = 0 /\ ~thr[Main].dtor
    BY <1>0, <1>1, Zenon DEF Types, References, Outside, Destructors
<1>7. References'
    <2>1. ASSUME NEW u \in Threads
          PROVE /\ thr'[u].svc \in 0 .. starts
                /\ thr'[u].pc \in Outside => thr'[u].svc = 0
                /\ thr'[u].pc \in Inside => thr'[u].svc # 0
        <3>1. CASE u = Main
            BY <1>2, <1>5, <3>1, SMTT(60), Z3T(60) DEF Outside
        <3>2. CASE u # Main
            BY <1>0, <1>5, <3>2, Zenon DEF Types, References
        <3> QED
            BY <3>1, <3>2, Zenon
    <2> QED
        BY <1>1, <1>5, <2>1, Zenon DEF References, Outside, Inside
<1>8. SameServices
    BY <1>0, <1>1, ServicesSame, Zenon
<1>9. Core'
    <2>1. ~Closing(Main) /\ "close" \notin ClosingPcs
        BY <1>1, Zenon DEF Closing, ClosingPcs
    <2>2. SameClosers
        BY <1>0, <1>1, <2>1, MoverIsSame, Zenon
    <2> QED
        BY <1>0, <1>8, <2>2, QuietKeeps, Zenon
<1>10. Destructors'
    <2>1. ASSUME NEW u \in Threads, thr'[u].dtor
          PROVE /\ thr'[u].svc # 0
                /\ \A w \in Threads : thr'[w].svc = thr'[u].svc => w = u
                /\ thr'[u].pc \in {"close", "join", "stop", "drain", "closed", "return"}
                /\ thr'[u].pc = "return" => ~svc[thr'[u].svc].initialized
        <3>1. u # Main /\ thr'[u] = thr[u] /\ thr[u].dtor
            BY <1>5, <1>6, <2>1, Zenon
        <3>2. /\ thr[u].svc # 0 /\ thr[u].svc # current
              /\ \A w \in Threads : thr[w].svc = thr[u].svc => w = u
              /\ thr[u].pc \in {"close", "join", "stop", "drain", "closed", "return"}
              /\ thr[u].pc = "return" => ~svc[thr[u].svc].initialized
            BY <1>0, <3>1, Zenon DEF Destructors
        <3>3. ASSUME NEW w \in Threads, thr'[w].svc = thr'[u].svc PROVE w = u
            BY <1>5, <3>1, <3>2, <3>3, Zenon
        <3> QED
            BY <3>1, <3>2, <3>3, Zenon
    <2> QED
        BY <1>0, <1>1, <1>8, <2>1, Zenon DEF Destructors, SameServices
<1>11. Abandoned'
    <2>1. ASSUME NEW g \in 1 .. starts, \A u \in Threads : thr'[u].svc # g PROVE ~svc[g].initialized
        <3>1. g # current /\ \A u \in Threads : thr[u].svc # g
            BY <1>0, <1>5, <1>6, <2>1, SMTT(60), Z3T(60)
        <3> QED
            BY <1>0, <2>1, <3>1, Zenon DEF Abandoned
    <2> QED
        BY <1>1, <1>8, <2>1, Zenon DEF Abandoned, SameServices
<1> QED
    BY <1>4, <1>7, <1>9, <1>10, <1>11, Zenon DEF ESInv, Types, Ending

-----------------------------------------------------------------------------
(* The steps of no thread of the control interface.                         *)

\* Publishers and handlers preserve the invariant.
LEMMA OtherSteps ==
    ASSUME ESInv, NEW p \in Sessions, Publisher(p) \/ Handle(p) \/ Handled(p)
    PROVE ESInv'
<1>0. Types /\ Core /\ Ending /\ ServiceTypes
    BY TypesAre, Zenon DEF ESInv, Types
<1>1. /\ Core' /\ pub' \in [Sessions -> PublisherStates] /\ busy' \subseteq Sessions
      /\ UNCHANGED <<lifecycle, svc, srv, owner, created, failures, failed, thr, terminated>>
    <2>1. CASE Publisher(p)
        BY <1>0, <2>1, PublisherStep, TypesGive, Zenon
    <2>2. CASE Handle(p) \/ Handled(p)
        <3>1. UNCHANGED <<lifecycle, services, thr, terminated>> /\ busy' \subseteq Sessions
            BY <1>0, <2>2, TypesGive, Zenon DEF Handle, Handled
        <3>2. SameServices /\ SameClosers
            BY <1>0, <3>1, ServicesSame, StandingIsSame, Zenon
        <3>3. Core'
            BY <1>0, <3>2, QuietKeeps, Zenon
        <3> QED
            BY <1>0, <3>1, <3>3, TypesGive, Zenon DEF services
    <2> QED
        BY <2>1, <2>2, Zenon
<1>2. LifecycleTypes' /\ UNCHANGED <<current, starts>>
    BY <1>0, <1>1, LifecycleSame, Zenon
<1>3. TypeOK'
    <2>1. ServiceTypes'
        BY <1>0, <1>1, Zenon DEF ServiceTypes
    <2>2. thr' \in [Threads -> ThreadStates] /\ (busy \subseteq Sessions)'
        BY <1>0, <1>1, TypesGive, Zenon
    <2>3. (terminated \in BOOLEAN)'
        BY <1>0, <1>1, Zenon DEF Types, TypeOK
    <2> QED
        BY <1>2, <2>1, <2>2, <2>3, TypesAreNext, Zenon
<1>4. References'
    BY <1>0, <1>1, <1>2, ReferencesSame, Zenon
<1>5. Ending'
    BY <1>0, <1>1, <1>2, Zenon DEF Ending, Destructors, Abandoned
<1> QED
    BY <1>1, <1>3, <1>4, <1>5, Zenon DEF ESInv, Types

\* Stuttering preserves the invariant.
LEMMA SameState ==
    ASSUME ESInv, UNCHANGED vars
    PROVE ESInv'
<1>0. Types /\ Core /\ Ending /\ ServiceTypes /\ LifecycleTypes
    BY TypesAre, Zenon DEF ESInv, Types
<1>1. UNCHANGED <<lifecycle, services, thr, busy, terminated>>
    BY Zenon DEF vars
<1>2. LifecycleTypes' /\ UNCHANGED <<current, starts>> /\ ServiceTypes' /\ SameServices /\ SameClosers
    BY <1>0, <1>1, LifecycleSame, ServicesSame, StandingIsSame, Zenon
<1>3. TypeOK'
    <2>1. thr' \in [Threads -> ThreadStates] /\ (busy \subseteq Sessions)'
        BY <1>0, <1>1, TypesGive, Zenon
    <2>2. (terminated \in BOOLEAN)'
        BY <1>0, <1>1, Zenon DEF Types, TypeOK
    <2> QED
        BY <1>2, <2>1, <2>2, TypesAreNext, Zenon
<1>4. References'
    BY <1>0, <1>1, <1>2, ReferencesSame, Zenon
<1>5. Core'
    BY <1>0, <1>2, QuietKeeps, Zenon
<1>6. Ending'
    BY <1>0, <1>1, <1>2, Zenon DEF Ending, Destructors, Abandoned, SameServices
<1> QED
    BY <1>3, <1>4, <1>5, <1>6, Zenon DEF ESInv, Types

-----------------------------------------------------------------------------
(* The invariant, and what follows from it.                                 *)

\* The initial state satisfies the invariant.
LEMMA InitHolds == Init => ESInv
<1> SUFFICES ASSUME Init PROVE ESInv
    BY Zenon
<1>1. FreshService \in ServiceStates /\ IdleThread \in ThreadStates /\ [pc |-> "none", server |-> 0] \in PublisherStates
    BY Zenon DEF FreshService, IdleThread, ServiceStates, ThreadStates, PublisherStates, SomeSession, Pcs
<1>2. LifecycleTypes
    <2>1. 0 \in 0 .. MaxWork
        BY BoundsAssumption, SMTT(60), Z3T(60)
    <2> QED
        BY <2>1, Zenon DEF Init, LifecycleTypes
<1>3. ServiceTypes
    BY <1>1, BoundsAssumption, SMTT(60), Z3T(60) DEF Init, ServiceTypes
<1>4. TypeOK
    BY <1>1, <1>2, <1>3, TypesAre, Zenon DEF Init
<1>5. /\ \A t \in Threads : thr[t].pc = "idle" /\ thr[t].svc = 0 /\ thr[t].join = 0 /\ thr[t].dtor = FALSE
      /\ \A s \in Sessions : pub[s].pc = "none" /\ srv[s] = "none" /\ owner[s] = 0
      /\ created = 0 /\ starts = 0 /\ current = 0 /\ failed = {} /\ terminated = FALSE
    BY Zenon DEF Init, IdleThread
<1>6. \A g \in Services : /\ svc[g].closing = FALSE /\ svc[g].initialized = FALSE /\ svc[g].host = "none" /\ svc[g].session = 0
                          /\ svc[g].server = 0 /\ svc[g].sessionId = 0 /\ svc[g].running = FALSE /\ svc[g].thread = 0
    BY Zenon DEF Init, FreshService
<1>7. References
    BY <1>5, Main \in Threads, SMTT(60), Z3T(60) DEF References, Outside, Inside, Threads
<1>8. Creation
    BY <1>5, SMTT(60), Z3T(60) DEF Creation, Sessions
<1>9. \A g \in Services : Service(g)
    BY <1>6, Zenon DEF Service
<1>10. Closers
    BY <1>5, <1>6, Zenon DEF Closers, Closing
<1>11. Servers /\ Publishers
    BY <1>5, Zenon DEF Servers, Publishers, PublisherLives
<1>12. Ending
    BY <1>5, SMTT(60), Z3T(60) DEF Ending, Destructors, Abandoned
<1> QED
    BY <1>4, <1>7, <1>8, <1>9, <1>10, <1>11, <1>12, Zenon DEF ESInv, Types, Core

\* Every step preserves the invariant.
LEMMA StepHolds == ESInv /\ [Next]_vars => ESInv'
<1> SUFFICES ASSUME ESInv, [Next]_vars PROVE ESInv'
    BY Zenon
<1>1. ASSUME NEW t \in Threads, Call(t) \/ Control(t) PROVE ESInv'
    <2>1. \/ \/ Call(t) \/ Gate(t) \/ ConfigureEngines(t) \/ HeartbeatSample(t) \/ HeartbeatStats(t) \/ InvokeAnyCall(t)
          \/ CopyService(t) \/ EnsureInitialized(t) \/ HandOut(t) \/ CloseSession(t)
          \/ CloseJoin(t) \/ CloseStop(t) \/ CloseDrain(t)
          \/ CloseDone(t) \/ Return(t)
        BY <1>1, Zenon DEF Control
    <2> QED
        BY <2>1, RequestSteps, CopyKeeps, EnsureKeeps, HandOutKeeps, CloseSessionKeeps, ClosingKeeps, CloseDoneKeeps, ReturnKeeps, Zenon
<1>2. ASSUME NEW p \in Sessions, Publisher(p) \/ Handle(p) \/ Handled(p) PROVE ESInv'
    BY <1>2, OtherSteps, Zenon
<1>3. CASE Lifecycle
    BY <1>3, LifecycleMoves, OnStartMakeKeeps, OnStopMoveKeeps, Zenon DEF Lifecycle
<1>4. CASE UNCHANGED vars
    BY <1>4, SameState, Zenon
<1> QED
    BY <1>1, <1>2, <1>3, <1>4, Zenon DEF Next

\* The invariant implies the properties.
LEMMA InvGives ==
    ESInv => TypeOK /\ SessionIsServed /\ ReopenWaitsForStop /\ PublishersAreJoined /\ StopLeavesNothing
<1> SUFFICES ASSUME ESInv PROVE TypeOK /\ SessionIsServed /\ ReopenWaitsForStop /\ PublishersAreJoined /\ StopLeavesNothing
    BY Zenon
<1>0. Types /\ Core /\ Destructors /\ Abandoned /\ TypeOK
    BY Zenon DEF ESInv, Types, Ending
<1>1. ASSUME NEW s \in Sessions, srv[s] \in {"running", "stopping"}
      PROVE /\ owner[s] \in Services
            /\ \/ svc[owner[s]].server = s /\ svc[owner[s]].initialized
               \/ \E t \in Threads : Closing(t) /\ thr[t].session = s /\ thr[t].svc = owner[s] /\ svc[owner[s]].closing
    <2>1. owner[s] \in Services
        BY <1>0, <1>1, Owned, Zenon
    <2>2. CASE svc[owner[s]].server = s
        <3>1. s # 0
            BY DEF Sessions
        <3> QED
            BY <1>0, <2>1, <2>2, <3>1, Zenon DEF Core, Service
    <2>3. CASE \E t \in Threads : Closing(t) /\ thr[t].session = s
        <3>1. PICK t \in Threads : Closing(t) /\ thr[t].session = s
            BY <2>3, Zenon
        <3>2. svc[thr[t].svc].closing /\ owner[s] = thr[t].svc
            BY <1>0, <3>1, Zenon DEF Core, Closers, Closer
        <3> QED
            BY <2>1, <3>1, <3>2, Zenon
    <2> QED
        BY <1>0, <1>1, <2>1, <2>2, <2>3, Zenon DEF Core, Servers
<1>2. SessionIsServed
    <2>1. ASSUME NEW g \in Services, svc[g].sessionId # 0, g \notin failed
          PROVE svc[g].initialized /\ svc[g].server = svc[g].sessionId /\ srv[svc[g].sessionId] = "running"
        BY <1>0, <2>1, ZenonT(60) DEF Core, Service
    <2> QED
        BY <2>1, Zenon DEF SessionIsServed
<1>3. ReopenWaitsForStop
    <2>1. SUFFICES ASSUME NEW r \in Sessions, NEW s \in Sessions, owner[r] = owner[s],
                          srv[r] \in {"running", "stopping"}, srv[s] \in {"running", "stopping"}
                   PROVE r = s
        BY Zenon DEF ReopenWaitsForStop
    <2>2. svc[owner[s]].initialized => ~svc[owner[s]].closing
        BY <1>0, <1>1, <2>1, Zenon DEF Core, Service
    <2>3. CASE svc[owner[s]].initialized
        BY <1>1, <2>1, <2>2, <2>3, ZenonT(60)
    <2>4. CASE ~svc[owner[s]].initialized
        <3>1. PICK t \in Threads : Closing(t) /\ thr[t].session = s /\ thr[t].svc = owner[s]
            BY <1>1, <2>1, <2>4, Zenon
        <3>2. PICK u \in Threads : Closing(u) /\ thr[u].session = r /\ thr[u].svc = owner[s]
            BY <1>1, <2>1, <2>4, SMTT(60)
        <3>3. t = u
            BY <1>0, <3>1, <3>2, Zenon DEF Core, Closers
        <3> QED
            BY <3>1, <3>2, <3>3, Zenon
    <2> QED
        BY <2>3, <2>4, Zenon
<1>4. PublishersAreJoined
    BY <1>0, Zenon DEF Core, Publishers, Destructors, PublishersAreJoined
<1>5. StopLeavesNothing
    <2>1. SUFFICES ASSUME NEW g \in 1 .. starts, g # current, Holders(g) = {}, g \notin failed, NEW s \in Sessions, owner[s] = g
                   PROVE srv[s] \in {"none", "stopped"} /\ ~PublisherLives(s)
        BY Zenon DEF StopLeavesNothing
    <2>2. \A t \in Threads : thr[t].svc # g
        BY <2>1, Zenon DEF Holders
    <2>3. ~svc[g].initialized /\ g \in Services
        BY <1>0, <2>1, <2>2, TypesGive, SMTT(60), Z3T(60) DEF Abandoned, Services
    <2>4. srv[s] \in {"none", "stopped"}
        <3>1. srv[s] \in {"none", "running", "stopping", "stopped"}
            BY <1>0, TypesGive, Zenon
        <3> QED
            BY <1>1, <2>1, <2>2, <2>3, <3>1, Zenon
    <2>5. ~PublisherLives(s)
        <3>1. svc[g].thread # s
            BY <1>0, <2>1, <2>3, SMTT(60), Z3T(60) DEF Core, Service, Sessions
        <3>2. \A t \in Threads : thr[t].join # s
            BY <1>0, <2>1, <2>2, SMT, Z3 DEF Core, Closers, Sessions
        <3> QED
            BY <1>0, <2>1, <3>1, <3>2, Zenon DEF Core, Publishers
    <2> QED
        BY <2>4, <2>5, Zenon
<1> QED
    BY <1>0, <1>2, <1>3, <1>4, <1>5, Zenon

\* The invariant holds in every state of the engine.
LEMMA InvHolds == Spec => []ESInv
    BY InitHolds, StepHolds, PTL DEF Spec

\* Type correctness of the engine process.
THEOREM TypeCorrect == Spec => []TypeOK
    BY InvHolds, InvGives, PTL

\* EngineSessionService reports a session id only while the RpcServer of that very
\* session runs, with any number of requests in OpenSession and CloseSession at once
\* (services whose session host failed to open apart).
THEOREM SessionsAreServed == Spec => []SessionIsServed
    BY InvHolds, InvGives, PTL

\* EnsureInitialized refuses while closing_ is set, so a service never has two
\* servers that have not stopped.
THEOREM ReopenWaits == Spec => []ReopenWaitsForStop
    BY InvHolds, InvGives, PTL

\* A running EventPublisherLoop is always somebody's to join, no joinable
\* std::thread is destroyed, and nobody is inside PublishEvent of a server that is
\* being stopped.
THEOREM PublishersJoined == Spec => []PublishersAreJoined
    BY InvHolds, InvGives, PTL

\* OnStop, and the last call that still holds the session service it took away,
\* leave neither a server nor a publisher thread behind.
THEOREM StopIsComplete == Spec => []StopLeavesNothing
    BY InvHolds, InvGives, PTL
=============================================================================
