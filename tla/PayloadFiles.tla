----------------------------- MODULE PayloadFiles -----------------------------
(***************************************************************************)
(* Requests and replies in the rings of a shared session, and the files    *)
(* that carry oversized payloads (file_payload.cpp, with the places of     *)
(* rpc_client.cpp and rpc_server.cpp that write, read and remove them).    *)
(* Sessions break and are replaced, client processes and the engine die,   *)
(* and what they leave in the rings and in the directory is found by the   *)
(* next one.                                                               *)
(*                                                                         *)
(* A client process sends one request, the first of its RpcClient, so that *)
(* all of them have the same requestId; the process a request comes from   *)
(* is known to the model only.  A request is sent again when its push      *)
(* failed.  Attaching is one step here: its own steps are in module        *)
(* SharedSession.  Ring capacities and credits are in module RpcServer.    *)
(***************************************************************************)
EXTENDS Naturals, Sequences, FiniteSets

CONSTANTS
    Clients,      \* client processes (with their pids)
    Nobody,       \* no process
    BigRequests,  \* clients whose request needs a file
    BigReplies,   \* clients whose reply needs a file
    Unhandled,    \* clients whose opcode has no handler
    MaxSessions,  \* bound: sessions created
    MaxTrouble    \* bound: processes that die and requests sent again, together

ASSUME ProcessesAssumption == Nobody \notin Clients
ASSUME BoundsAssumption == MaxSessions \in Nat /\ MaxTrouble \in Nat

Sessions == 1 .. MaxSessions
\* The payload files: one per session and direction of a client's request.
NoFile == <<Nobody, "none", 0>>
Files == Clients \X {"request", "reply"} \X Sessions
\* What is in a ring: the process the request came from and its payload file.
NoEntry == [from |-> Nobody, file |-> NoFile]
Entries == [from : Clients, file : Files \cup {NoFile}]

VARIABLES
    shm,       \* the shared memory of each session
    host,      \* session of the SharedMemorySessionHost, 0 when not initialized
    created,   \* sessions created so far
    live,      \* client processes that are alive
    engine,    \* is the engine process alive?
    trouble,   \* processes that died and requests sent again
    cl,        \* client processes
    srv,       \* the server's executor and writer, for one request at a time
    stop,      \* EngineSessionService::CloseSession with RpcServer::Stop
    files,     \* files in the payload directory
    adrift,    \* history: sessions set Alive again after Broken, or whose engine died
    served     \* history: clients for whose request the handler ran

vars == <<shm, host, created, live, engine, trouble, cl, srv, stop, files, adrift, served>>
processes == <<live, engine, trouble>>
hostVars == <<host, created>>
history == <<adrift, served>>

FreshShm == [attached |-> Nobody, broken |-> FALSE, req |-> <<>>, resp |-> <<>>]
IdleClient == [pc |-> "idle", session |-> 0, request |-> "new", file |-> NoFile,
               popped |-> NoEntry, sent |-> FALSE]
IdleServer == [pc |-> "idle", from |-> Nobody, file |-> NoFile]

Init ==
    /\ shm = [s \in Sessions |-> FreshShm] /\ host = 0 /\ created = 0
    /\ live = Clients /\ engine = TRUE /\ trouble = 0
    /\ cl = [c \in Clients |-> IdleClient] /\ srv = IdleServer /\ stop = "idle"
    /\ files = {} /\ adrift = {} /\ served = {}

\* PrepareFilePayloadForTransport: the file of a payload that does not fit in an entry.
TransportFile(c, big, kind, s) == IF c \in big THEN <<c, kind, s>> ELSE NoFile
\* ResolveFilePayloadFromTransport: the payload is inline, or its file is there.
Readable(f) == f \in files \cup {NoFile}

WriteFile(f, dir) == dir \cup ({f} \ {NoFile})
ReadAndRemove(f) == files \ {f}
\* unlink of a payload file; a file that is gone already is no error.
Unlink(f) == files' = files \ {f}

-----------------------------------------------------------------------------
(* A client attaches.                                                       *)

At(c, pc) == cl[c].pc = pc /\ c \in live
Goto(c, next) == cl' = [cl EXCEPT ![c].pc = next]
MaySend(c) == cl[c].sent => trouble < MaxTrouble

\* bootstrap->OpenSession: the host keeps its session or creates one; the client
\* maps and validates it.
Open(c) ==
    /\ At(c, "idle") /\ engine /\ stop = "idle"
    /\ cl[c].request = "new" /\ MaySend(c)
    /\ IF host # 0 THEN UNCHANGED hostVars
       ELSE created < MaxSessions /\ host' = created + 1 /\ created' = created + 1
    /\ cl' = [cl EXCEPT ![c] = [@ EXCEPT !.session = host', !.pc = "opened"]]
    /\ UNCHANGED <<shm, processes, srv, stop, files, history>>

\* Session::Attach with the handles that OpenSession gave, which may be old by now.
\* A client that is refused gives its request up with InvalidArgument.
Attach(c) ==
    LET s == cl[c].session IN
    /\ At(c, "opened")
    /\ \/ /\ shm[s].attached \notin live
          /\ shm' = [shm EXCEPT ![s].attached = c] /\ Goto(c, "alive")
       \/ /\ shm[s].attached \in live
          /\ cl' = [cl EXCEPT ![c] = [@ EXCEPT !.session = 0, !.pc = "idle", !.request = "failed"]] /\ UNCHANGED shm
    /\ UNCHANGED <<hostVars, processes, srv, stop, files, history>>

\* SetState(Alive) of SessionTransport::OpenSession, whatever the state was.
SetAlive(c) ==
    LET s == cl[c].session IN
    /\ At(c, "alive")
    /\ shm' = [shm EXCEPT ![s].broken = FALSE] /\ Goto(c, "attached")
    /\ adrift' = IF shm[s].broken THEN adrift \cup {s} ELSE adrift
    /\ UNCHANGED <<hostVars, processes, srv, stop, files, served>>

-----------------------------------------------------------------------------
(* A client's request.                                                      *)

\* PrepareRequestPayloadForTransport, before the entry is in the ring.
Prepare(c) ==
    /\ At(c, "attached") /\ cl[c].request = "new" /\ MaySend(c)
    /\ trouble' = IF cl[c].sent THEN trouble + 1 ELSE trouble
    /\ LET f == TransportFile(c, BigRequests, "request", cl[c].session) IN
          files' = WriteFile(f, files) /\ cl' = [cl EXCEPT ![c] = [@ EXCEPT !.file = f, !.sent = TRUE, !.pc = "push"]]
    /\ UNCHANGED <<shm, hostVars, live, engine, srv, stop, history>>

\* PushRequestToSession fails: Take, the file is removed, the session is closed and
\* the request kept for the next one.
PushFailed(c) ==
    /\ Unlink(cl[c].file)
    /\ shm' = [shm EXCEPT ![cl[c].session].attached = Nobody]
    /\ cl' = [cl EXCEPT ![c] = [@ EXCEPT !.request = "new", !.file = NoFile, !.session = 0, !.pc = "bye"]]

\* The first look at the state; the request is in the pending store by now.
PushCheck(c) ==
    /\ At(c, "push")
    /\ \/ shm[cl[c].session].broken /\ PushFailed(c)
       \/ /\ ~shm[cl[c].session].broken
          /\ cl' = [cl EXCEPT ![c] = [@ EXCEPT !.request = "pending", !.pc = "append"]] /\ UNCHANGED <<shm, files>>
    /\ UNCHANGED <<hostVars, processes, srv, stop, history>>

PushRequest(c) ==
    /\ At(c, "append") /\ Goto(c, "recheck")
    /\ shm' = [shm EXCEPT ![cl[c].session].req = Append(@, [from |-> c, file |-> cl[c].file])]
    /\ UNCHANGED <<hostVars, processes, srv, stop, files, history>>

\* Mutant: the state is not looked at again after the push.
PushRecheck_None(c) ==
    /\ At(c, "recheck") /\ cl' = [cl EXCEPT ![c] = [@ EXCEPT !.file = NoFile, !.pc = "attached"]]
    /\ UNCHANGED <<shm, hostVars, processes, srv, stop, files, history>>

\* The second look at the state, after the push.
PushRecheck(c) ==
    /\ At(c, "recheck")
    /\ \/ shm[cl[c].session].broken /\ PushFailed(c)
       \/ /\ ~shm[cl[c].session].broken
          /\ cl' = [cl EXCEPT ![c] = [@ EXCEPT !.file = NoFile, !.pc = "attached"]] /\ UNCHANGED <<shm, files>>
    /\ UNCHANGED <<hostVars, processes, srv, stop, history>>

\* PopResponse of the response worker, under the client's sessionMutex_.
PopResponse(c) ==
    LET s == cl[c].session IN
    /\ At(c, "attached") /\ cl[c].popped = NoEntry
    /\ ~shm[s].broken /\ shm[s].resp # <<>>
    /\ cl' = [cl EXCEPT ![c].popped = Head(shm[s].resp)]
    /\ shm' = [shm EXCEPT ![s].resp = Tail(@)]
    /\ UNCHANGED <<hostVars, processes, srv, stop, files, history>>

\* No pending request has the id of the reply: DiscardEntryPayloadIfPresent.
LateReply(c) == cl' = [cl EXCEPT ![c].popped = NoEntry] /\ Unlink(cl[c].popped.file)

\* ResolveCompletedRequest: Take by requestId, which is the same for every client's
\* first request; then the file is read and removed.
ResolveCompletedRequest(c) ==
    LET e == cl[c].popped IN
    /\ c \in live /\ e # NoEntry
    /\ \/ cl[c].request # "pending" /\ LateReply(c)
       \/ /\ cl[c].request = "pending" /\ files' = ReadAndRemove(e.file)
          /\ cl' = [cl EXCEPT ![c] = [@ EXCEPT !.popped = NoEntry, !.request = "done"]]
    /\ UNCHANGED <<shm, hostVars, processes, srv, stop, history>>

\* The watchdog's TakeExpired: the reply, if it comes, is a late one.
Expire(c) ==
    /\ c \in live /\ cl[c].request = "pending"
    /\ cl' = [cl EXCEPT ![c].request = "failed"]
    /\ UNCHANGED <<shm, hostVars, processes, srv, stop, files, history>>

-----------------------------------------------------------------------------
(* A client leaves: CloseLiveSession, Session::Reset and CloseSession.      *)

\* Any close the client decides on; what is pending is failed.
Close(c) ==
    /\ At(c, "attached")
    /\ shm' = [shm EXCEPT ![cl[c].session].attached = Nobody]
    /\ LET left == IF cl[c].request = "pending" THEN "failed" ELSE cl[c].request IN
          cl' = [cl EXCEPT ![c] = [@ EXCEPT !.session = 0, !.pc = "bye", !.request = left]]
    /\ UNCHANGED <<hostVars, processes, srv, stop, files, history>>

\* bootstrap->CloseSession: the engine stops its server (StopBegin), whichever
\* session that serves by now; or the call does not reach it.
Bye(c) ==
    /\ At(c, "bye") /\ Goto(c, "idle")
    /\ \/ UNCHANGED <<shm, stop>>
       \/ /\ engine /\ host # 0 /\ stop = "idle"
          /\ shm' = [shm EXCEPT ![host].broken = TRUE] /\ stop' = "scan"
    /\ UNCHANGED <<hostVars, processes, srv, files, history>>

Client(c) ==
    \/ Open(c) \/ Attach(c) \/ SetAlive(c) \/ Prepare(c) \/ PushCheck(c) \/ PushRequest(c)
    \/ PushRecheck(c) \/ PopResponse(c) \/ ResolveCompletedRequest(c) \/ Expire(c) \/ Close(c) \/ Bye(c)

-----------------------------------------------------------------------------
(* The server of the host's session.                                        *)

SrvAt(pc) == srv.pc = pc /\ host # 0
SrvGoto(next) == srv' = [srv EXCEPT !.pc = next]
RingFiles(s) ==
    {e.file : e \in {shm[s].req[i] : i \in 1 .. Len(shm[s].req)} \cup
                    {shm[s].resp[i] : i \in 1 .. Len(shm[s].resp)}}

PopRequest ==
    /\ SrvAt("idle") /\ ~shm[host].broken /\ shm[host].req # <<>>
    /\ LET e == Head(shm[host].req) IN srv' = [pc |-> "resolve", from |-> e.from, file |-> e.file]
    /\ shm' = [shm EXCEPT ![host].req = Tail(@)]
    /\ UNCHANGED <<hostVars, processes, cl, stop, files, history>>

\* InvokeHandler.  Without a handler the payload is not looked at and its file
\* stays; a file that is gone is answered with ProtocolMismatch.
NoHandler == srv.from \in Unhandled /\ UNCHANGED <<files, served>>
Mismatch ==
    /\ srv.from \notin Unhandled /\ ~Readable(srv.file) /\ UNCHANGED <<files, served>>
Handled(reply) ==
    /\ srv.from \notin Unhandled /\ Readable(srv.file) /\ served' = served \cup {srv.from}
    /\ files' = WriteFile(reply, ReadAndRemove(srv.file))

InvokeHandler ==
    /\ SrvAt("resolve")
    /\ \/ (NoHandler \/ Mismatch) /\ srv' = [srv EXCEPT !.pc = "push", !.file = NoFile]
       \/ LET f == TransportFile(srv.from, BigReplies, "reply", host) IN
             Handled(f) /\ srv' = [srv EXCEPT !.pc = "push", !.file = f]
    /\ UNCHANGED <<shm, hostVars, processes, cl, stop, adrift>>

\* The reply cannot be sent: its file is removed and the session marked broken.
ReplyFailed == Unlink(srv.file) /\ srv' = [IdleServer EXCEPT !.pc = "mark"]

\* Session::PushResponse of the writer; or no room for longer than the retry budget, or
\* (once Stop has stopped the writer) no writer.
ResponseCheck ==
    /\ SrvAt("push")
    /\ \/ ReplyFailed
       \/ ~shm[host].broken /\ SrvGoto("append") /\ UNCHANGED files
    /\ UNCHANGED <<shm, hostVars, processes, cl, stop, history>>

PushResponse ==
    /\ SrvAt("append") /\ SrvGoto("recheck")
    /\ shm' = [shm EXCEPT ![host].resp = Append(@, [from |-> srv.from, file |-> srv.file])]
    /\ UNCHANGED <<hostVars, processes, cl, stop, files, history>>

ResponseRecheck ==
    /\ SrvAt("recheck")
    /\ \/ shm[host].broken /\ ReplyFailed
       \/ ~shm[host].broken /\ srv' = IdleServer /\ UNCHANGED files
    /\ UNCHANGED <<shm, hostVars, processes, cl, stop, history>>

\* MarkSessionBroken: the state first, then the files of what is in the rings.
MarkSessionBroken ==
    /\ SrvAt("mark") /\ SrvGoto("scan")
    /\ shm' = [shm EXCEPT ![host].broken = TRUE]
    /\ UNCHANGED <<hostVars, processes, cl, stop, files, history>>

RemovePendingFilePayloads ==
    /\ SrvAt("scan") /\ srv' = IdleServer /\ files' = files \ RingFiles(host)
    /\ UNCHANGED <<shm, hostVars, processes, cl, stop, history>>

Server ==
    \/ PopRequest \/ InvokeHandler \/ ResponseCheck \/ PushResponse \/ ResponseRecheck
    \/ MarkSessionBroken \/ RemovePendingFilePayloads

\* Mutant: the pending files are removed from a session that is still alive.
StopBegin_NoMark ==
    /\ engine /\ host # 0 /\ stop = "idle" /\ stop' = "scan"
    /\ UNCHANGED <<shm, hostVars, processes, cl, srv, files, history>>

\* RpcServer::Stop: MarkSessionBroken, whose first step StopBegin shares with Bye.
StopBegin ==
    /\ engine /\ host # 0 /\ stop = "idle" /\ stop' = "scan"
    /\ shm' = [shm EXCEPT ![host].broken = TRUE]
    /\ UNCHANGED <<hostVars, processes, cl, srv, files, history>>

StopScan ==
    /\ stop = "scan" /\ stop' = "drain" /\ files' = files \ RingFiles(host)
    /\ UNCHANGED <<shm, hostVars, processes, cl, srv, history>>

\* The threads are joined, the session is unmapped and the host's handles closed.
StopEnd ==
    /\ stop = "drain" /\ srv.pc = "idle" /\ stop' = "idle" /\ host' = 0
    /\ UNCHANGED <<shm, created, processes, cl, srv, files, history>>

-----------------------------------------------------------------------------
(* Processes die and start.                                                 *)

Die(c) ==
    /\ c \in live /\ trouble < MaxTrouble /\ trouble' = trouble + 1 /\ live' = live \ {c}
    /\ UNCHANGED <<shm, hostVars, engine, cl, srv, stop, files, history>>

\* The engine takes its session, its threads and what they hold with it.
EngineDies ==
    /\ engine /\ engine' = FALSE /\ trouble < MaxTrouble /\ trouble' = trouble + 1
    /\ host' = 0 /\ srv' = IdleServer /\ stop' = "idle"
    /\ adrift' = adrift \cup ({host} \ {0})
    /\ UNCHANGED <<shm, created, live, cl, files, served>>

\* OnStart of the next engine: ClearFilePayloads.
EngineStarts ==
    /\ ~engine /\ engine' = TRUE /\ files' = {}
    /\ UNCHANGED <<shm, hostVars, live, trouble, cl, srv, stop, history>>

Next ==
    \/ \E c \in Clients : Client(c) \/ Die(c)
    \/ Server \/ StopBegin \/ StopScan \/ StopEnd \/ EngineDies \/ EngineStarts

Spec == Init /\ [][Next]_vars

-----------------------------------------------------------------------------
(* Properties.                                                              *)

TypeOK ==
    /\ shm \in [Sessions -> [attached : Clients \cup {Nobody}, broken : BOOLEAN, req : Seq(Entries), resp : Seq(Entries)]]
    /\ host \in 0 .. MaxSessions /\ created \in 0 .. MaxSessions
    /\ live \subseteq Clients /\ engine \in BOOLEAN /\ trouble \in 0 .. MaxTrouble
    /\ cl \in [Clients -> [pc : {"idle", "opened", "alive", "attached", "push", "append", "recheck", "bye"},
                           session : 0 .. MaxSessions, request : {"new", "pending", "done", "failed"},
                           file : Files \cup {NoFile}, popped : Entries \cup {NoEntry}, sent : BOOLEAN]]
    /\ srv \in [pc : {"idle", "resolve", "push", "append", "recheck", "mark", "scan"},
                from : Clients \cup {Nobody}, file : Files \cup {NoFile}]
    /\ stop \in {"idle", "scan", "drain"}
    /\ files \subseteq Files /\ adrift \subseteq Sessions /\ served \subseteq Clients

\* What a client process is about to push or to read, and would remove itself.
InHand(c) == {cl[c].file, cl[c].popped.file}

\* What the death of a client process leaves in the directory until an engine starts: the
\* reply it had taken, and the request file it had written and not pushed yet, or pushed
\* into a session that was broken by then.  Once the push is done in a session that is not
\* broken, the file is no longer the process's own.
DiedWith(c) ==
    {cl[c].popped.file} \cup
    (IF cl[c].pc \in {"push", "append"} \/ (cl[c].pc = "recheck" /\ shm[cl[c].session].broken)
     THEN {cl[c].file} ELSE {})

\* No payload file is left behind by processes that live: a file is in the hand of a live
\* client or of the server, or in a ring of the host's session, where it is taken or
\* cleared.  The exceptions are the files that a client process died with, requests for
\* which there is no handler (InvokeHandler answers them without a look at the payload),
\* and sessions adrift: the engine died, or a client that attached late set the session
\* Alive again after it had been marked broken.
NoFileIsLeft ==
    \A f \in files :
        \/ \E c \in live : f \in InHand(c)
        \/ \E c \in Clients \ live : f \in DiedWith(c)
        \/ f = srv.file
        \/ host # 0 /\ f \in RingFiles(host)
        \/ f[1] \in Unhandled /\ f[2] = "request"
        \/ f[3] \in adrift

\* Whoever takes an entry from a ring of a session that is not broken finds its
\* payload file: nobody else removed it (the writer of a push that was refused
\* afterwards, the scan of MarkSessionBroken, the late reply of another client).
FileIsThere ==
    LET Intact(s) == ~shm[s].broken /\ s \notin adrift IN
    /\ srv.pc = "resolve" /\ srv.file # NoFile /\ Intact(host) => srv.file \in files
    /\ \A c \in live :
          LET f == cl[c].popped.file IN f # NoFile => (Intact(f[3]) => f \in files)

\* docs/porting_guide.md: the framework does not replay a request that an old server
\* may have seen.  Violated: SubmitOne sends it again after such a push.
NoReplay == srv.pc = "resolve" /\ Readable(srv.file) => srv.from \notin served

\* docs/document.md: a RequestId is unique and matches requests with responses.
\* Violated: the next client of a session gets the reply to the dead one's request,
\* because every process counts its requests from 1.
ReplyIsForThisClient ==
    \A c \in live : cl[c].popped # NoEntry /\ cl[c].request = "pending" => cl[c].popped.from = c
=============================================================================
