---------------------------- MODULE SharedSession ----------------------------
(***************************************************************************)
(* The shared-memory session and the processes around it: the host in the  *)
(* engine that creates it and throws it away (shared_memory_session_host), *)
(* and the client processes that attach to it, leave it and may die at any *)
(* step of that (session.cpp).  A session has one client at a time, which  *)
(* its header names under a robust process-shared mutex.                   *)
(*                                                                         *)
(* That it has no two is in module Attachment, with the state this is      *)
(* about; the requests and their payload files are in PayloadFiles.        *)
(***************************************************************************)
EXTENDS Naturals, Attachment

CONSTANTS
    Clients,      \* client processes (with their pids)
    Nobody,       \* no process: a free mutex, no attached client
    PidZero,      \* clientAttached is set and activeClientPid is still 0
    MaxSessions,  \* bound: sessions created
    MaxDeaths,    \* bound: processes that die
    PidsReused    \* may the pid of a dead client go to an unrelated process?

ASSUME ProcessesAssumption == Nobody \notin Clients /\ PidZero \notin Clients /\ Nobody # PidZero
ASSUME BoundsAssumption == MaxSessions \in Nat /\ MaxDeaths \in Nat /\ PidsReused \in BOOLEAN

Sessions == 1 .. MaxSessions

VARIABLES
    host,      \* session of the SharedMemorySessionHost, 0 when not initialized
    created,   \* sessions created so far
    reused,    \* dead clients whose pid belongs to another process
    engine,    \* is the engine process alive?
    deaths,    \* processes that died
    stopping,  \* EngineSessionService::CloseSession in progress
    reach      \* do the clients' CloseSession calls reach the engine?

vars == <<shm, host, created, live, reused, engine, deaths, cl, stopping, reach>>
processes == <<live, reused, engine, deaths, reach>>
hostVars == <<host, created, stopping>>

FreshShm == [attached |-> Nobody, mutex |-> Nobody]
IdleClient == [pc |-> "idle", session |-> 0, owns |-> FALSE]

Init ==
    /\ shm = [s \in Sessions |-> FreshShm] /\ host = 0 /\ created = 0 /\ stopping = FALSE
    /\ live = Clients /\ reused = {} /\ engine = TRUE /\ deaths = 0
    /\ cl = [c \in Clients |-> IdleClient] /\ reach \in BOOLEAN

ProcessIsAlive(pid) == pid \in live \cup reused

-----------------------------------------------------------------------------
(* Session::Attach in the role of a client.                                 *)

At(c, pc) == cl[c].pc = pc /\ c \in live
Goto(c, next) == cl' = [cl EXCEPT ![c].pc = next]
\* Session::Reset of a client that does not own the attachment (any more).
Reset(c, next) == cl' = [cl EXCEPT ![c] = [pc |-> next, session |-> 0, owns |-> FALSE]]

\* SharedMemorySessionHost::OpenSession: the host keeps its session or creates one,
\* and hands out duplicates of its descriptors.
HostCreates == created < MaxSessions /\ host' = created + 1 /\ created' = created + 1
HostOpens ==
    /\ engine /\ ~stopping /\ UNCHANGED stopping
    /\ IF host # 0 THEN UNCHANGED <<host, created>> ELSE HostCreates

\* Session::Attach up to the attachment: the header is mapped and validated.
MapSession(c, s) == cl' = [cl EXCEPT ![c] = [@ EXCEPT !.session = s, !.pc = "lock"]]

\* SessionTransport::OpenSession: bootstrap->OpenSession and Attach.
Open(c) ==
    /\ At(c, "idle") /\ HostOpens /\ MapSession(c, host')
    /\ UNCHANGED <<shm, processes>>

\* Mutant: the mutex of a dead process is not made consistent.
AfterFailedLock_Kept(m) == m

\* LockSharedMutex.  A mutex whose owner died is repaired and released, and the
\* lock reported as failed; a mutex held by a live process may time out.
AfterFailedLock(m) == IF m \in live THEN m ELSE Nobody
LockSharedMutex(c) ==
    /\ shm[cl[c].session].mutex = Nobody
    /\ shm' = [shm EXCEPT ![cl[c].session].mutex = c]
LockFails(c) ==
    /\ shm[cl[c].session].mutex # Nobody
    /\ shm' = [shm EXCEPT ![cl[c].session].mutex = AfterFailedLock(@)]

Lock(c) ==
    /\ At(c, "lock")
    /\ \/ LockSharedMutex(c) /\ Goto(c, "check")
       \/ LockFails(c) /\ Reset(c, "idle")
    /\ UNCHANGED <<hostVars, processes>>

\* Mutant: any attachment is taken over.
MayTakeOver_Always(pid) == TRUE

MayTakeOver(pid) == pid = Nobody \/ ~ProcessIsAlive(pid)

\* TryAcquireClientAttachment under the mutex; the pid is written after the flag.
CheckAttached(c) ==
    LET s == cl[c].session IN
    /\ At(c, "check")
    /\ \/ /\ MayTakeOver(shm[s].attached)
          /\ shm' = [shm EXCEPT ![s].attached = PidZero] /\ Goto(c, "pid")
       \/ /\ ~MayTakeOver(shm[s].attached)
          /\ shm' = [shm EXCEPT ![s].mutex = Nobody] /\ Reset(c, "idle")
    /\ UNCHANGED <<hostVars, processes>>

WritePid(c) ==
    /\ At(c, "pid")
    /\ shm' = [shm EXCEPT ![cl[c].session].attached = c]
    /\ cl' = [cl EXCEPT ![c] = [@ EXCEPT !.owns = TRUE, !.pc = "unlock"]]
    /\ UNCHANGED <<hostVars, processes>>

Unlock(c) ==
    /\ At(c, "unlock")
    /\ shm' = [shm EXCEPT ![cl[c].session].mutex = Nobody] /\ Goto(c, "attached")
    /\ UNCHANGED <<hostVars, processes>>

-----------------------------------------------------------------------------
(* A client leaves: CloseLiveSession, Session::Reset and CloseSession.      *)

\* The client closes its session, for whatever reason.
Close(c) ==
    /\ At(c, "attached") /\ Goto(c, "release")
    /\ UNCHANGED <<shm, hostVars, processes>>

\* ReleaseClientAttachment: when the lock fails the header still names this client.
Release(c) ==
    /\ At(c, "release")
    /\ \/ LockSharedMutex(c) /\ Goto(c, "clear")
       \/ LockFails(c) /\ Reset(c, "bye")
    /\ UNCHANGED <<hostVars, processes>>

Clear(c) ==
    /\ At(c, "clear")
    /\ shm' = [shm EXCEPT ![cl[c].session] = FreshShm]
    /\ Reset(c, "bye")
    /\ UNCHANGED <<hostVars, processes>>

\* EngineSessionService::CloseSession; the host's handles are closed at its end.
StopBegin == engine /\ host # 0 /\ ~stopping /\ stopping' = TRUE

\* Mutant: a client that leaves does not tell the engine.
Bye_NoCall(c) == At(c, "bye") /\ Goto(c, "idle") /\ UNCHANGED <<shm, hostVars, processes>>

\* bootstrap->CloseSession: the engine closes the session it has by now, or it has
\* none, or the call does not reach it.
Bye(c) ==
    /\ At(c, "bye") /\ Goto(c, "idle")
    /\ \/ StopBegin
       \/ (~reach \/ ~engine \/ host = 0 \/ stopping) /\ UNCHANGED stopping
    /\ UNCHANGED <<shm, host, created, processes>>

Client(c) ==
    \/ Open(c) \/ Lock(c) \/ CheckAttached(c) \/ WritePid(c) \/ Unlock(c)
    \/ Release(c) \/ Clear(c) \/ Bye(c)

-----------------------------------------------------------------------------
(* The engine, and processes that die and start.                            *)

\* CloseSession for another reason: OnStop, or a client of another kind.
CloseSession ==
    /\ StopBegin /\ UNCHANGED <<shm, host, created, processes, cl>>

\* The threads are joined, the session is unmapped, the host's handles are closed.
StopEnd ==
    /\ stopping /\ stopping' = FALSE /\ host' = 0
    /\ UNCHANGED <<shm, created, processes, cl>>

Die(c) ==
    /\ c \in live /\ deaths < MaxDeaths /\ deaths' = deaths + 1 /\ live' = live \ {c}
    /\ UNCHANGED <<shm, hostVars, reused, engine, cl, reach>>

ReusePid(c) ==
    /\ PidsReused /\ c \notin live \cup reused /\ reused' = reused \cup {c}
    /\ UNCHANGED <<shm, hostVars, live, engine, deaths, cl, reach>>

\* The engine takes its session host with it; the clients keep their mappings.
EngineDies ==
    /\ engine /\ engine' = FALSE /\ deaths < MaxDeaths /\ deaths' = deaths + 1
    /\ host' = 0 /\ stopping' = FALSE
    /\ UNCHANGED <<shm, created, live, reused, cl, reach>>

EngineStarts ==
    /\ ~engine /\ engine' = TRUE
    /\ UNCHANGED <<shm, hostVars, live, reused, deaths, cl, reach>>

Next ==
    \/ \E c \in Clients : Client(c) \/ Close(c) \/ Die(c) \/ ReusePid(c)
    \/ CloseSession \/ StopEnd \/ EngineDies \/ EngineStarts

Spec == Init /\ [][Next]_vars

\* A process that can take a step takes it (the mutex is waited for with a timeout, so
\* it never blocks), and the service manager starts an engine that died again.  Nothing
\* makes a client close or a process die.
Fairness == (\A c \in Clients : WF_vars(Client(c))) /\ WF_vars(StopEnd) /\ WF_vars(EngineStarts)

FairSpec == Spec /\ Fairness

-----------------------------------------------------------------------------
(* Properties.                                                              *)

Headers == [attached : Clients \cup {Nobody, PidZero}, mutex : Clients \cup {Nobody}]
ClientStates ==
    [pc : {"idle", "lock", "check", "pid", "unlock", "attached", "release", "clear", "bye"},
     session : 0 .. MaxSessions, owns : BOOLEAN]

TypeOK ==
    /\ shm \in [Sessions -> Headers] /\ cl \in [Clients -> ClientStates]
    /\ host \in 0 .. MaxSessions /\ created \in 0 .. MaxSessions /\ stopping \in BOOLEAN
    /\ live \subseteq Clients /\ reused \subseteq Clients \ live
    /\ engine \in BOOLEAN /\ deaths \in 0 .. MaxDeaths /\ reach \in BOOLEAN

\* A dead client does not keep the others out: a live client that has no session does
\* not for ever find one whose header names neither a live process nor a process that got a dead
\* one's pid.  Somebody gets past the mutex and the attachment that a process may
\* have died with at any step of Attach and Reset.
DeadClientIsReplaced ==
    \A c \in Clients :
        []<>~(c \in live /\ ~cl[c].owns /\ host # 0 /\ ~ProcessIsAlive(shm[host].attached))

\* ReleaseClientAttachment gives up when it cannot lock, and the header goes on naming
\* a process that has left and that Attach then finds alive.  When the CloseSession
\* that follows reaches the engine, such a session does not last.
LeftSessionIsDropped ==
    reach => \A c \in Clients :
        []<>~(c \in live /\ host # 0 /\ shm[host].attached = c /\ ~cl[c].owns)
=============================================================================
