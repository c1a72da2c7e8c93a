-------------------------- MODULE PayloadFilesProofs --------------------------
(***************************************************************************)
(* For any number of clients, sessions, deaths and resent requests:        *)
(* PayloadFiles is type correct, leaves no payload file behind and removes *)
(* none that somebody still has to read.                                   *)
(***************************************************************************)
EXTENDS PayloadFiles, TLAPS

-----------------------------------------------------------------------------
(* The files of a ring.                                                     *)

HasFile(q, f) == \E i \in 1 .. Len(q) : q[i].file = f

\* The entries of a ring carry files of its own session.
Named(q, kind, s) == \A i \in 1 .. Len(q) : q[i].file \in {NoFile, <<q[i].from, kind, s>>}

InRing(f, s) == HasFile(shm[s].req, f) \/ HasFile(shm[s].resp, f)

\* The files of a session's rings, by ring.
LEMMA RingFilesAre == ASSUME NEW s, NEW f PROVE f \in RingFiles(s) <=> InRing(f, s)
    BY Zenon DEF RingFiles, InRing, HasFile

\* A pushed entry adds its file to the ring.
LEMMA FilesOfAppend ==
    ASSUME NEW q \in Seq(Entries), NEW e \in Entries
    PROVE /\ Append(q, e) \in Seq(Entries)
          /\ \A f : HasFile(Append(q, e), f) <=> HasFile(q, f) \/ e.file = f
          /\ \A kind, s : Named(q, kind, s) /\ e.file \in {NoFile, <<e.from, kind, s>>} => Named(Append(q, e), kind, s)
<1> DEFINE a == Append(q, e)
<1>1. a \in Seq(Entries) /\ Len(q) \in Nat /\ Len(a) = Len(q) + 1
    OBVIOUS
<1>2. (\A i \in 1 .. Len(q) : a[i] = q[i]) /\ a[Len(q) + 1] = e
    OBVIOUS
<1> HIDE DEF a
<1>3. \A i \in 1 .. Len(a) : i \in 1 .. Len(q) \/ i = Len(q) + 1
    BY <1>1
<1>4. 1 .. Len(q) \subseteq 1 .. Len(a) /\ Len(q) + 1 \in 1 .. Len(a)
    BY <1>1
<1>5. \A f : HasFile(a, f) <=> HasFile(q, f) \/ e.file = f
    BY <1>2, <1>3, <1>4, Zenon DEF HasFile
<1>6. \A kind, s : Named(q, kind, s) /\ e.file \in {NoFile, <<e.from, kind, s>>} => Named(a, kind, s)
    BY <1>2, <1>3, Zenon DEF Named
<1> QED
    BY <1>1, <1>5, <1>6, Zenon DEF a

\* A popped entry takes its file out of the ring.
LEMMA FilesOfTail ==
    ASSUME NEW q \in Seq(Entries), q # <<>>
    PROVE /\ Tail(q) \in Seq(Entries) /\ Head(q) \in Entries
          /\ \A f : HasFile(q, f) <=> HasFile(Tail(q), f) \/ Head(q).file = f
          /\ \A kind, s : Named(q, kind, s) => Named(Tail(q), kind, s)
                                               /\ Head(q).file \in {NoFile, <<Head(q).from, kind, s>>}
<1> DEFINE t == Tail(q)
<1>1. t \in Seq(Entries) /\ Head(q) \in Entries /\ Len(q) \in Nat /\ Len(q) > 0 /\ Len(t) = Len(q) - 1
    OBVIOUS
<1>2. (\A i \in 1 .. Len(t) : t[i] = q[i + 1]) /\ Head(q) = q[1]
    OBVIOUS
<1> HIDE DEF t
<1>3. \A i \in 1 .. Len(q) : i = 1 \/ (i - 1 \in 1 .. Len(t) /\ (i - 1) + 1 = i)
    BY <1>1
<1>4. (\A i \in 1 .. Len(t) : i + 1 \in 1 .. Len(q)) /\ 1 \in 1 .. Len(q)
    BY <1>1
<1>5. ASSUME NEW f PROVE HasFile(q, f) <=> HasFile(t, f) \/ Head(q).file = f
    <2>1. ASSUME HasFile(q, f) PROVE HasFile(t, f) \/ Head(q).file = f
        <3>1. PICK i \in 1 .. Len(q) : q[i].file = f
            BY <2>1, Zenon DEF HasFile
        <3> QED
            BY <1>2, <1>3, <3>1, Zenon DEF HasFile
    <2>2. HasFile(t, f) \/ Head(q).file = f => HasFile(q, f)
        BY <1>2, <1>4, Zenon DEF HasFile
    <2> QED
        BY <2>1, <2>2, Zenon
<1>6. \A kind, s : Named(q, kind, s) => Named(t, kind, s) /\ Head(q).file \in {NoFile, <<Head(q).from, kind, s>>}
    BY <1>2, <1>4, Zenon DEF Named
<1> QED
    BY <1>1, <1>5, <1>6, Zenon DEF t

-----------------------------------------------------------------------------
(* Types.                                                                   *)

Shms == [attached : Clients \cup {Nobody}, broken : BOOLEAN, req : Seq(Entries), resp : Seq(Entries)]
ClientStates ==
    [pc : {"idle", "opened", "alive", "attached", "push", "append", "recheck", "bye"},
     session : 0 .. MaxSessions, request : {"new", "pending", "done", "failed"},
     file : Files \cup {NoFile}, popped : Entries \cup {NoEntry}, sent : BOOLEAN]
ServerStates ==
    [pc : {"idle", "resolve", "push", "append", "recheck", "mark", "scan"},
     from : Clients \cup {Nobody}, file : Files \cup {NoFile}]

\* Who is in the middle of something has a session and a client to do it for.
Placed ==
    /\ host \in {0, created}
    /\ \A c \in Clients : /\ cl[c].session <= created
                          /\ cl[c].pc \notin {"idle", "bye"} => cl[c].session # 0
    /\ srv.pc # "idle" => host # 0
    /\ srv.pc \in {"resolve", "push", "append", "recheck"} => srv.from \in Clients
    /\ stop # "idle" => host # 0

Types == TypeOK /\ Placed

\* What the types say of the variables that the steps read.
LEMMA TypesGive ==
    ASSUME Types
    PROVE /\ shm \in [Sessions -> Shms] /\ cl \in [Clients -> ClientStates] /\ srv \in ServerStates
          /\ host \in 0 .. MaxSessions /\ created \in 0 .. MaxSessions /\ MaxSessions \in Nat
          /\ (host # 0 => host \in Sessions)
          /\ \A c \in Clients : cl[c].pc \notin {"idle", "bye"} => cl[c].session \in Sessions
          /\ files \subseteq Files /\ NoFile \notin files
<1>1. shm \in [Sessions -> Shms] /\ cl \in [Clients -> ClientStates] /\ srv \in ServerStates
    BY Zenon DEF Types, TypeOK, Shms, ClientStates, ServerStates
<1>2. host \in 0 .. MaxSessions /\ created \in 0 .. MaxSessions /\ MaxSessions \in Nat
    BY BoundsAssumption, Zenon DEF Types, TypeOK
<1>3. host # 0 => host \in Sessions
    BY <1>2 DEF Sessions
<1>4. \A c \in Clients : cl[c].session \in 0 .. MaxSessions
    BY <1>1, Zenon DEF ClientStates
<1>5. \A c \in Clients : cl[c].pc \notin {"idle", "bye"} => cl[c].session \in Sessions
    BY <1>2, <1>4 DEF Types, Placed, Sessions
<1>6. files \subseteq Files /\ NoFile \notin files
    BY ProcessesAssumption, Zenon DEF Types, TypeOK, Files, NoFile
<1> QED
    BY <1>1, <1>2, <1>3, <1>5, <1>6, Zenon

\* The initial state has its types.
LEMMA InitTypes == Init => Types
<1> SUFFICES ASSUME Init PROVE Types
    BY Zenon
<1>1. shm \in [Sessions -> Shms]
    BY DEF Init, FreshShm, Shms
<1>2. cl \in [Clients -> ClientStates]
    BY BoundsAssumption DEF Init, IdleClient, ClientStates
<1>3. host \in 0 .. MaxSessions /\ created \in 0 .. MaxSessions /\ trouble \in 0 .. MaxTrouble
    BY BoundsAssumption DEF Init
<1>4. srv \in ServerStates
    BY Zenon DEF Init, IdleServer, ServerStates
<1>5. TypeOK
    BY <1>1, <1>2, <1>3, <1>4, Zenon DEF Init, TypeOK, Shms, ClientStates, ServerStates
<1>6. Placed
    BY SMTT(60) DEF Init, Placed, IdleClient, IdleServer
<1> QED
    BY <1>5, <1>6, Zenon DEF Types

\* A client leaves the server and the processes alone.
LEMMA ClientKeeps ==
    ASSUME NEW c, Client(c)
    PROVE UNCHANGED <<live, engine, srv, served>>
    BY Zenon DEF Client, Open, Attach, SetAlive, Prepare, PushCheck, PushRequest, PushRecheck, PopResponse,
        ResolveCompletedRequest, Expire, Close, Bye, processes, history

\* The server leaves the clients and Stop alone.
LEMMA ServerKeeps == Server => UNCHANGED <<host, created, live, engine, trouble, cl, stop, adrift>>
    BY Zenon DEF Server, PopRequest, InvokeHandler, ResponseCheck, PushResponse, ResponseRecheck, MarkSessionBroken,
        RemovePendingFilePayloads, hostVars, processes, history

Stopper == StopBegin \/ StopScan \/ StopEnd

\* Stop leaves the clients and the server's dispatcher alone.
LEMMA StopperKeeps == Stopper => UNCHANGED <<created, live, engine, trouble, cl, srv, adrift, served>>
    BY Zenon DEF Stopper, StopBegin, StopScan, StopEnd, hostVars, processes, history

Fate == (\E c \in Clients : Die(c)) \/ EngineDies \/ EngineStarts

\* Deaths change neither rings nor clients.
LEMMA FateKeeps == Fate => UNCHANGED <<shm, created, cl, served>>
    BY Zenon DEF Fate, Die, EngineDies, EngineStarts, hostVars, history

\* Every step is of a client, the server, Stop or fate.
LEMMA StepIsOf ==
    ASSUME [Next]_vars
    PROVE (\E c \in Clients : Client(c)) \/ Server \/ Stopper \/ Fate \/ UNCHANGED vars
    BY Zenon DEF Next, Stopper, Fate

-----------------------------------------------------------------------------
(* What each action does to the records it changes.                         *)

\* Client c of cl becomes r, or session s of shm becomes m; the others stay.
NewClient(c, r) == r \in ClientStates /\ cl'[c] = r /\ \A d \in Clients : d # c => cl'[d] = cl[d]
NewShm(s, m) == m \in Shms /\ shm'[s] = m /\ \A t \in Sessions : t # s => shm'[t] = shm[t]

\* A new record for one client.
LEMMA ClientUpdate ==
    ASSUME Types, NEW c \in Clients, NEW r \in ClientStates, cl' = [cl EXCEPT ![c] = r]
    PROVE cl' \in [Clients -> ClientStates] /\ NewClient(c, r)
    BY TypesGive, Zenon DEF NewClient

\* A new record for one session.
LEMMA ShmUpdate ==
    ASSUME Types, NEW s \in Sessions, NEW m \in Shms, shm' = [shm EXCEPT ![s] = m]
    PROVE shm' \in [Sessions -> Shms] /\ NewShm(s, m)
    BY TypesGive, Zenon DEF NewShm

\* The rings and the state of every session stay; only who is attached may change.
SameRings ==
    \A s \in Sessions : shm'[s].broken = shm[s].broken /\ shm'[s].req = shm[s].req /\ shm'[s].resp = shm[s].resp

\* An attachment changes no ring.
LEMMA AttachedUpdate ==
    ASSUME Types, NEW s \in Sessions, NEW p \in Clients \cup {Nobody}, shm' = [shm EXCEPT ![s].attached = p]
    PROVE shm' \in [Sessions -> Shms] /\ SameRings
<1>1. shm \in [Sessions -> Shms]
    BY TypesGive, Zenon
<1>2. [shm[s] EXCEPT !.attached = p] \in Shms /\ shm' = [shm EXCEPT ![s] = [shm[s] EXCEPT !.attached = p]]
    BY <1>1, Zenon DEF Shms
<1>3. shm' \in [Sessions -> Shms] /\ NewShm(s, [shm[s] EXCEPT !.attached = p])
    BY <1>2, ShmUpdate, Zenon
<1> QED
    BY <1>1, <1>3, Zenon DEF SameRings, NewShm, Shms

\* A session that is marked, or set alive, keeps the rest of its record.
LEMMA BrokenUpdate ==
    ASSUME Types, NEW s \in Sessions, NEW b \in BOOLEAN, shm' = [shm EXCEPT ![s].broken = b]
    PROVE shm' \in [Sessions -> Shms] /\ NewShm(s, [shm[s] EXCEPT !.broken = b])
<1>1. shm \in [Sessions -> Shms]
    BY TypesGive, Zenon
<1>2. [shm[s] EXCEPT !.broken = b] \in Shms /\ shm' = [shm EXCEPT ![s] = [shm[s] EXCEPT !.broken = b]]
    BY <1>1, Zenon DEF Shms
<1> QED
    BY <1>2, ShmUpdate, Zenon

\* What OpenSession changes.
LEMMA OpenStep ==
    ASSUME Types, NEW c \in Clients, Open(c)
    PROVE /\ UNCHANGED shm /\ cl' \in [Clients -> ClientStates]
          /\ NewClient(c, [cl[c] EXCEPT !.session = host', !.pc = "opened"])
          /\ host' \in Sessions /\ created' \in 0 .. MaxSessions /\ cl[c].pc = "idle"
          /\ \/ host # 0 /\ UNCHANGED <<host, created>>
             \/ host = 0 /\ created' = created + 1 /\ host' = created'
          /\ UNCHANGED <<live, engine, trouble, srv, stop, files, adrift, served>> /\ stop = "idle"
<1>0. /\ host \in 0 .. MaxSessions /\ created \in 0 .. MaxSessions /\ MaxSessions \in Nat
      /\ \/ host # 0 /\ host' = host /\ created' = created
         \/ created < MaxSessions /\ host' = created + 1 /\ created' = created + 1
    BY TypesGive, Zenon DEF Open, hostVars
<1>1. host' \in Sessions /\ created' \in 0 .. MaxSessions
    BY <1>0 DEF Sessions
<1> DEFINE r == [cl[c] EXCEPT !.session = host', !.pc = "opened"]
<1>2. cl[c] \in ClientStates /\ host' \in 0 .. MaxSessions /\ cl' = [cl EXCEPT ![c] = r]
    BY <1>0, <1>1, TypesGive, Zenon DEF Open, Sessions
<1>5. r \in ClientStates
    BY <1>2, Zenon DEF ClientStates
<1> HIDE DEF r
<1>3. cl' \in [Clients -> ClientStates] /\ NewClient(c, r)
    BY <1>2, <1>5, ClientUpdate, Zenon
<1>4. /\ UNCHANGED <<shm, live, engine, trouble, srv, stop, files, adrift, served>>
      /\ stop = "idle" /\ cl[c].pc = "idle"
      /\ \/ host # 0 /\ UNCHANGED <<host, created>>
         \/ host = 0 /\ created' = created + 1 /\ host' = created'
    BY Zenon DEF Open, hostVars, processes, history, At
<1> QED
    BY <1>1, <1>3, <1>4, Zenon DEF r

\* What Session::Attach changes.
LEMMA AttachStep ==
    ASSUME Types, NEW c \in Clients, Attach(c)
    PROVE /\ shm' \in [Sessions -> Shms] /\ cl' \in [Clients -> ClientStates]
          /\ SameRings
          /\ \/ NewClient(c, [cl[c] EXCEPT !.pc = "alive"])
             \/ NewClient(c, [cl[c] EXCEPT !.session = 0, !.pc = "idle", !.request = "failed"])
          /\ cl[c].pc = "opened"
          /\ UNCHANGED <<host, created, live, engine, trouble, srv, stop, files, adrift, served>>
<1> DEFINE s == cl[c].session
<1>0. s \in Sessions /\ cl[c].pc = "opened" /\ cl[c] \in ClientStates /\ MaxSessions \in Nat
    BY TypesGive, Zenon DEF Attach, At
<1>1. UNCHANGED <<host, created, live, engine, trouble, srv, stop, files, adrift, served>>
    BY Zenon DEF Attach, hostVars, processes, history
<1>2. CASE shm' = [shm EXCEPT ![s].attached = c] /\ Goto(c, "alive")
    <2>1. shm' \in [Sessions -> Shms] /\ SameRings
        BY <1>0, <1>2, AttachedUpdate, Zenon
    <2>2. [cl[c] EXCEPT !.pc = "alive"] \in ClientStates /\ cl' = [cl EXCEPT ![c] = [cl[c] EXCEPT !.pc = "alive"]]
        BY <1>0, <1>2, TypesGive, Zenon DEF ClientStates, Goto
    <2>3. cl' \in [Clients -> ClientStates] /\ NewClient(c, [cl[c] EXCEPT !.pc = "alive"])
        BY <2>2, ClientUpdate, Zenon
    <2> QED
        BY <1>0, <1>1, <2>1, <2>3, Zenon
<1>3. CASE cl' = [cl EXCEPT ![c] = [@ EXCEPT !.session = 0, !.pc = "idle", !.request = "failed"]] /\ UNCHANGED shm
    <2> DEFINE r == [cl[c] EXCEPT !.session = 0, !.pc = "idle", !.request = "failed"]
    <2>0. 0 \in 0 .. MaxSessions
        BY <1>0
    <2>1. r \in ClientStates /\ cl' = [cl EXCEPT ![c] = r]
        BY <1>0, <1>3, <2>0, Zenon DEF ClientStates
    <2> HIDE DEF r
    <2>2. cl' \in [Clients -> ClientStates] /\ NewClient(c, r)
        BY <2>1, ClientUpdate, Zenon
    <2>3. shm' \in [Sessions -> Shms] /\ SameRings
        BY <1>3, TypesGive, Zenon DEF SameRings
    <2>4. NewClient(c, [cl[c] EXCEPT !.session = 0, !.pc = "idle", !.request = "failed"])
        BY <2>2, Zenon DEF r
    <2> QED
        BY <1>0, <1>1, <2>2, <2>3, <2>4, Zenon
<1> QED
    BY <1>2, <1>3, Zenon DEF Attach

\* What SetState(Alive) after an attach changes.
LEMMA SetAliveStep ==
    ASSUME Types, NEW c \in Clients, SetAlive(c)
    PROVE LET s == cl[c].session IN
          /\ s \in Sessions /\ shm' \in [Sessions -> Shms] /\ cl' \in [Clients -> ClientStates]
          /\ NewShm(s, [shm[s] EXCEPT !.broken = FALSE])
          /\ NewClient(c, [cl[c] EXCEPT !.pc = "attached"])
          /\ cl[c].pc = "alive"
          /\ adrift' = IF shm[s].broken THEN adrift \cup {s} ELSE adrift
          /\ UNCHANGED <<host, created, live, engine, trouble, srv, stop, files, served>>
<1> DEFINE s == cl[c].session
           r == [cl[c] EXCEPT !.pc = "attached"]
<1>0. s \in Sessions /\ cl[c].pc = "alive" /\ cl[c] \in ClientStates /\ shm[s] \in Shms
    BY TypesGive, Zenon DEF SetAlive, At
<1>1. shm' \in [Sessions -> Shms] /\ NewShm(s, [shm[s] EXCEPT !.broken = FALSE])
    BY <1>0, BrokenUpdate, Zenon DEF SetAlive
<1>2. r \in ClientStates /\ cl' = [cl EXCEPT ![c] = r]
    BY <1>0, TypesGive, Zenon DEF ClientStates, SetAlive, Goto
<1> HIDE DEF r
<1>4. cl' \in [Clients -> ClientStates] /\ NewClient(c, r)
    BY <1>2, ClientUpdate, Zenon
<1>5. /\ adrift' = IF shm[s].broken THEN adrift \cup {s} ELSE adrift
      /\ UNCHANGED <<host, created, live, engine, trouble, srv, stop, files, served>>
    BY Zenon DEF SetAlive, hostVars, processes, history
<1> QED
    BY <1>0, <1>1, <1>4, <1>5, Zenon DEF r

\* The name of the file of a payload, if it has one.
LEMMA TransportFileIs ==
    ASSUME NEW c \in Clients, NEW big, NEW kind \in {"request", "reply"}, NEW s \in Sessions
    PROVE TransportFile(c, big, kind, s) \in Files \cup {NoFile} /\ TransportFile(c, big, kind, s) \in {NoFile, <<c, kind, s>>}
    BY Zenon DEF TransportFile, Files

\* Writing a payload adds its file to the directory and nothing else.
LEMMA WriteFileIs ==
    ASSUME NEW f \in Files \cup {NoFile}, NEW dir \in SUBSET Files
    PROVE WriteFile(f, dir) \in SUBSET Files /\ \A g \in WriteFile(f, dir) : g \in dir \/ g = f
    BY Zenon DEF WriteFile

\* What the preparation of a request changes: its file is written.
LEMMA PrepareStep ==
    ASSUME Types, NEW c \in Clients, Prepare(c)
    PROVE LET f == TransportFile(c, BigRequests, "request", cl[c].session) IN
          /\ cl[c].session \in Sessions /\ cl' \in [Clients -> ClientStates] /\ UNCHANGED shm
          /\ NewClient(c, [cl[c] EXCEPT !.file = f, !.sent = TRUE, !.pc = "push"])
          /\ f \in {NoFile, <<c, "request", cl[c].session>>}
          /\ files' \in SUBSET Files /\ \A g \in files' : g \in files \/ g = f
          /\ cl[c].pc = "attached" /\ trouble' \in 0 .. MaxTrouble
          /\ UNCHANGED <<host, created, live, engine, srv, stop, adrift, served>>
<1> DEFINE f == TransportFile(c, BigRequests, "request", cl[c].session)
           r == [cl[c] EXCEPT !.file = f, !.sent = TRUE, !.pc = "push"]
<1>1. cl[c] \in ClientStates /\ cl[c].pc = "attached" /\ cl[c].session \in Sessions
    BY TypesGive, Zenon DEF Prepare, At
<1>2. f \in Files \cup {NoFile} /\ f \in {NoFile, <<c, "request", cl[c].session>>}
    BY <1>1, TransportFileIs, Zenon
<1>3. files' = WriteFile(f, files) /\ cl' = [cl EXCEPT ![c] = r]
    BY Zenon DEF Prepare
<1>4. UNCHANGED <<shm, host, created, live, engine, srv, stop, adrift, served>>
    BY Zenon DEF Prepare, hostVars, history
<1>5. trouble' \in 0 .. MaxTrouble
    <2>1. trouble \in 0 .. MaxTrouble /\ MaxTrouble \in Nat
        BY BoundsAssumption, Zenon DEF Types, TypeOK
    <2>2. trouble' = trouble \/ (trouble' = trouble + 1 /\ trouble < MaxTrouble)
        BY Zenon DEF Prepare, MaySend
    <2> QED
        BY <2>1, <2>2
<1> HIDE DEF f
<1>6. r \in ClientStates
    BY <1>1, <1>2, Zenon DEF ClientStates
<1> HIDE DEF r
<1>7. cl' \in [Clients -> ClientStates] /\ NewClient(c, r)
    BY <1>3, <1>6, ClientUpdate, Zenon
<1>8. files' \in SUBSET Files /\ \A g \in files' : g \in files \/ g = f
    BY <1>2, <1>3, WriteFileIs, TypesGive, Zenon
<1> QED
    BY <1>1, <1>2, <1>4, <1>5, <1>7, <1>8, Zenon DEF f, r

\* The push is given up, or it is not and the client gets the record r.
LEMMA PushStep ==
    ASSUME Types, NEW c \in Clients, NEW r \in ClientStates, cl[c].pc \in {"push", "recheck"},
           \/ shm[cl[c].session].broken /\ PushFailed(c)
           \/ ~shm[cl[c].session].broken /\ cl' = [cl EXCEPT ![c] = r] /\ UNCHANGED <<shm, files>>
    PROVE LET out == [cl[c] EXCEPT !.request = "new", !.file = NoFile, !.session = 0, !.pc = "bye"] IN
          /\ shm' \in [Sessions -> Shms] /\ cl' \in [Clients -> ClientStates] /\ SameRings /\ files' \subseteq files
          /\ \/ shm[cl[c].session].broken /\ NewClient(c, out) /\ files' = files \ {cl[c].file}
             \/ ~shm[cl[c].session].broken /\ NewClient(c, r) /\ files' = files
<1> DEFINE out == [cl[c] EXCEPT !.request = "new", !.file = NoFile, !.session = 0, !.pc = "bye"]
<1>1. cl[c] \in ClientStates /\ cl[c].session \in Sessions /\ MaxSessions \in Nat /\ shm \in [Sessions -> Shms]
    BY TypesGive, Zenon
<1>2. 0 \in 0 .. MaxSessions
    BY <1>1
<1>3. out \in ClientStates
    BY <1>1, <1>2, Zenon DEF ClientStates
<1>4. CASE shm[cl[c].session].broken /\ PushFailed(c)
    <2>1. cl' = [cl EXCEPT ![c] = out] /\ files' = files \ {cl[c].file}
          /\ shm' = [shm EXCEPT ![cl[c].session].attached = Nobody]
        BY <1>4, Zenon DEF PushFailed, Unlink
    <2> HIDE DEF out
    <2>2. cl' \in [Clients -> ClientStates] /\ NewClient(c, out)
        BY <1>3, <2>1, ClientUpdate, Zenon
    <2>3. shm' \in [Sessions -> Shms] /\ SameRings
        BY <1>1, <2>1, AttachedUpdate, Zenon
    <2> QED
        BY <1>4, <2>1, <2>2, <2>3, Zenon DEF out
<1>5. CASE ~shm[cl[c].session].broken /\ cl' = [cl EXCEPT ![c] = r] /\ UNCHANGED <<shm, files>>
    <2>1. cl' \in [Clients -> ClientStates] /\ NewClient(c, r)
        BY <1>5, ClientUpdate, Zenon
    <2>2. shm' \in [Sessions -> Shms] /\ SameRings
        BY <1>1, <1>5, Zenon DEF SameRings
    <2> QED
        BY <1>5, <2>1, <2>2, Zenon
<1> QED
    BY <1>4, <1>5, Zenon

GivenUp(c) == [cl[c] EXCEPT !.request = "new", !.file = NoFile, !.session = 0, !.pc = "bye"]

\* What the first test of a push changes: the file is removed if the push is given up.
LEMMA PushCheckStep ==
    ASSUME Types, NEW c \in Clients, PushCheck(c)
    PROVE /\ shm' \in [Sessions -> Shms] /\ cl' \in [Clients -> ClientStates] /\ SameRings /\ cl[c].pc = "push"
          /\ \/ NewClient(c, GivenUp(c)) /\ files' = files \ {cl[c].file}
             \/ NewClient(c, [cl[c] EXCEPT !.request = "pending", !.pc = "append"]) /\ files' = files
          /\ UNCHANGED <<host, created, live, engine, trouble, srv, stop, adrift, served>>
<1> DEFINE r == [cl[c] EXCEPT !.request = "pending", !.pc = "append"]
<1>1. cl[c] \in ClientStates /\ cl[c].pc = "push"
    BY TypesGive, Zenon DEF PushCheck, At
<1>2. r \in ClientStates
    BY <1>1, Zenon DEF ClientStates
<1>3. \/ shm[cl[c].session].broken /\ PushFailed(c)
      \/ ~shm[cl[c].session].broken /\ cl' = [cl EXCEPT ![c] = r] /\ UNCHANGED <<shm, files>>
    BY Zenon DEF PushCheck
<1>4. UNCHANGED <<host, created, live, engine, trouble, srv, stop, adrift, served>>
    BY Zenon DEF PushCheck, hostVars, processes, history
<1> HIDE DEF r
<1> QED
    BY <1>1, <1>2, <1>3, <1>4, PushStep, Zenon DEF GivenUp, r

\* What the second test of a push changes.
LEMMA PushRecheckStep ==
    ASSUME Types, NEW c \in Clients, PushRecheck(c)
    PROVE /\ shm' \in [Sessions -> Shms] /\ cl' \in [Clients -> ClientStates] /\ SameRings /\ cl[c].pc = "recheck"
          /\ \/ NewClient(c, GivenUp(c)) /\ files' = files \ {cl[c].file}
             \/ /\ NewClient(c, [cl[c] EXCEPT !.file = NoFile, !.pc = "attached"]) /\ files' = files
                /\ ~shm[cl[c].session].broken
          /\ UNCHANGED <<host, created, live, engine, trouble, srv, stop, adrift, served>>
<1> DEFINE r == [cl[c] EXCEPT !.file = NoFile, !.pc = "attached"]
<1>1. cl[c] \in ClientStates /\ cl[c].pc = "recheck"
    BY TypesGive, Zenon DEF PushRecheck, At
<1>2. r \in ClientStates
    BY <1>1, Zenon DEF ClientStates
<1>3. \/ shm[cl[c].session].broken /\ PushFailed(c)
      \/ ~shm[cl[c].session].broken /\ cl' = [cl EXCEPT ![c] = r] /\ UNCHANGED <<shm, files>>
    BY Zenon DEF PushRecheck
<1>4. UNCHANGED <<host, created, live, engine, trouble, srv, stop, adrift, served>>
    BY Zenon DEF PushRecheck, hostVars, processes, history
<1> HIDE DEF r
<1> QED
    BY <1>1, <1>2, <1>3, <1>4, PushStep, Zenon DEF GivenUp, r

\* What publishing the request entry changes.
LEMMA PushRequestStep ==
    ASSUME Types, NEW c \in Clients, PushRequest(c)
    PROVE LET s == cl[c].session
              e == [from |-> c, file |-> cl[c].file] IN
          /\ shm' \in [Sessions -> Shms] /\ cl' \in [Clients -> ClientStates] /\ s \in Sessions /\ e \in Entries
          /\ NewShm(s, [shm[s] EXCEPT !.req = Append(shm[s].req, e)])
          /\ NewClient(c, [cl[c] EXCEPT !.pc = "recheck"]) /\ cl[c].pc = "append"
          /\ UNCHANGED <<host, created, live, engine, trouble, srv, stop, files, adrift, served>>
<1> DEFINE s == cl[c].session
           e == [from |-> c, file |-> cl[c].file]
           q == Append(shm[s].req, e)
           r == [cl[c] EXCEPT !.pc = "recheck"]
<1>1. cl[c] \in ClientStates /\ cl[c].pc = "append" /\ s \in Sessions /\ shm[s] \in Shms
    BY TypesGive, Zenon DEF PushRequest, At
<1>2. e \in Entries /\ shm[s].req \in Seq(Entries)
    BY <1>1, Zenon DEF Entries, ClientStates, Shms
<1>3. shm' = [shm EXCEPT ![s] = [shm[s] EXCEPT !.req = q]] /\ cl' = [cl EXCEPT ![c] = r]
    BY <1>1, TypesGive, Zenon DEF PushRequest, Goto
<1>4. UNCHANGED <<host, created, live, engine, trouble, srv, stop, files, adrift, served>>
    BY Zenon DEF PushRequest, hostVars, processes, history
<1> HIDE DEF e
<1>5. q \in Seq(Entries)
    BY <1>2
<1> HIDE DEF q
<1>6. [shm[s] EXCEPT !.req = q] \in Shms
    BY <1>1, <1>5, Zenon DEF Shms
<1>7. shm' \in [Sessions -> Shms] /\ NewShm(s, [shm[s] EXCEPT !.req = q])
    BY <1>1, <1>3, <1>6, ShmUpdate, Zenon
<1>8. r \in ClientStates
    BY <1>1, Zenon DEF ClientStates
<1> HIDE DEF r
<1>9. cl' \in [Clients -> ClientStates] /\ NewClient(c, r)
    BY <1>3, <1>8, ClientUpdate, Zenon
<1> QED
    BY <1>1, <1>2, <1>4, <1>7, <1>9, Zenon DEF q, e, r

\* What the pop of a response changes.
LEMMA PopResponseStep ==
    ASSUME Types, NEW c \in Clients, PopResponse(c)
    PROVE LET s == cl[c].session IN
          /\ shm' \in [Sessions -> Shms] /\ cl' \in [Clients -> ClientStates] /\ s \in Sessions
          /\ shm[s].resp \in Seq(Entries) /\ shm[s].resp # <<>>
          /\ NewShm(s, [shm[s] EXCEPT !.resp = Tail(shm[s].resp)])
          /\ NewClient(c, [cl[c] EXCEPT !.popped = Head(shm[s].resp)])
          /\ cl[c].pc = "attached" /\ cl[c].popped = NoEntry /\ ~shm[s].broken
          /\ UNCHANGED <<host, created, live, engine, trouble, srv, stop, files, adrift, served>>
<1> DEFINE s == cl[c].session
           q == Tail(shm[s].resp)
           e == Head(shm[s].resp)
           r == [cl[c] EXCEPT !.popped = e]
<1>1. cl[c] \in ClientStates /\ cl[c].pc = "attached" /\ s \in Sessions /\ shm[s] \in Shms
    BY TypesGive, Zenon DEF PopResponse, At
<1>2. cl[c].popped = NoEntry /\ ~shm[s].broken /\ shm[s].resp # <<>>
    BY Zenon DEF PopResponse
<1>3. shm' = [shm EXCEPT ![s] = [shm[s] EXCEPT !.resp = q]] /\ cl' = [cl EXCEPT ![c] = r]
    BY <1>1, TypesGive, Zenon DEF PopResponse
<1>4. UNCHANGED <<host, created, live, engine, trouble, srv, stop, files, adrift, served>>
    BY Zenon DEF PopResponse, hostVars, processes, history
<1>5. shm[s].resp \in Seq(Entries)
    BY <1>1, Zenon DEF Shms
<1>6. q \in Seq(Entries) /\ e \in Entries
    BY <1>2, <1>5, FilesOfTail, Zenon
<1> HIDE DEF q, e
<1>7. [shm[s] EXCEPT !.resp = q] \in Shms
    BY <1>1, <1>6, Zenon DEF Shms
<1>8. shm' \in [Sessions -> Shms] /\ NewShm(s, [shm[s] EXCEPT !.resp = q])
    BY <1>1, <1>3, <1>7, ShmUpdate, Zenon
<1>9. r \in ClientStates
    BY <1>1, <1>6, Zenon DEF ClientStates
<1> HIDE DEF r
<1>10. cl' \in [Clients -> ClientStates] /\ NewClient(c, r)
    BY <1>3, <1>9, ClientUpdate, Zenon
<1> QED
    BY <1>1, <1>2, <1>4, <1>5, <1>8, <1>10, Zenon DEF q, e, r

\* What resolving a response changes: its file has been read and is removed.
LEMMA ResolveStep ==
    ASSUME Types, NEW c \in Clients, ResolveCompletedRequest(c)
    PROVE /\ UNCHANGED shm /\ cl' \in [Clients -> ClientStates]
          /\ \/ NewClient(c, [cl[c] EXCEPT !.popped = NoEntry])
             \/ NewClient(c, [cl[c] EXCEPT !.popped = NoEntry, !.request = "done"])
          /\ files' = files \ {cl[c].popped.file}
          /\ UNCHANGED <<host, created, live, engine, trouble, srv, stop, adrift, served>>
<1> DEFINE r1 == [cl[c] EXCEPT !.popped = NoEntry]
           r2 == [cl[c] EXCEPT !.popped = NoEntry, !.request = "done"]
<1>1. cl[c] \in ClientStates /\ cl \in [Clients -> ClientStates]
    BY TypesGive, Zenon
<1>2. r1 \in ClientStates /\ r2 \in ClientStates
    BY <1>1, Zenon DEF ClientStates
<1>3. /\ UNCHANGED <<shm, host, created, live, engine, trouble, srv, stop, adrift, served>>
      /\ files' = files \ {cl[c].popped.file}
    BY Zenon DEF ResolveCompletedRequest, LateReply, Unlink, ReadAndRemove, hostVars, processes, history
<1>4. cl' = [cl EXCEPT ![c] = r1] \/ cl' = [cl EXCEPT ![c] = r2]
    BY <1>1, Zenon DEF ResolveCompletedRequest, LateReply
<1> HIDE DEF r1, r2
<1>5. cl' \in [Clients -> ClientStates] /\ (NewClient(c, r1) \/ NewClient(c, r2))
    BY <1>2, <1>4, ClientUpdate, Zenon
<1> QED
    BY <1>3, <1>5, Zenon DEF r1, r2

\* What a timeout changes.
LEMMA ExpireStep ==
    ASSUME Types, NEW c \in Clients, Expire(c)
    PROVE /\ UNCHANGED shm /\ cl' \in [Clients -> ClientStates]
          /\ NewClient(c, [cl[c] EXCEPT !.request = "failed"])
          /\ UNCHANGED <<host, created, live, engine, trouble, srv, stop, files, adrift, served>>
<1> DEFINE r == [cl[c] EXCEPT !.request = "failed"]
<1>1. cl[c] \in ClientStates /\ cl \in [Clients -> ClientStates]
    BY TypesGive, Zenon
<1>2. r \in ClientStates
    BY <1>1, Zenon DEF ClientStates
<1>3. cl' = [cl EXCEPT ![c] = r]
    BY <1>1, Zenon DEF Expire
<1>4. UNCHANGED <<shm, host, created, live, engine, trouble, srv, stop, files, adrift, served>>
    BY Zenon DEF Expire, hostVars, processes, history
<1> HIDE DEF r
<1>5. cl' \in [Clients -> ClientStates] /\ NewClient(c, r)
    BY <1>2, <1>3, ClientUpdate, Zenon
<1> QED
    BY <1>4, <1>5, Zenon DEF r

\* What closing the session at the client changes.
LEMMA CloseStep ==
    ASSUME Types, NEW c \in Clients, Close(c)
    PROVE /\ shm' \in [Sessions -> Shms] /\ cl' \in [Clients -> ClientStates] /\ SameRings /\ cl[c].pc = "attached"
          /\ \E q \in {"new", "pending", "done", "failed"} :
                NewClient(c, [cl[c] EXCEPT !.session = 0, !.pc = "bye", !.request = q])
          /\ UNCHANGED <<host, created, live, engine, trouble, srv, stop, files, adrift, served>>
<1> DEFINE q == IF cl[c].request = "pending" THEN "failed" ELSE cl[c].request
           r == [cl[c] EXCEPT !.session = 0, !.pc = "bye", !.request = q]
<1>1. cl[c] \in ClientStates /\ cl[c].pc = "attached" /\ cl[c].session \in Sessions /\ MaxSessions \in Nat
    BY TypesGive, Zenon DEF Close, At
<1>2. 0 \in 0 .. MaxSessions /\ q \in {"new", "pending", "done", "failed"}
    BY <1>1 DEF ClientStates
<1>3. cl' = [cl EXCEPT ![c] = r] /\ shm' = [shm EXCEPT ![cl[c].session].attached = Nobody]
    BY Zenon DEF Close
<1>4. UNCHANGED <<host, created, live, engine, trouble, srv, stop, files, adrift, served>>
    BY Zenon DEF Close, hostVars, processes, history
<1> HIDE DEF q
<1>5. r \in ClientStates
    BY <1>1, <1>2, Zenon DEF ClientStates
<1> HIDE DEF r
<1>6. cl' \in [Clients -> ClientStates] /\ NewClient(c, r)
    BY <1>3, <1>5, ClientUpdate, Zenon
<1>7. shm' \in [Sessions -> Shms] /\ SameRings
    BY <1>1, <1>3, AttachedUpdate, Zenon
<1> QED
    BY <1>1, <1>2, <1>4, <1>6, <1>7, Zenon DEF r

\* What CloseSession of the control channel changes.
LEMMA ByeStep ==
    ASSUME Types, NEW c \in Clients, Bye(c)
    PROVE /\ shm' \in [Sessions -> Shms] /\ cl' \in [Clients -> ClientStates]
          /\ \/ UNCHANGED <<shm, stop>>
             \/ /\ host \in Sessions /\ NewShm(host, [shm[host] EXCEPT !.broken = TRUE])
                /\ stop = "idle" /\ stop' = "scan"
          /\ NewClient(c, [cl[c] EXCEPT !.pc = "idle"]) /\ cl[c].pc = "bye"
          /\ UNCHANGED <<host, created, live, engine, trouble, srv, files, adrift, served>>
<1> DEFINE r == [cl[c] EXCEPT !.pc = "idle"]
<1>1. cl[c] \in ClientStates /\ cl[c].pc = "bye" /\ shm \in [Sessions -> Shms]
    BY TypesGive, Zenon DEF Bye, At
<1>2. r \in ClientStates
    BY <1>1, Zenon DEF ClientStates
<1>3. cl' = [cl EXCEPT ![c] = r]
    BY <1>1, TypesGive, Zenon DEF Bye, Goto
<1>4. UNCHANGED <<host, created, live, engine, trouble, srv, files, adrift, served>>
    BY Zenon DEF Bye, hostVars, processes, history
<1>5. \/ UNCHANGED <<shm, stop>>
      \/ host # 0 /\ stop = "idle" /\ stop' = "scan" /\ shm' = [shm EXCEPT ![host].broken = TRUE]
    BY Zenon DEF Bye
<1>6. CASE host # 0 /\ stop = "idle" /\ stop' = "scan" /\ shm' = [shm EXCEPT ![host].broken = TRUE]
    <2>1. host \in Sessions
        BY <1>6, TypesGive, Zenon
    <2> QED
        BY <1>6, <2>1, BrokenUpdate, ClientUpdate, <1>1, <1>2, <1>3, <1>4, Zenon
<1>7. CASE UNCHANGED <<shm, stop>>
    BY <1>1, <1>2, <1>3, <1>4, <1>7, ClientUpdate, Zenon
<1> QED
    BY <1>5, <1>6, <1>7, Zenon

\* What the pop of a request changes.
LEMMA PopRequestStep ==
    ASSUME Types, PopRequest
    PROVE /\ shm' \in [Sessions -> Shms] /\ srv' \in ServerStates /\ host \in Sessions
          /\ shm[host].req \in Seq(Entries) /\ shm[host].req # <<>>
          /\ NewShm(host, [shm[host] EXCEPT !.req = Tail(shm[host].req)])
          /\ srv.pc = "idle" /\ srv'.pc = "resolve" /\ srv'.from \in Clients
          /\ srv'.from = Head(shm[host].req).from /\ srv'.file = Head(shm[host].req).file
          /\ ~shm[host].broken
          /\ UNCHANGED <<host, created, live, engine, trouble, cl, stop, files, adrift, served>>
<1> DEFINE q == Tail(shm[host].req)
           e == Head(shm[host].req)
<1>1. host \in Sessions /\ shm[host] \in Shms
    BY TypesGive, Zenon DEF PopRequest, SrvAt
<1>2. srv.pc = "idle" /\ ~shm[host].broken /\ shm[host].req # <<>>
    BY Zenon DEF PopRequest, SrvAt
<1>3. /\ shm' = [shm EXCEPT ![host] = [shm[host] EXCEPT !.req = q]]
      /\ srv' = [pc |-> "resolve", from |-> e.from, file |-> e.file]
    BY <1>1, TypesGive, Zenon DEF PopRequest
<1>4. UNCHANGED <<host, created, live, engine, trouble, cl, stop, files, adrift, served>>
    BY Zenon DEF PopRequest, hostVars, processes, history
<1>5. shm[host].req \in Seq(Entries)
    BY <1>1, Zenon DEF Shms
<1>6. q \in Seq(Entries) /\ e \in Entries
    BY <1>2, <1>5, FilesOfTail, Zenon
<1> HIDE DEF q, e
<1>7. [shm[host] EXCEPT !.req = q] \in Shms
    BY <1>1, <1>6, Zenon DEF Shms
<1>8. shm' \in [Sessions -> Shms] /\ NewShm(host, [shm[host] EXCEPT !.req = q])
    BY <1>1, <1>3, <1>7, ShmUpdate, Zenon
<1>9. srv' \in ServerStates /\ srv'.from \in Clients /\ srv'.pc = "resolve" /\ srv'.from = e.from /\ srv'.file = e.file
    BY <1>3, <1>6, Zenon DEF Entries, ServerStates
<1> QED
    BY <1>1, <1>2, <1>4, <1>5, <1>8, <1>9, Zenon DEF q, e

\* What the handler changes: the file of the request goes, that of the reply comes.
LEMMA InvokeHandlerStep ==
    ASSUME Types, InvokeHandler
    PROVE /\ srv' \in ServerStates /\ host \in Sessions /\ srv.pc = "resolve" /\ srv'.pc = "push"
          /\ srv'.from = srv.from /\ srv.from \in Clients
          /\ srv'.file \in {NoFile, <<srv.from, "reply", host>>}
          /\ files' \in SUBSET Files
          /\ \A g \in files' : g = srv'.file \/ (g \in files /\ (g = srv.file => srv.from \in Unhandled))
          /\ UNCHANGED <<shm, host, created, live, engine, trouble, cl, stop, adrift>> /\ served' \in SUBSET Clients
<1> DEFINE f == TransportFile(srv.from, BigReplies, "reply", host)
<1>1. host \in Sessions /\ srv \in ServerStates /\ srv.pc = "resolve" /\ files \in SUBSET Files
    BY TypesGive, Zenon DEF InvokeHandler, SrvAt
<1>2. srv.from \in Clients /\ served \in SUBSET Clients
    BY <1>1, Zenon DEF Types, Placed, TypeOK
<1>3. f \in Files \cup {NoFile} /\ f \in {NoFile, <<srv.from, "reply", host>>}
    BY <1>1, <1>2, TransportFileIs, Zenon
<1>4. UNCHANGED <<shm, host, created, live, engine, trouble, cl, stop, adrift>>
    BY Zenon DEF InvokeHandler, hostVars, processes
<1> HIDE DEF f
<1>5. CASE NoHandler /\ srv' = [srv EXCEPT !.pc = "push", !.file = NoFile]
    <2>1. srv' \in ServerStates /\ srv'.pc = "push" /\ srv'.file = NoFile /\ srv'.from = srv.from
        BY <1>1, <1>5, Zenon DEF ServerStates
    <2>2. srv.from \in Unhandled /\ files' = files /\ served' = served
        BY <1>5, Zenon DEF NoHandler
    <2> QED
        BY <1>1, <1>2, <1>4, <2>1, <2>2, Zenon
<1>6. CASE Mismatch /\ srv' = [srv EXCEPT !.pc = "push", !.file = NoFile]
    <2>1. srv' \in ServerStates /\ srv'.pc = "push" /\ srv'.file = NoFile /\ srv'.from = srv.from
        BY <1>1, <1>6, Zenon DEF ServerStates
    <2>2. srv.file \notin files /\ files' = files /\ served' = served
        BY <1>6, Zenon DEF Mismatch, Readable
    <2> QED
        BY <1>1, <1>2, <1>4, <2>1, <2>2, Zenon
<1>7. CASE Handled(f) /\ srv' = [srv EXCEPT !.pc = "push", !.file = f]
    <2>1. srv' \in ServerStates /\ srv'.pc = "push" /\ srv'.file = f /\ srv'.from = srv.from
        BY <1>1, <1>3, <1>7, Zenon DEF ServerStates
    <2>2. files' = WriteFile(f, files \ {srv.file}) /\ served' = served \cup {srv.from}
        BY <1>7, Zenon DEF Handled, ReadAndRemove
    <2>3. files' \in SUBSET Files /\ \A g \in files' : g \in files \ {srv.file} \/ g = f
        BY <1>1, <1>3, <2>2, WriteFileIs, Zenon
    <2> QED
        BY <1>1, <1>2, <1>3, <1>4, <2>1, <2>2, <2>3, Zenon
<1> QED
    BY <1>5, <1>6, <1>7, Zenon DEF InvokeHandler, f

\* What giving a response up changes.
LEMMA ReplyFailedStep ==
    ASSUME Types, ReplyFailed
    PROVE srv' \in ServerStates /\ srv'.pc = "mark" /\ srv'.file = NoFile /\ files' = files \ {srv.file}
    BY Zenon DEF ReplyFailed, Unlink, IdleServer, ServerStates

\* What the first test of a response push changes.
LEMMA ResponseCheckStep ==
    ASSUME Types, ResponseCheck
    PROVE /\ srv' \in ServerStates /\ srv.pc = "push" /\ host \in Sessions
          /\ \/ srv'.pc = "mark" /\ srv'.file = NoFile /\ files' = files \ {srv.file}
             \/ srv'.pc = "append" /\ srv'.file = srv.file /\ srv'.from = srv.from /\ files' = files
          /\ UNCHANGED <<shm, host, created, live, engine, trouble, cl, stop, adrift, served>>
<1>1. host \in Sessions /\ srv.pc = "push" /\ srv \in ServerStates
    BY TypesGive, Zenon DEF ResponseCheck, SrvAt
<1>2. UNCHANGED <<shm, host, created, live, engine, trouble, cl, stop, adrift, served>>
    BY Zenon DEF ResponseCheck, hostVars, processes, history
<1>3. CASE ReplyFailed
    BY <1>1, <1>2, <1>3, ReplyFailedStep, Zenon
<1>4. CASE SrvGoto("append") /\ UNCHANGED files
    BY <1>1, <1>2, <1>4, Zenon DEF SrvGoto, ServerStates
<1> QED
    BY <1>3, <1>4, Zenon DEF ResponseCheck

\* What publishing the response entry changes.
LEMMA PushResponseStep ==
    ASSUME Types, PushResponse
    PROVE LET e == [from |-> srv.from, file |-> srv.file] IN
          /\ shm' \in [Sessions -> Shms] /\ srv' \in ServerStates /\ host \in Sessions /\ e \in Entries
          /\ NewShm(host, [shm[host] EXCEPT !.resp = Append(shm[host].resp, e)])
          /\ srv.pc = "append" /\ srv'.pc = "recheck" /\ srv'.from = srv.from /\ srv'.file = srv.file
          /\ UNCHANGED <<host, created, live, engine, trouble, cl, stop, files, adrift, served>>
<1> DEFINE e == [from |-> srv.from, file |-> srv.file]
           q == Append(shm[host].resp, e)
<1>1. host \in Sessions /\ srv \in ServerStates /\ srv.pc = "append" /\ shm[host] \in Shms
    BY TypesGive, Zenon DEF PushResponse, SrvAt
<1>2. srv.from \in Clients
    BY <1>1, Zenon DEF Types, Placed
<1>3. e \in Entries /\ shm[host].resp \in Seq(Entries)
    BY <1>1, <1>2, Zenon DEF Entries, ServerStates, Shms
<1>4. shm' = [shm EXCEPT ![host] = [shm[host] EXCEPT !.resp = q]] /\ srv' = [srv EXCEPT !.pc = "recheck"]
    BY <1>1, TypesGive, Zenon DEF PushResponse, SrvGoto
<1>5. UNCHANGED <<host, created, live, engine, trouble, cl, stop, files, adrift, served>>
    BY Zenon DEF PushResponse, hostVars, processes, history
<1> HIDE DEF e
<1>6. q \in Seq(Entries)
    BY <1>3
<1> HIDE DEF q
<1>7. [shm[host] EXCEPT !.resp = q] \in Shms
    BY <1>1, <1>6, Zenon DEF Shms
<1>8. shm' \in [Sessions -> Shms] /\ NewShm(host, [shm[host] EXCEPT !.resp = q])
    BY <1>1, <1>4, <1>7, ShmUpdate, Zenon
<1>9. srv' \in ServerStates /\ srv'.pc = "recheck" /\ srv'.from = srv.from /\ srv'.file = srv.file
    BY <1>1, <1>4, Zenon DEF ServerStates
<1> QED
    BY <1>1, <1>3, <1>5, <1>8, <1>9, Zenon DEF q, e

\* What the second test of a response push changes.
LEMMA ResponseRecheckStep ==
    ASSUME Types, ResponseRecheck
    PROVE /\ srv' \in ServerStates /\ srv.pc = "recheck" /\ host \in Sessions
          /\ \/ srv'.pc = "mark" /\ srv'.file = NoFile /\ files' = files \ {srv.file}
             \/ srv'.pc = "idle" /\ srv'.file = NoFile /\ files' = files /\ ~shm[host].broken
          /\ UNCHANGED <<shm, host, created, live, engine, trouble, cl, stop, adrift, served>>
<1>1. host \in Sessions /\ srv.pc = "recheck"
    BY TypesGive, Zenon DEF ResponseRecheck, SrvAt
<1>2. UNCHANGED <<shm, host, created, live, engine, trouble, cl, stop, adrift, served>>
    BY Zenon DEF ResponseRecheck, hostVars, processes, history
<1>3. CASE ReplyFailed
    BY <1>1, <1>2, <1>3, ReplyFailedStep, Zenon
<1>4. CASE ~shm[host].broken /\ srv' = IdleServer /\ UNCHANGED files
    BY <1>1, <1>2, <1>4, Zenon DEF IdleServer, ServerStates
<1> QED
    BY <1>3, <1>4, Zenon DEF ResponseRecheck

\* What MarkSessionBroken changes.
LEMMA MarkStep ==
    ASSUME Types, MarkSessionBroken
    PROVE /\ srv' \in ServerStates /\ srv.pc = "mark" /\ srv'.pc = "scan" /\ srv'.file = srv.file
          /\ shm' \in [Sessions -> Shms] /\ host \in Sessions /\ NewShm(host, [shm[host] EXCEPT !.broken = TRUE])
          /\ UNCHANGED <<host, created, live, engine, trouble, cl, stop, files, adrift, served>>
<1>1. host \in Sessions /\ srv.pc = "mark" /\ srv \in ServerStates
    BY TypesGive, Zenon DEF MarkSessionBroken, SrvAt
<1>2. UNCHANGED <<host, created, live, engine, trouble, cl, stop, files, adrift, served>>
    BY Zenon DEF MarkSessionBroken, hostVars, processes, history
<1>3. shm' \in [Sessions -> Shms] /\ NewShm(host, [shm[host] EXCEPT !.broken = TRUE])
    BY <1>1, BrokenUpdate, Zenon DEF MarkSessionBroken
<1>4. srv' \in ServerStates /\ srv'.pc = "scan" /\ srv'.file = srv.file
    BY <1>1, Zenon DEF MarkSessionBroken, SrvGoto, ServerStates
<1> QED
    BY <1>1, <1>2, <1>3, <1>4, Zenon

\* What the scan of the rings removes.
LEMMA ScanStep ==
    ASSUME Types, RemovePendingFilePayloads
    PROVE /\ srv' \in ServerStates /\ srv.pc = "scan" /\ srv'.pc = "idle" /\ srv'.file = NoFile
          /\ files' \subseteq files
          /\ UNCHANGED <<shm, host, created, live, engine, trouble, cl, stop, adrift, served>>
    BY Zenon DEF RemovePendingFilePayloads, SrvAt, IdleServer, ServerStates, hostVars, processes, history

\* What the beginning of Stop changes.
LEMMA StopBeginStep ==
    ASSUME Types, StopBegin
    PROVE /\ shm' \in [Sessions -> Shms] /\ host \in Sessions /\ NewShm(host, [shm[host] EXCEPT !.broken = TRUE])
          /\ stop = "idle" /\ stop' = "scan"
          /\ UNCHANGED <<host, created, live, engine, trouble, cl, srv, files, adrift, served>>
<1>1. host \in Sessions
    BY TypesGive, Zenon DEF StopBegin
<1>2. shm' \in [Sessions -> Shms] /\ NewShm(host, [shm[host] EXCEPT !.broken = TRUE])
    BY <1>1, BrokenUpdate, Zenon DEF StopBegin
<1> QED
    BY <1>1, <1>2, Zenon DEF StopBegin, hostVars, processes, history

\* The types, put together.
LEMMA TypesFrom ==
    ASSUME shm' \in [Sessions -> Shms], cl' \in [Clients -> ClientStates], srv' \in ServerStates,
           host' \in 0 .. MaxSessions, created' \in 0 .. MaxSessions, live' \subseteq Clients,
           engine' \in BOOLEAN, trouble' \in 0 .. MaxTrouble, stop' \in {"idle", "scan", "drain"},
           files' \subseteq Files, adrift' \subseteq Sessions, served' \subseteq Clients, Placed'
    PROVE Types'
    BY Zenon DEF Types, TypeOK, Shms, ClientStates, ServerStates

\* The types, taken apart.
LEMMA TypesParts ==
    ASSUME Types
    PROVE /\ shm \in [Sessions -> Shms] /\ cl \in [Clients -> ClientStates] /\ srv \in ServerStates
          /\ host \in 0 .. MaxSessions /\ created \in 0 .. MaxSessions /\ live \subseteq Clients
          /\ engine \in BOOLEAN /\ trouble \in 0 .. MaxTrouble /\ stop \in {"idle", "scan", "drain"}
          /\ files \subseteq Files /\ adrift \subseteq Sessions /\ served \subseteq Clients /\ Placed
    BY Zenon DEF Types, TypeOK, Shms, ClientStates, ServerStates

\* A client's new session is one that exists, and is kept as long as it is needed.
LEMMA ClientPlaced ==
    ASSUME Types, NEW c \in Clients, NEW r, NewClient(c, r), created' \in {created, created + 1},
           r.session <= created', r.pc \notin {"idle", "bye"} => r.session # 0
    PROVE \A d \in Clients : cl'[d].session <= created' /\ (cl'[d].pc \notin {"idle", "bye"} => cl'[d].session # 0)
<1>1. cl \in [Clients -> ClientStates] /\ created \in 0 .. MaxSessions /\ MaxSessions \in Nat
    BY TypesGive, Zenon
<1>2. \A d \in Clients : cl[d].session \in 0 .. MaxSessions
    BY <1>1, Zenon DEF ClientStates
<1>3. \A d \in Clients : cl[d].session <= created /\ (cl[d].pc \notin {"idle", "bye"} => cl[d].session # 0)
    BY Zenon DEF Types, Placed
<1>4. \A d \in Clients : cl[d].session <= created'
    BY <1>1, <1>2, <1>3, SMT, Z3
<1> QED
    BY <1>3, <1>4, Zenon DEF NewClient

\* Zero stands for no session.
LEMMA ZeroIsNoSession == 0 \notin Sessions
    BY DEF Sessions

\* A step of a client preserves the types.
LEMMA ClientTypes == ASSUME Types, NEW c \in Clients, Client(c) PROVE Types'
<1>0. cl[c] \in ClientStates /\ cl[c].session \in 0 .. MaxSessions /\ cl[c].session <= created
      /\ (cl[c].pc \notin {"idle", "bye"} => cl[c].session # 0) /\ 0 <= created
    BY TypesParts, BoundsAssumption DEF ClientStates, Placed
<1>00. host \in {0, created}
    BY TypesParts, Zenon DEF Placed
<1> DEFINE Ready(r) == r.session <= created' /\ (r.pc \notin {"idle", "bye"} => r.session # 0)
<1>P. ASSUME NEW r, NewClient(c, r), UNCHANGED <<created, host>>, stop' = stop \/ host # 0, Ready(r)
      PROVE Placed'
    <2>1. UNCHANGED srv
        BY ClientKeeps, Zenon
    <2> QED
        BY <2>1, <1>P, ClientPlaced, TypesParts, Zenon DEF Placed
<1>1. CASE Open(c)
    <2> DEFINE r == [cl[c] EXCEPT !.session = host', !.pc = "opened"]
    <2>1. r.session = host' /\ r.pc = "opened" /\ host' \in Sessions
        BY <1>0, <1>1, OpenStep, Zenon DEF ClientStates
    <2>2. host' = created' /\ created' \in {created, created + 1}
        BY <1>00, <1>1, OpenStep, Zenon
    <2>3. Ready(r) /\ NewClient(c, r)
        <3>1. created' \in 0 .. MaxSessions /\ NewClient(c, r)
            BY <1>1, OpenStep, Zenon
        <3>2. host' <= created'
            BY <2>2, <3>1, SMT, Z3
        <3> QED
            BY <2>1, <3>1, <3>2, ZeroIsNoSession, Zenon
    <2> HIDE DEF r
    <2>4. \A d \in Clients : cl'[d].session <= created' /\ (cl'[d].pc \notin {"idle", "bye"} => cl'[d].session # 0)
        BY <2>2, <2>3, ClientPlaced, Zenon
    <2>5. host' # 0 /\ UNCHANGED <<srv, stop>>
        BY <1>1, <2>1, OpenStep, ZeroIsNoSession, Zenon
    <2>6. Placed'
        BY <2>2, <2>4, <2>5, TypesParts, Zenon DEF Placed
    <2>7. host' \in 0 .. MaxSessions
        BY <2>1, BoundsAssumption DEF Sessions
    <2> QED
        BY <1>1, <2>6, <2>7, OpenStep, TypesParts, TypesFrom, Zenon
<1>2. CASE Attach(c)
    <2>1. Ready([cl[c] EXCEPT !.pc = "alive"])
          /\ Ready([cl[c] EXCEPT !.session = 0, !.pc = "idle", !.request = "failed"])
        <3>1. created' = created /\ cl[c].pc = "opened"
            BY <1>2, AttachStep, Zenon
        <3> QED
            BY <1>0, <3>1, Zenon DEF ClientStates
    <2>2. Placed'
        BY <1>2, <1>P, <2>1, AttachStep, Zenon
    <2> QED
        BY <1>2, <2>2, AttachStep, TypesParts, TypesFrom, Zenon
<1>3. CASE SetAlive(c)
    <2>1. Ready([cl[c] EXCEPT !.pc = "attached"])
        <3>1. created' = created /\ cl[c].pc = "alive"
            BY <1>3, SetAliveStep, Zenon
        <3> QED
            BY <1>0, <3>1, Zenon DEF ClientStates
    <2>2. Placed'
        BY <1>3, <1>P, <2>1, SetAliveStep, Zenon
    <2>3. adrift' \subseteq Sessions
        BY TypesParts, <1>3, SetAliveStep, Zenon
    <2> QED
        BY <1>3, <2>2, <2>3, SetAliveStep, TypesParts, TypesFrom, Zenon
<1>4. CASE Prepare(c)
    <2>1. Ready([cl[c] EXCEPT !.file = TransportFile(c, BigRequests, "request", cl[c].session), !.sent = TRUE, !.pc = "push"])
        <3>1. created' = created /\ cl[c].pc = "attached"
            BY <1>4, PrepareStep, Zenon
        <3> QED
            BY <1>0, <3>1, Zenon DEF ClientStates
    <2>2. Placed'
        BY <1>4, <1>P, <2>1, PrepareStep, Zenon
    <2> QED
        BY <1>4, <2>2, PrepareStep, TypesParts, TypesFrom, Zenon
<1>5. CASE PushCheck(c)
    <2>1. Ready([cl[c] EXCEPT !.request = "pending", !.pc = "append"]) /\ Ready(GivenUp(c))
        <3>1. created' = created /\ cl[c].pc = "push"
            BY <1>5, PushCheckStep, Zenon
        <3> QED
            BY <1>0, <3>1, Zenon DEF ClientStates, GivenUp
    <2>2. Placed'
        BY <1>5, <1>P, <2>1, PushCheckStep, Zenon
    <2>3. files' \subseteq Files
        BY TypesParts, <1>5, PushCheckStep, Zenon
    <2> QED
        BY <1>5, <2>2, <2>3, PushCheckStep, TypesParts, TypesFrom, Zenon
<1>6. CASE PushRequest(c)
    <2>1. Ready([cl[c] EXCEPT !.pc = "recheck"])
        <3>1. created' = created /\ cl[c].pc = "append"
            BY <1>6, PushRequestStep, Zenon
        <3> QED
            BY <1>0, <3>1, Zenon DEF ClientStates
    <2>2. Placed'
        BY <1>6, <1>P, <2>1, PushRequestStep, Zenon
    <2> QED
        BY <1>6, <2>2, PushRequestStep, TypesParts, TypesFrom, Zenon
<1>7. CASE PushRecheck(c)
    <2>1. Ready([cl[c] EXCEPT !.file = NoFile, !.pc = "attached"]) /\ Ready(GivenUp(c))
        <3>1. created' = created /\ cl[c].pc = "recheck"
            BY <1>7, PushRecheckStep, Zenon
        <3> QED
            BY <1>0, <3>1, Zenon DEF ClientStates, GivenUp
    <2>2. Placed'
        BY <1>7, <1>P, <2>1, PushRecheckStep, Zenon
    <2>3. files' \subseteq Files
        BY TypesParts, <1>7, PushRecheckStep, Zenon
    <2> QED
        BY <1>7, <2>2, <2>3, PushRecheckStep, TypesParts, TypesFrom, Zenon
<1>8. CASE PopResponse(c)
    <2>1. Ready([cl[c] EXCEPT !.popped = Head(shm[cl[c].session].resp)])
        <3>1. created' = created /\ cl[c].pc = "attached"
            BY <1>8, PopResponseStep, Zenon
        <3> QED
            BY <1>0, <3>1, Zenon DEF ClientStates
    <2>2. Placed'
        BY <1>8, <1>P, <2>1, PopResponseStep, Zenon
    <2> QED
        BY <1>8, <2>2, PopResponseStep, TypesParts, TypesFrom, Zenon
<1>9. CASE ResolveCompletedRequest(c)
    <2>1. Ready([cl[c] EXCEPT !.popped = NoEntry]) /\ Ready([cl[c] EXCEPT !.popped = NoEntry, !.request = "done"])
        <3>1. created' = created
            BY <1>9, ResolveStep, Zenon
        <3> QED
            BY <1>0, <3>1, Zenon DEF ClientStates
    <2>2. Placed'
        BY <1>9, <1>P, <2>1, ResolveStep, Zenon
    <2>3. files' \subseteq Files
        BY TypesParts, <1>9, ResolveStep, Zenon
    <2> QED
        BY <1>9, <2>2, <2>3, ResolveStep, TypesParts, TypesFrom, Zenon
<1>10. CASE Expire(c)
    <2>1. Ready([cl[c] EXCEPT !.request = "failed"])
        <3>1. created' = created
            BY <1>10, ExpireStep, Zenon
        <3> QED
            BY <1>0, <3>1, Zenon DEF ClientStates
    <2>2. Placed'
        BY <1>10, <1>P, <2>1, ExpireStep, Zenon
    <2> QED
        BY <1>10, <2>2, ExpireStep, TypesParts, TypesFrom, Zenon
<1>11. CASE Close(c)
    <2>1. PICK q \in {"new", "pending", "done", "failed"} :
             NewClient(c, [cl[c] EXCEPT !.session = 0, !.pc = "bye", !.request = q])
        BY <1>11, CloseStep, Zenon
    <2>2. Ready([cl[c] EXCEPT !.session = 0, !.pc = "bye", !.request = q])
        <3>1. created' = created /\ cl[c].pc = "attached"
            BY <1>11, CloseStep, Zenon
        <3> QED
            BY <1>0, <3>1, Zenon DEF ClientStates
    <2>3. Placed'
        BY <1>11, <1>P, <2>1, <2>2, CloseStep, Zenon
    <2> QED
        BY <1>11, <2>3, CloseStep, TypesParts, TypesFrom, Zenon
<1>12. CASE Bye(c)
    <2>1. Ready([cl[c] EXCEPT !.pc = "idle"])
        <3>1. created' = created /\ cl[c].pc = "bye"
            BY <1>12, ByeStep, Zenon
        <3> QED
            BY <1>0, <3>1, Zenon DEF ClientStates
    <2>2. stop' = stop \/ (stop' = "scan" /\ host # 0)
        BY <1>12, ByeStep, ZeroIsNoSession, Zenon
    <2>3. Placed'
        BY <1>12, <1>P, <2>1, <2>2, ByeStep, Zenon
    <2> QED
        BY <1>12, <2>2, <2>3, ByeStep, TypesParts, TypesFrom, Zenon
<1> QED
    BY <1>1, <1>2, <1>3, <1>4, <1>5, <1>6, <1>7, <1>8, <1>9, <1>10, <1>11, <1>12, Zenon DEF Client

\* The server's place stays possible while clients and Stop rest.
LEMMA ServerPlaced ==
    ASSUME Types, UNCHANGED <<host, created, cl, stop>>, host # 0,
           srv'.pc \in {"resolve", "push", "append", "recheck"} => srv'.from \in Clients
    PROVE Placed'
    BY Zenon DEF Types, Placed

\* A step of the server preserves the types.
LEMMA ServerTypes == ASSUME Types, Server PROVE Types'
<1>0. srv.pc \in {"resolve", "push", "append", "recheck"} => srv.from \in Clients
    BY Zenon DEF Types, Placed
<1>1. CASE PopRequest
    <2>1. Placed'
        BY <1>1, PopRequestStep, ServerPlaced, ZeroIsNoSession, Zenon
    <2> QED
        BY <1>1, <2>1, PopRequestStep, TypesParts, TypesFrom, Zenon
<1>2. CASE InvokeHandler
    <2>1. Placed' /\ files' \subseteq Files /\ served' \subseteq Clients
        BY <1>2, InvokeHandlerStep, ServerPlaced, ZeroIsNoSession, Zenon
    <2> QED
        BY <1>2, <2>1, InvokeHandlerStep, TypesParts, TypesFrom, Zenon
<1>3. CASE ResponseCheck
    <2>1. srv.from \in Clients
        BY <1>0, <1>3, ResponseCheckStep, Zenon
    <2>2. srv'.pc \in {"resolve", "push", "append", "recheck"} => srv'.from \in Clients
        BY <1>3, <2>1, ResponseCheckStep, Zenon
    <2>3. Placed'
        BY <1>3, <2>2, ResponseCheckStep, ServerPlaced, ZeroIsNoSession, Zenon
    <2>4. files' \subseteq Files
        BY <1>3, ResponseCheckStep, TypesParts, Zenon
    <2> QED
        BY <1>3, <2>3, <2>4, ResponseCheckStep, TypesParts, TypesFrom, Zenon
<1>4. CASE PushResponse
    <2>1. srv'.from \in Clients
        BY <1>0, <1>4, PushResponseStep, Zenon
    <2>2. Placed'
        BY <1>4, <2>1, PushResponseStep, ServerPlaced, ZeroIsNoSession, Zenon
    <2> QED
        BY <1>4, <2>2, PushResponseStep, TypesParts, TypesFrom, Zenon
<1>5. CASE ResponseRecheck
    <2>1. srv'.pc \notin {"resolve", "push", "append", "recheck"}
        BY <1>5, ResponseRecheckStep, Zenon
    <2>2. Placed'
        BY <1>5, <2>1, ResponseRecheckStep, ServerPlaced, ZeroIsNoSession, Zenon
    <2>3. files' \subseteq Files
        BY <1>5, ResponseRecheckStep, TypesParts, Zenon
    <2> QED
        BY <1>5, <2>2, <2>3, ResponseRecheckStep, TypesParts, TypesFrom, Zenon
<1>6. CASE MarkSessionBroken
    <2>1. srv'.pc \notin {"resolve", "push", "append", "recheck"}
        BY <1>6, MarkStep, Zenon
    <2>2. Placed'
        BY <1>6, <2>1, MarkStep, ServerPlaced, ZeroIsNoSession, Zenon
    <2> QED
        BY <1>6, <2>2, MarkStep, TypesParts, TypesFrom, Zenon
<1>7. CASE RemovePendingFilePayloads
    <2>1. srv'.pc \notin {"resolve", "push", "append", "recheck"}
        BY <1>7, ScanStep, Zenon
    <2>2. host # 0
        BY <1>7, Zenon DEF RemovePendingFilePayloads, SrvAt
    <2>3. Placed'
        BY <1>7, <2>1, <2>2, ScanStep, ServerPlaced, Zenon
    <2>4. files' \subseteq Files
        BY <1>7, ScanStep, TypesParts, Zenon
    <2> QED
        BY <1>7, <2>3, <2>4, ScanStep, TypesParts, TypesFrom, Zenon
<1> QED
    BY <1>1, <1>2, <1>3, <1>4, <1>5, <1>6, <1>7, Zenon DEF Server

\* A step of Stop preserves the types.
LEMMA StopperTypes == ASSUME Types, Stopper PROVE Types'
<1>0. UNCHANGED <<created, live, engine, trouble, cl, srv, adrift, served>>
    BY StopperKeeps, Zenon
<1>1. CASE StopBegin
    <2>1. Placed'
        BY <1>1, StopBeginStep, ZeroIsNoSession, Zenon DEF Types, Placed
    <2>2. stop' \in {"idle", "scan", "drain"}
        BY <1>1, StopBeginStep, Zenon
    <2> QED
        BY <1>1, <2>1, <2>2, StopBeginStep, TypesParts, TypesFrom, Zenon
<1>2. CASE StopScan
    <2>1. stop = "scan" /\ stop' = "drain" /\ UNCHANGED <<host, shm>> /\ files' \subseteq files
        BY <1>2, Zenon DEF StopScan, hostVars
    <2>2. host # 0
        BY <2>1, Zenon DEF Types, Placed
    <2>3. Placed'
        BY <1>0, <2>1, <2>2, Zenon DEF Types, Placed
    <2>4. files' \subseteq Files /\ stop' \in {"idle", "scan", "drain"}
        BY <2>1, TypesParts, Zenon
    <2> QED
        BY <1>0, <2>1, <2>3, <2>4, TypesParts, TypesFrom, Zenon
<1>3. CASE StopEnd
    <2>1. srv.pc = "idle" /\ stop' = "idle" /\ host' = 0 /\ UNCHANGED <<shm, files>>
        BY <1>3, Zenon DEF StopEnd
    <2>2. Placed'
        BY <1>0, <2>1, Zenon DEF Types, Placed
    <2>3. host' \in 0 .. MaxSessions
        BY <2>1, BoundsAssumption, SMT, Z3
    <2> QED
        BY <1>0, <2>1, <2>2, <2>3, TypesParts, TypesFrom, Zenon
<1> QED
    BY <1>1, <1>2, <1>3, Zenon DEF Stopper

\* A death preserves the types.
LEMMA FateTypes == ASSUME Types, Fate PROVE Types'
<1>0. UNCHANGED <<shm, created, cl, served>>
    BY FateKeeps, Zenon
<1>1. ASSUME trouble < MaxTrouble, trouble' = trouble + 1
      PROVE trouble' \in 0 .. MaxTrouble
    BY <1>1, BoundsAssumption, TypesParts, SMT, Z3
<1>2. ASSUME NEW c \in Clients, Die(c)
      PROVE Types'
    <2>1. live' \subseteq live /\ UNCHANGED <<host, engine, srv, stop, files, adrift>>
        BY <1>2, Zenon DEF Die, hostVars, history
    <2>2. Placed'
        BY <1>0, <2>1, Zenon DEF Types, Placed
    <2>3. trouble' \in 0 .. MaxTrouble
        BY <1>1, <1>2, Zenon DEF Die
    <2>4. live' \subseteq Clients
        BY <2>1, TypesParts, Zenon
    <2> QED
        BY <1>0, <2>1, <2>2, <2>3, <2>4, TypesParts, TypesFrom, Zenon
<1>3. CASE EngineDies
    <2>1. engine' = FALSE /\ host' = 0 /\ srv' = IdleServer /\ stop' = "idle" /\ UNCHANGED <<live, files>>
        BY <1>3, Zenon DEF EngineDies
    <2>2. srv' \in ServerStates /\ srv'.pc = "idle"
        BY <2>1, Zenon DEF IdleServer, ServerStates
    <2>3. Placed'
        BY <1>0, <2>1, <2>2, Zenon DEF Types, Placed
    <2>4. trouble' \in 0 .. MaxTrouble
        BY <1>1, <1>3, Zenon DEF EngineDies
    <2>5. host' \in 0 .. MaxSessions
        BY <2>1, BoundsAssumption, SMT, Z3
    <2>6. adrift' \subseteq Sessions
        BY <1>3, TypesParts, TypesGive, Zenon DEF EngineDies
    <2>7. stop' \in {"idle", "scan", "drain"} /\ engine' \in BOOLEAN
        BY <2>1, Zenon
    <2> QED
        BY <1>0, <2>1, <2>2, <2>3, <2>4, <2>5, <2>6, <2>7, TypesParts, TypesFrom, Zenon
<1>4. CASE EngineStarts
    <2>1. engine' = TRUE /\ files' = {} /\ UNCHANGED <<live, trouble, host, srv, stop, adrift>>
        BY <1>4, Zenon DEF EngineStarts, hostVars, history
    <2>2. Placed'
        BY <1>0, <2>1, Zenon DEF Types, Placed
    <2>3. files' \subseteq Files /\ engine' \in BOOLEAN
        BY <2>1, Zenon
    <2> QED
        BY <1>0, <2>1, <2>2, <2>3, TypesParts, TypesFrom, Zenon
<1> QED
    BY <1>2, <1>3, <1>4, Zenon DEF Fate

\* Every step preserves the types.
LEMMA TypesStep == Types /\ [Next]_vars => Types'
<1> SUFFICES ASSUME Types, [Next]_vars PROVE Types'
    BY Zenon
<1>1. CASE UNCHANGED vars
    BY <1>1, ZenonT(60) DEF vars, Types, TypeOK, Placed
<1> QED
    BY <1>1, StepIsOf, ClientTypes, ServerTypes, StopperTypes, FateTypes, Zenon

\* Every variable of the model keeps its type, for any number of clients and sessions;
\* the entries of the rings are always well-formed.
THEOREM TypeCorrect == Spec => []TypeOK
<1>1. Types => TypeOK
    BY Zenon DEF Types
<1> QED
    BY <1>1, InitTypes, TypesStep, PTL DEF Spec

-----------------------------------------------------------------------------
(* Files are named after where they belong.                                 *)

SameQueues == \A s \in Sessions : shm'[s].req = shm[s].req /\ shm'[s].resp = shm[s].resp

\* The mark on a session changes no ring.
LEMMA BrokenKeepsQueues ==
    ASSUME Types, NEW s \in Sessions, NEW b, NewShm(s, [shm[s] EXCEPT !.broken = b])
    PROVE SameQueues /\ shm'[s].broken = b /\ \A t \in Sessions : t # s => shm'[t].broken = shm[t].broken
<1>1. shm[s] \in Shms
    BY TypesGive, Zenon
<1> QED
    BY <1>1, Zenon DEF NewShm, SameQueues, Shms

\* The steps of a client that change a ring.
LEMMA ClientQueues ==
    ASSUME Types, NEW c \in Clients, Client(c)
    PROVE SameQueues \/ PushRequest(c) \/ PopResponse(c)
<1>1. ASSUME shm' = shm PROVE SameQueues
    BY <1>1, Zenon DEF SameQueues
<1>2. ASSUME SameRings PROVE SameQueues
    BY <1>2, Zenon DEF SameQueues, SameRings
<1>3. CASE Open(c) \/ Prepare(c) \/ ResolveCompletedRequest(c) \/ Expire(c)
    BY <1>1, <1>3, OpenStep, PrepareStep, ResolveStep, ExpireStep, Zenon
<1>4. CASE Attach(c) \/ PushCheck(c) \/ PushRecheck(c) \/ Close(c)
    BY <1>2, <1>4, AttachStep, PushCheckStep, PushRecheckStep, CloseStep, Zenon
<1>5. CASE SetAlive(c)
    BY <1>5, SetAliveStep, BrokenKeepsQueues, Zenon
<1>6. CASE Bye(c)
    BY <1>1, <1>6, ByeStep, BrokenKeepsQueues, Zenon
<1> QED
    BY <1>3, <1>4, <1>5, <1>6, Zenon DEF Client

\* The steps of the server that change a ring.
LEMMA ServerQueues ==
    ASSUME Types, Server
    PROVE SameQueues \/ PopRequest \/ PushResponse
<1>1. ASSUME shm' = shm PROVE SameQueues
    BY <1>1, Zenon DEF SameQueues
<1>2. CASE InvokeHandler \/ ResponseCheck \/ ResponseRecheck \/ RemovePendingFilePayloads
    BY <1>1, <1>2, InvokeHandlerStep, ResponseCheckStep, ResponseRecheckStep, ScanStep, Zenon
<1>3. CASE MarkSessionBroken
    BY <1>3, MarkStep, BrokenKeepsQueues, Zenon
<1> QED
    BY <1>2, <1>3, Zenon DEF Server

\* Stop changes no ring.
LEMMA StopperQueues == ASSUME Types, Stopper PROVE SameQueues
<1>1. CASE StopBegin
    BY <1>1, StopBeginStep, BrokenKeepsQueues, Zenon
<1>2. CASE StopScan \/ StopEnd
    BY <1>2, Zenon DEF StopScan, StopEnd, SameQueues
<1> QED
    BY <1>1, <1>2, Zenon DEF Stopper

\* Deaths change no ring.
LEMMA FateQueues == ASSUME Types, Fate PROVE SameQueues
    BY FateKeeps, Zenon DEF SameQueues

\* What a ring holds after a push, and after a pop.
LEMMA PushedRing ==
    ASSUME Types, NEW s \in Sessions, NEW e \in Entries
    PROVE /\ NewShm(s, [shm[s] EXCEPT !.req = Append(shm[s].req, e)]) =>
                shm'[s].req = Append(shm[s].req, e) /\ shm'[s].resp = shm[s].resp /\ shm'[s].broken = shm[s].broken
          /\ NewShm(s, [shm[s] EXCEPT !.resp = Append(shm[s].resp, e)]) =>
                shm'[s].resp = Append(shm[s].resp, e) /\ shm'[s].req = shm[s].req /\ shm'[s].broken = shm[s].broken
          /\ shm[s].req \in Seq(Entries) /\ shm[s].resp \in Seq(Entries)
<1>1. shm[s] \in Shms
    BY TypesGive, Zenon
<1> QED
    BY <1>1, Zenon DEF NewShm, Shms

\* A pop changes one ring of the session and not its mark.
LEMMA PoppedRing ==
    ASSUME Types, NEW s \in Sessions
    PROVE /\ NewShm(s, [shm[s] EXCEPT !.req = Tail(shm[s].req)]) =>
                shm'[s].req = Tail(shm[s].req) /\ shm'[s].resp = shm[s].resp /\ shm'[s].broken = shm[s].broken
          /\ NewShm(s, [shm[s] EXCEPT !.resp = Tail(shm[s].resp)]) =>
                shm'[s].resp = Tail(shm[s].resp) /\ shm'[s].req = shm[s].req /\ shm'[s].broken = shm[s].broken
<1>1. shm[s] \in Shms
    BY TypesGive, Zenon
<1> QED
    BY <1>1, Zenon DEF NewShm, Shms

ClientName(c) ==
    IF cl[c].pc \in {"push", "append", "recheck"}
    THEN cl[c].file \in {NoFile, <<c, "request", cl[c].session>>}
    ELSE cl[c].file = NoFile

ServerName ==
    /\ srv.pc = "resolve" => srv.file \in {NoFile, <<srv.from, "request", host>>}
    /\ srv.pc \in {"push", "append", "recheck"} => srv.file \in {NoFile, <<srv.from, "reply", host>>}
    /\ srv.pc \in {"idle", "mark", "scan"} => srv.file = NoFile

RingNames == \A s \in Sessions : Named(shm[s].req, "request", s) /\ Named(shm[s].resp, "reply", s)

FileNames == RingNames /\ (\A c \in Clients : ClientName(c)) /\ ServerName

\* A ring entry keeps naming a file of its own session.
LEMMA RingNamesStep == ASSUME Types, FileNames, [Next]_vars PROVE RingNames'
<1>1. CASE SameQueues
    BY <1>1, Zenon DEF SameQueues, FileNames, RingNames
<1>2. ASSUME NEW c \in Clients, PushRequest(c) PROVE RingNames'
    <2> DEFINE s == cl[c].session
               e == [from |-> c, file |-> cl[c].file]
    <2>1. s \in Sessions /\ e \in Entries /\ NewShm(s, [shm[s] EXCEPT !.req = Append(shm[s].req, e)])
        BY <1>2, PushRequestStep, Zenon
    <2>2. e.from = c /\ e.file = cl[c].file
        BY Zenon
    <2>3. e.file \in {NoFile, <<e.from, "request", s>>}
        BY <1>2, <2>2, PushRequestStep, Zenon DEF FileNames, ClientName
    <2> HIDE DEF e
    <2>4. Named(Append(shm[s].req, e), "request", s)
        BY <2>1, <2>3, FilesOfAppend, PushedRing, Zenon DEF FileNames, RingNames
    <2>5. \A t \in Sessions : t # s => shm'[t] = shm[t]
        BY <2>1, Zenon DEF NewShm
    <2> QED
        BY <2>1, <2>4, <2>5, PushedRing, ZenonT(60) DEF FileNames, RingNames
<1>3. CASE PushResponse
    <2> DEFINE e == [from |-> srv.from, file |-> srv.file]
    <2>1. host \in Sessions /\ e \in Entries /\ NewShm(host, [shm[host] EXCEPT !.resp = Append(shm[host].resp, e)])
        BY <1>3, PushResponseStep, Zenon
    <2>2. e.from = srv.from /\ e.file = srv.file
        BY Zenon
    <2>3. e.file \in {NoFile, <<e.from, "reply", host>>}
        BY <1>3, <2>2, PushResponseStep, Zenon DEF FileNames, ServerName
    <2> HIDE DEF e
    <2>4. Named(Append(shm[host].resp, e), "reply", host)
        BY <2>1, <2>3, FilesOfAppend, PushedRing, Zenon DEF FileNames, RingNames
    <2>5. \A t \in Sessions : t # host => shm'[t] = shm[t]
        BY <2>1, Zenon DEF NewShm
    <2> QED
        BY <2>1, <2>4, <2>5, PushedRing, ZenonT(60) DEF FileNames, RingNames
<1>4. ASSUME NEW c \in Clients, PopResponse(c) PROVE RingNames'
    <2> DEFINE s == cl[c].session
    <2>1. /\ s \in Sessions /\ NewShm(s, [shm[s] EXCEPT !.resp = Tail(shm[s].resp)])
          /\ shm[s].resp \in Seq(Entries) /\ shm[s].resp # <<>>
        BY <1>4, PopResponseStep, Zenon
    <2>2. Named(Tail(shm[s].resp), "reply", s)
        BY <2>1, FilesOfTail, Zenon DEF FileNames, RingNames
    <2>3. \A t \in Sessions : t # s => shm'[t] = shm[t]
        BY <2>1, Zenon DEF NewShm
    <2>4. shm'[s].resp = Tail(shm[s].resp) /\ shm'[s].req = shm[s].req
        BY <2>1, PoppedRing, Zenon
    <2> HIDE DEF s
    <2> QED
        BY <2>1, <2>2, <2>3, <2>4, Zenon DEF FileNames, RingNames
<1>5. CASE PopRequest
    <2>1. /\ host \in Sessions /\ NewShm(host, [shm[host] EXCEPT !.req = Tail(shm[host].req)])
          /\ shm[host].req \in Seq(Entries) /\ shm[host].req # <<>>
        BY <1>5, PopRequestStep, Zenon
    <2>2. Named(Tail(shm[host].req), "request", host)
        BY <2>1, FilesOfTail, Zenon DEF FileNames, RingNames
    <2>3. \A t \in Sessions : t # host => shm'[t] = shm[t]
        BY <2>1, Zenon DEF NewShm
    <2> QED
        BY <2>1, <2>2, <2>3, PoppedRing, Zenon DEF FileNames, RingNames
<1>6. CASE UNCHANGED vars
    BY <1>6, Zenon DEF vars, FileNames, RingNames
<1> QED
    BY <1>1, <1>2, <1>3, <1>4, <1>5, <1>6, StepIsOf, ClientQueues, ServerQueues, StopperQueues, FateQueues, Zenon

\* A client keeps holding files of its own request in its own session.
LEMMA ClientNameStep == ASSUME Types, FileNames, [Next]_vars PROVE \A c \in Clients : ClientName(c)'
<1>0. \A d \in Clients : ClientName(d)
    BY Zenon DEF FileNames
<1>1. CASE UNCHANGED cl
    BY <1>0, <1>1, Zenon DEF ClientName
<1>2. ASSUME NEW c \in Clients, Client(c) PROVE \A d \in Clients : ClientName(d)'
    <2>0. cl[c] \in ClientStates
        BY TypesGive, Zenon
    <2>1. ASSUME NEW r, NewClient(c, r),
                 IF r.pc \in {"push", "append", "recheck"} THEN r.file \in {NoFile, <<c, "request", r.session>>}
                 ELSE r.file = NoFile
          PROVE \A d \in Clients : ClientName(d)'
        BY <1>0, <2>1, Zenon DEF NewClient, ClientName
    <2>2. CASE Open(c)
        <3>1. cl[c].file = NoFile
            BY <1>0, <2>2, OpenStep, Zenon DEF ClientName
        <3> QED
            BY <2>0, <2>1, <2>2, <3>1, OpenStep, Zenon DEF ClientStates
    <2>3. CASE Attach(c)
        <3>1. cl[c].file = NoFile
            BY <1>0, <2>3, AttachStep, Zenon DEF ClientName
        <3> QED
            BY <2>0, <2>1, <2>3, <3>1, AttachStep, Zenon DEF ClientStates
    <2>4. CASE SetAlive(c)
        <3>1. cl[c].file = NoFile
            BY <1>0, <2>4, SetAliveStep, Zenon DEF ClientName
        <3> QED
            BY <2>0, <2>1, <2>4, <3>1, SetAliveStep, Zenon DEF ClientStates
    <2>5. CASE Prepare(c)
        BY <2>0, <2>1, <2>5, PrepareStep, Zenon DEF ClientStates
    <2>6. CASE PushCheck(c)
        <3>1. cl[c].file \in {NoFile, <<c, "request", cl[c].session>>}
            BY <1>0, <2>6, PushCheckStep, Zenon DEF ClientName
        <3>2. NewClient(c, GivenUp(c)) \/ NewClient(c, [cl[c] EXCEPT !.request = "pending", !.pc = "append"])
            BY <2>6, PushCheckStep, Zenon
        <3> QED
            BY <2>0, <2>1, <3>1, <3>2, Zenon DEF ClientStates, GivenUp
    <2>7. CASE PushRequest(c)
        <3>1. cl[c].file \in {NoFile, <<c, "request", cl[c].session>>}
            BY <1>0, <2>7, PushRequestStep, Zenon DEF ClientName
        <3>2. NewClient(c, [cl[c] EXCEPT !.pc = "recheck"])
            BY <2>7, PushRequestStep, Zenon
        <3> QED
            BY <2>0, <2>1, <3>1, <3>2, Zenon DEF ClientStates
    <2>8. CASE PushRecheck(c)
        <3>1. NewClient(c, GivenUp(c)) \/ NewClient(c, [cl[c] EXCEPT !.file = NoFile, !.pc = "attached"])
            BY <2>8, PushRecheckStep, Zenon
        <3> QED
            BY <2>0, <2>1, <3>1, Zenon DEF ClientStates, GivenUp
    <2>9. CASE PopResponse(c)
        <3>1. cl[c].file = NoFile /\ cl[c].pc = "attached"
            BY <1>0, <2>9, PopResponseStep, Zenon DEF ClientName
        <3>2. NewClient(c, [cl[c] EXCEPT !.popped = Head(shm[cl[c].session].resp)])
            BY <2>9, PopResponseStep, Zenon
        <3> QED
            BY <2>0, <2>1, <3>1, <3>2, Zenon DEF ClientStates
    <2>10. CASE ResolveCompletedRequest(c)
        <3>1. \/ NewClient(c, [cl[c] EXCEPT !.popped = NoEntry])
              \/ NewClient(c, [cl[c] EXCEPT !.popped = NoEntry, !.request = "done"])
            BY <2>10, ResolveStep, Zenon
        <3>2. IF cl[c].pc \in {"push", "append", "recheck"} THEN cl[c].file \in {NoFile, <<c, "request", cl[c].session>>}
              ELSE cl[c].file = NoFile
            BY <1>0, Zenon DEF ClientName
        <3> QED
            BY <2>0, <2>1, <3>1, <3>2, Zenon DEF ClientStates
    <2>11. CASE Expire(c)
        <3>1. NewClient(c, [cl[c] EXCEPT !.request = "failed"])
            BY <2>11, ExpireStep, Zenon
        <3>2. IF cl[c].pc \in {"push", "append", "recheck"} THEN cl[c].file \in {NoFile, <<c, "request", cl[c].session>>}
              ELSE cl[c].file = NoFile
            BY <1>0, Zenon DEF ClientName
        <3> QED
            BY <2>0, <2>1, <3>1, <3>2, Zenon DEF ClientStates
    <2>12. CASE Close(c)
        <3>1. cl[c].file = NoFile
            BY <1>0, <2>12, CloseStep, Zenon DEF ClientName
        <3>2. PICK q \in {"new", "pending", "done", "failed"} :
                 NewClient(c, [cl[c] EXCEPT !.session = 0, !.pc = "bye", !.request = q])
            BY <2>12, CloseStep, Zenon
        <3> QED
            BY <2>0, <2>1, <3>1, <3>2, Zenon DEF ClientStates
    <2>13. CASE Bye(c)
        <3>1. cl[c].file = NoFile
            BY <1>0, <2>13, ByeStep, Zenon DEF ClientName
        <3>2. NewClient(c, [cl[c] EXCEPT !.pc = "idle"])
            BY <2>13, ByeStep, Zenon
        <3> QED
            BY <2>0, <2>1, <3>1, <3>2, Zenon DEF ClientStates
    <2> QED
        BY <1>2, <2>2, <2>3, <2>4, <2>5, <2>6, <2>7, <2>8, <2>9, <2>10, <2>11, <2>12, <2>13, Zenon DEF Client
<1>3. CASE UNCHANGED vars
    BY <1>1, <1>3, Zenon DEF vars
<1> QED
    BY <1>1, <1>2, <1>3, StepIsOf, ServerKeeps, StopperKeeps, FateKeeps, Zenon

\* The server keeps holding files of the session it serves.
LEMMA ServerNameStep == ASSUME Types, FileNames, [Next]_vars PROVE ServerName'
<1>0. ServerName /\ (srv.pc # "idle" => host # 0)
    BY Zenon DEF FileNames, Types, Placed
<1>1. CASE UNCHANGED <<srv, host>>
    BY <1>0, <1>1, Zenon DEF ServerName
<1>2. ASSUME srv.pc = "idle", UNCHANGED srv PROVE ServerName'
    BY <1>0, <1>2, Zenon DEF ServerName
<1>3. ASSUME NEW c \in Clients, Client(c) PROVE ServerName'
    <2>1. UNCHANGED srv
        BY <1>3, ClientKeeps, Zenon
    <2>2. CASE Open(c)
        BY <1>0, <1>1, <1>2, <2>1, <2>2, OpenStep, Zenon
    <2>3. CASE ~Open(c)
        <3>1. UNCHANGED host
            BY <1>3, <2>3, Zenon DEF Client, Attach, SetAlive, Prepare, PushCheck, PushRequest, PushRecheck, PopResponse,
                ResolveCompletedRequest, Expire, Close, Bye, hostVars
        <3> QED
            BY <1>1, <2>1, <3>1, Zenon
    <2> QED
        BY <2>2, <2>3, Zenon
<1>4. CASE PopRequest
    <2>1. /\ host \in Sessions /\ shm[host].req \in Seq(Entries) /\ shm[host].req # <<>> /\ srv'.pc = "resolve"
          /\ srv'.from = Head(shm[host].req).from /\ srv'.file = Head(shm[host].req).file /\ host' = host
        BY <1>4, PopRequestStep, Zenon
    <2>2. Head(shm[host].req).file \in {NoFile, <<Head(shm[host].req).from, "request", host>>}
        BY <2>1, FilesOfTail, Zenon DEF FileNames, RingNames
    <2> QED
        BY <2>1, <2>2, Zenon DEF ServerName
<1>5. CASE InvokeHandler
    BY <1>5, InvokeHandlerStep, Zenon DEF ServerName
<1>6. CASE ResponseCheck
    BY <1>0, <1>6, ResponseCheckStep, Zenon DEF ServerName
<1>7. CASE PushResponse
    <2>1. /\ srv.pc = "append" /\ srv'.pc = "recheck" /\ srv'.from = srv.from /\ srv'.file = srv.file /\ host' = host
        BY <1>7, PushResponseStep, Zenon
    <2> QED
        BY <1>0, <2>1, Zenon DEF ServerName
<1>8. CASE ResponseRecheck
    BY <1>8, ResponseRecheckStep, Zenon DEF ServerName
<1>9. CASE MarkSessionBroken
    <2>1. srv.pc = "mark" /\ srv'.pc = "scan" /\ srv'.file = srv.file
        BY <1>9, MarkStep, Zenon
    <2> QED
        BY <1>0, <2>1, Zenon DEF ServerName
<1>10. CASE RemovePendingFilePayloads
    BY <1>10, ScanStep, Zenon DEF ServerName
<1>11. CASE Stopper
    <2>1. UNCHANGED srv
        BY <1>11, StopperKeeps, Zenon
    <2>2. srv.pc = "idle" \/ UNCHANGED host
        BY <1>11, Zenon DEF Stopper, StopBegin, StopScan, StopEnd, hostVars
    <2> QED
        BY <1>1, <1>2, <2>1, <2>2, Zenon
<1>12. CASE Fate
    <2>1. UNCHANGED <<srv, host>> \/ srv' = IdleServer
        BY <1>12, Zenon DEF Fate, Die, EngineDies, EngineStarts, hostVars
    <2> QED
        BY <1>1, <2>1, SMT, Z3 DEF ServerName, IdleServer
<1>13. CASE UNCHANGED vars
    BY <1>1, <1>13, Zenon DEF vars
<1> QED
    BY <1>3, <1>4, <1>5, <1>6, <1>7, <1>8, <1>9, <1>10, <1>11, <1>12, <1>13, StepIsOf, Zenon DEF Server

\* The names of all files in use stay right.
LEMMA FileNamesStep == Types /\ FileNames /\ [Next]_vars => FileNames'
    BY RingNamesStep, ClientNameStep, ServerNameStep, Zenon DEF FileNames

-----------------------------------------------------------------------------
(* How a session ends.                                                      *)

\* A session that is being stopped, and every session that is not the host's any
\* more, is broken or adrift; nothing is in the rings of a session not yet created.
Ends ==
    /\ stop # "idle" => shm[host].broken \/ host \in adrift
    /\ \A s \in Sessions : s <= created /\ s # host /\ s \notin adrift => shm[s].broken
    /\ \A s \in Sessions : s > created => shm[s].req = <<>> /\ shm[s].resp = <<>>

\* A client mends a broken session only by setting it adrift.
LEMMA ClientBroken ==
    ASSUME Types, NEW c \in Clients, Client(c), NEW s \in Sessions
    PROVE (shm[s].broken => shm'[s].broken \/ s \in adrift') /\ adrift \subseteq adrift'
<1>0. adrift' = adrift \/ SetAlive(c)
    BY Zenon DEF Client, Open, Attach, Prepare, PushCheck, PushRequest, PushRecheck, PopResponse,
        ResolveCompletedRequest, Expire, Close, Bye, history
<1>1. CASE SetAlive(c)
    <2>1. adrift' = (IF shm[cl[c].session].broken THEN adrift \cup {cl[c].session} ELSE adrift) /\ cl[c].session \in Sessions
          /\ NewShm(cl[c].session, [shm[cl[c].session] EXCEPT !.broken = FALSE])
        BY <1>1, SetAliveStep, Zenon
    <2>2. \A t \in Sessions : t # cl[c].session => shm'[t] = shm[t]
        BY <2>1, Zenon DEF NewShm
    <2> QED
        BY <2>1, <2>2, Zenon
<1>2. CASE Bye(c)
    <2>1. UNCHANGED <<shm, stop>> \/ (host \in Sessions /\ NewShm(host, [shm[host] EXCEPT !.broken = TRUE]))
        BY <1>2, ByeStep, Zenon
    <2>2. shm[s].broken => shm'[s].broken
        BY <2>1, BrokenKeepsQueues, Zenon
    <2>3. adrift' = adrift
        BY <1>2, Zenon DEF Bye, history
    <2> QED
        BY <2>2, <2>3, Zenon
<1>3. CASE Open(c) \/ Prepare(c) \/ ResolveCompletedRequest(c) \/ Expire(c)
    <2>1. UNCHANGED <<shm, adrift>>
        BY <1>3, OpenStep, PrepareStep, ResolveStep, ExpireStep, Zenon
    <2> QED
        BY <2>1, Zenon
<1>4. CASE Attach(c) \/ PushCheck(c) \/ PushRecheck(c) \/ Close(c)
    <2>1. SameRings /\ UNCHANGED adrift
        BY <1>4, AttachStep, PushCheckStep, PushRecheckStep, CloseStep, Zenon
    <2> QED
        BY <2>1, Zenon DEF SameRings
<1>5. CASE PushRequest(c)
    <2> DEFINE t == cl[c].session
               e == [from |-> c, file |-> cl[c].file]
    <2>1. t \in Sessions /\ e \in Entries /\ NewShm(t, [shm[t] EXCEPT !.req = Append(shm[t].req, e)]) /\ adrift' = adrift
        BY <1>5, PushRequestStep, Zenon
    <2> HIDE DEF e
    <2>2. shm'[t].broken = shm[t].broken
        BY <2>1, PushedRing, Zenon
    <2>3. s # t => shm'[s] = shm[s]
        BY <2>1, Zenon DEF NewShm
    <2> QED
        BY <2>1, <2>2, <2>3, Zenon
<1>6. CASE PopResponse(c)
    <2> DEFINE t == cl[c].session
    <2>1. t \in Sessions /\ NewShm(t, [shm[t] EXCEPT !.resp = Tail(shm[t].resp)]) /\ adrift' = adrift
        BY <1>6, PopResponseStep, Zenon
    <2>2. shm'[t].broken = shm[t].broken
        BY <2>1, PoppedRing, Zenon
    <2>3. s # t => shm'[s] = shm[s]
        BY <2>1, Zenon DEF NewShm
    <2> QED
        BY <2>1, <2>2, <2>3, Zenon
<1> QED
    BY <1>1, <1>2, <1>3, <1>4, <1>5, <1>6, Zenon DEF Client

\* The server never mends a session.
LEMMA ServerBroken ==
    ASSUME Types, Server, NEW s \in Sessions
    PROVE shm[s].broken => shm'[s].broken
<1>1. CASE InvokeHandler \/ ResponseCheck \/ ResponseRecheck \/ RemovePendingFilePayloads
    <2>1. UNCHANGED shm
        BY <1>1, InvokeHandlerStep, ResponseCheckStep, ResponseRecheckStep, ScanStep, Zenon
    <2> QED
        BY <2>1, Zenon
<1>2. CASE MarkSessionBroken
    BY <1>2, MarkStep, BrokenKeepsQueues, Zenon
<1>3. CASE PopRequest
    <2>1. host \in Sessions /\ NewShm(host, [shm[host] EXCEPT !.req = Tail(shm[host].req)])
        BY <1>3, PopRequestStep, Zenon
    <2>2. shm'[host].broken = shm[host].broken
        BY <2>1, PoppedRing, Zenon
    <2> QED
        BY <2>1, <2>2, Zenon DEF NewShm
<1>4. CASE PushResponse
    <2> DEFINE e == [from |-> srv.from, file |-> srv.file]
    <2>1. host \in Sessions /\ e \in Entries /\ NewShm(host, [shm[host] EXCEPT !.resp = Append(shm[host].resp, e)])
        BY <1>4, PushResponseStep, Zenon
    <2> HIDE DEF e
    <2>2. shm'[host].broken = shm[host].broken
        BY <2>1, PushedRing, Zenon
    <2> QED
        BY <2>1, <2>2, Zenon DEF NewShm
<1> QED
    BY <1>1, <1>2, <1>3, <1>4, Zenon DEF Server

\* A broken session stays broken, or is adrift; and what is adrift stays so.
LEMMA StaysBroken ==
    ASSUME Types, [Next]_vars, NEW s \in Sessions
    PROVE (shm[s].broken => shm'[s].broken \/ s \in adrift') /\ adrift \subseteq adrift'
<1>1. CASE Server
    BY <1>1, ServerBroken, ServerKeeps, Zenon
<1>2. CASE Stopper
    <2>1. UNCHANGED adrift
        BY <1>2, StopperKeeps, Zenon
    <2>2. CASE StopBegin
        BY <2>1, <2>2, StopBeginStep, BrokenKeepsQueues, Zenon
    <2>3. CASE StopScan \/ StopEnd
        BY <2>1, <2>3, Zenon DEF StopScan, StopEnd
    <2> QED
        BY <1>2, <2>2, <2>3, Zenon DEF Stopper
<1>3. CASE Fate
    <2>1. UNCHANGED shm /\ adrift \subseteq adrift'
        BY <1>3, FateKeeps, Zenon DEF Fate, Die, EngineDies, EngineStarts, history
    <2> QED
        BY <2>1, Zenon
<1>4. CASE UNCHANGED vars
    BY <1>4, Zenon DEF vars
<1> QED
    BY <1>1, <1>2, <1>3, <1>4, ClientBroken, StepIsOf, Zenon

\* The session of the host changes when one is created, or when it is let go.
LEMMA HostStep ==
    ASSUME Types, [Next]_vars
    PROVE \/ UNCHANGED <<host, created>>
          \/ /\ host = 0 /\ created' = created + 1 /\ host' = created' /\ stop' = "idle" /\ UNCHANGED <<shm, files, srv, adrift>>
             /\ \E c \in Clients : Open(c)
          \/ StopEnd \/ EngineDies
<1>1. ASSUME NEW c \in Clients, Client(c)
      PROVE UNCHANGED <<host, created>> \/ Open(c)
    BY <1>1, Zenon DEF Client, Attach, SetAlive, Prepare, PushCheck, PushRequest, PushRecheck, PopResponse,
        ResolveCompletedRequest, Expire, Close, Bye, hostVars
<1>2. CASE Server
    BY <1>2, ServerKeeps, Zenon
<1>3. CASE Stopper
    BY <1>3, Zenon DEF Stopper, StopBegin, StopScan, hostVars
<1>4. CASE Fate
    BY <1>4, Zenon DEF Fate, Die, EngineStarts, hostVars
<1>5. CASE UNCHANGED vars
    BY <1>5, Zenon DEF vars
<1> QED
    BY <1>1, <1>2, <1>3, <1>4, <1>5, StepIsOf, OpenStep, Zenon

\* The steps that move Stop on.
LEMMA StopStep ==
    ASSUME Types, [Next]_vars
    PROVE \/ stop' = stop \/ stop' = "idle" \/ StopScan
          \/ host \in Sessions /\ shm'[host].broken /\ UNCHANGED host /\ stop' = "scan"
<1>1. ASSUME NEW c \in Clients, Client(c)
      PROVE UNCHANGED stop \/ Bye(c)
    BY <1>1, Zenon DEF Client, Open, Attach, SetAlive, Prepare, PushCheck, PushRequest, PushRecheck, PopResponse,
        ResolveCompletedRequest, Expire, Close
<1>2. ASSUME NEW c \in Clients, Bye(c)
      PROVE UNCHANGED stop \/ (host \in Sessions /\ shm'[host].broken /\ UNCHANGED host /\ stop' = "scan")
    BY <1>2, ByeStep, BrokenKeepsQueues, Zenon
<1>3. CASE Server
    BY <1>3, ServerKeeps, Zenon
<1>4. CASE StopBegin
    BY <1>4, StopBeginStep, BrokenKeepsQueues, Zenon
<1>5. CASE StopEnd
    BY <1>5, Zenon DEF StopEnd
<1>6. CASE Fate
    BY <1>6, Zenon DEF Fate, Die, EngineDies, EngineStarts
<1>7. CASE UNCHANGED vars
    BY <1>7, Zenon DEF vars
<1> QED
    BY <1>1, <1>2, <1>3, <1>4, <1>5, <1>6, <1>7, StepIsOf, Zenon DEF Stopper

\* A session that ends stays broken until it is gone, or goes adrift.
LEMMA EndsStep == Types /\ Ends /\ [Next]_vars => Ends'
<1> SUFFICES ASSUME Types, Ends, [Next]_vars PROVE Ends'
    BY Zenon
<1>0. /\ host \in {0, created} /\ created \in Nat /\ host \in Nat
      /\ (stop # "idle" => host # 0) /\ (host # 0 => host \in Sessions)
      /\ stop \in {"idle", "scan", "drain"}
    <2>1. created \in Nat /\ host \in Nat
        BY TypesGive, SMT, Z3
    <2> QED
        BY <2>1, TypesGive, TypesParts, Zenon DEF Types, Placed
<1>1. stop' # "idle" => shm'[host'].broken \/ host' \in adrift'
    <2> SUFFICES ASSUME stop' # "idle" PROVE shm'[host'].broken \/ host' \in adrift'
        BY Zenon
    <2>1. CASE host \in Sessions /\ shm'[host].broken /\ UNCHANGED host
        BY <2>1, Zenon
    <2>2. CASE stop' = stop \/ StopScan
        <3>1. stop # "idle"
            BY <2>2, Zenon DEF StopScan
        <3>2. UNCHANGED host
            BY <1>0, <3>1, HostStep, Zenon DEF StopEnd, EngineDies
        <3> QED
            BY <1>0, <3>1, <3>2, StaysBroken, Zenon DEF Ends
    <2> QED
        BY <2>1, <2>2, StopStep, Zenon
<1>2. ASSUME NEW s \in Sessions, s <= created', s # host', s \notin adrift'
      PROVE shm'[s].broken
    <2>1. s <= created
        <3>1. s \in Nat
            BY DEF Sessions
        <3>2. CASE created' = created
            BY <1>2, <3>2, Zenon
        <3>3. CASE created' = created + 1 /\ host' = created'
            BY <1>0, <1>2, <3>1, <3>3, SMT, Z3
        <3>4. StopEnd \/ EngineDies => created' = created
            BY Zenon DEF StopEnd, EngineDies
        <3> QED
            BY <3>2, <3>3, <3>4, HostStep, Zenon
    <2>2. s \notin adrift
        BY <1>2, StaysBroken, Zenon
    <2>3. CASE s # host
        BY <1>2, <2>1, <2>2, <2>3, StaysBroken, Zenon DEF Ends
    <2>4. CASE s = host
        <3>1. s # 0
            BY ZeroIsNoSession, Zenon
        <3>2. StopEnd \/ EngineDies
            BY <1>2, <2>4, <3>1, HostStep, Zenon
        <3>3. ~EngineDies
            BY <1>2, <2>4, <3>1, Zenon DEF EngineDies
        <3>4. stop # "idle" /\ shm' = shm
            BY <3>2, <3>3, Zenon DEF StopEnd
        <3> QED
            BY <2>2, <2>4, <3>4, Zenon DEF Ends
    <2> QED
        BY <2>3, <2>4, Zenon
<1>3. ASSUME NEW s \in Sessions, s > created'
      PROVE shm'[s].req = <<>> /\ shm'[s].resp = <<>>
    <2>0. s \in Nat
        BY DEF Sessions
    <2>1. s > created
        <3>1. created' \in {created, created + 1}
            BY HostStep, Zenon DEF StopEnd, EngineDies
        <3> QED
            BY <1>0, <1>3, <2>0, <3>1, SMT, Z3
    <2>2. shm[s].req = <<>> /\ shm[s].resp = <<>>
        BY <2>1, Zenon DEF Ends
    <2>3. CASE SameQueues
        BY <2>2, <2>3, Zenon DEF SameQueues
    <2>4. ASSUME NEW t \in Sessions, NEW m, NewShm(t, m), t <= created
          PROVE shm'[s].req = <<>> /\ shm'[s].resp = <<>>
        <3>1. t # s
            BY <1>0, <2>0, <2>1, <2>4, SMT, Z3 DEF Sessions
        <3> QED
            BY <2>2, <2>4, <3>1, Zenon DEF NewShm
    <2>5. ASSUME NEW c \in Clients, PushRequest(c) \/ PopResponse(c)
          PROVE shm'[s].req = <<>> /\ shm'[s].resp = <<>>
        <3>1. cl[c].session <= created
            BY Zenon DEF Types, Placed
        <3> QED
            BY <2>4, <2>5, <3>1, PushRequestStep, PopResponseStep, Zenon
    <2>6. CASE PopRequest \/ PushResponse
        <3>1. host \in Sessions
            BY <2>6, PopRequestStep, PushResponseStep, Zenon
        <3>2. host <= created
            BY <1>0, SMT, Z3
        <3> QED
            BY <2>4, <2>6, <3>1, <3>2, PopRequestStep, PushResponseStep, Zenon
    <2>7. CASE UNCHANGED vars
        BY <2>2, <2>7, Zenon DEF vars
    <2> QED
        BY <2>3, <2>5, <2>6, <2>7, StepIsOf, ClientQueues, ServerQueues, StopperQueues, FateQueues, Zenon
<1> QED
    BY <1>1, <1>2, <1>3, Zenon DEF Ends

-----------------------------------------------------------------------------
(* Who has a file.                                                          *)

HeldBy(f) == \E c \in Clients : f = cl[c].file
Popped(f) == \E c \in Clients : f = cl[c].popped.file
Waiting(f) == host # 0 /\ InRing(f, host)
NotHandled(f) == f[1] \in Unhandled /\ f[2] = "request"
Spared(f) == NotHandled(f) \/ f[3] \in adrift
Safe(f) == Popped(f) \/ f = srv.file \/ Waiting(f) \/ Spared(f)

\* File by file, with the clients that died: somebody held it to the end, or it is safe.
Accounted == \A f \in files : HeldBy(f) \/ Safe(f)

\* The second look after a push: when it finds the session unbroken, the file that is
\* let go of has been taken over by the ring, or by who has popped the entry since.
HandOver ==
    /\ \A c \in Clients : cl[c].pc = "recheck" /\ ~shm[cl[c].session].broken /\ cl[c].file \in files => Safe(cl[c].file)
    /\ srv.pc = "recheck" /\ ~shm[host].broken /\ srv.file \in files =>
          Popped(srv.file) \/ InRing(srv.file, host) \/ Spared(srv.file)

\* After the scan of Stop, the files of the rings are those of pushes that will be
\* taken back, because the session is broken.
Swept ==
    stop = "drain" /\ host \notin adrift =>
        \A f \in files : InRing(f, host) => HeldBy(f) \/ f = srv.file \/ NotHandled(f)

\* A file in the ring of a session is of that session.
LEMMA RingFileName ==
    ASSUME Types, FileNames, NEW s \in Sessions, NEW f \in files, InRing(f, s)
    PROVE f[3] = s
<1>1. f # NoFile
    BY TypesGive, Zenon
<1>2. \E p, kind : f = <<p, kind, s>>
    BY <1>1, ZenonT(60) DEF InRing, HasFile, FileNames, RingNames, Named
<1> QED
    BY <1>2, SMT, Z3

\* A file in the hand of the server is the request or the reply it works on.
LEMMA ServerFileName ==
    ASSUME Types, FileNames, srv.file \in files
    PROVE /\ srv.file[3] = host /\ host # 0
          /\ srv.pc = "resolve" => srv.file = <<srv.from, "request", host>>
          /\ srv.pc # "resolve" => srv.file = <<srv.from, "reply", host>> /\ srv.pc \in {"push", "append", "recheck"}
<1>1. srv.file # NoFile /\ srv \in ServerStates
    BY TypesGive, Zenon
<1>2. srv.pc \in {"idle", "resolve", "push", "append", "recheck", "mark", "scan"}
    BY <1>1, Zenon DEF ServerStates
<1>3. /\ srv.pc = "resolve" => srv.file = <<srv.from, "request", host>>
      /\ srv.pc # "resolve" => srv.file = <<srv.from, "reply", host>> /\ srv.pc \in {"push", "append", "recheck"}
    BY <1>1, <1>2, Zenon DEF FileNames, ServerName
<1>4. srv.file[3] = host
    BY <1>3
<1>5. host # 0
    BY <1>3, Zenon DEF Types, Placed
<1> QED
    BY <1>3, <1>4, <1>5, Zenon

\* A file in the hand of a client is the request it is pushing.
LEMMA ClientFileName ==
    ASSUME Types, FileNames, NEW c \in Clients, cl[c].file \in files
    PROVE /\ cl[c].file = <<c, "request", cl[c].session>> /\ cl[c].file[3] = cl[c].session
          /\ cl[c].pc \in {"push", "append", "recheck"}
<1>1. cl[c].file # NoFile
    BY TypesGive, Zenon
<1> QED
    BY <1>1, SMT, Z3 DEF FileNames, ClientName

\* The records of the clients other than the one that steps are the same.
LEMMA PoppedStays ==
    ASSUME Types, [Next]_vars, NEW f \in files, f \in files', Popped(f)
    PROVE Popped(f)'
<1>0. f # NoFile /\ NoEntry.file = NoFile
    BY TypesGive, Zenon DEF NoEntry
<1>1. PICK d \in Clients : f = cl[d].popped.file
    BY Zenon DEF Popped
<1>2. CASE UNCHANGED cl
    BY <1>1, <1>2, Zenon DEF Popped
<1>3. ASSUME NEW c \in Clients, Client(c) PROVE Popped(f)'
    <2>0. cl[c] \in ClientStates
        BY TypesGive, Zenon
    <2>1. ASSUME NEW r, NewClient(c, r), r.popped = cl[c].popped PROVE Popped(f)'
        BY <1>1, <2>1, Zenon DEF NewClient, Popped
    <2>2. CASE Open(c)
        BY <2>0, <2>1, <2>2, OpenStep, Zenon DEF ClientStates
    <2>3. CASE Attach(c)
        <3>1. \/ NewClient(c, [cl[c] EXCEPT !.pc = "alive"])
              \/ NewClient(c, [cl[c] EXCEPT !.session = 0, !.pc = "idle", !.request = "failed"])
            BY <2>3, AttachStep, Zenon
        <3> QED
            BY <2>0, <2>1, <3>1, Zenon DEF ClientStates
    <2>4. CASE SetAlive(c)
        <3>1. NewClient(c, [cl[c] EXCEPT !.pc = "attached"])
            BY <2>4, SetAliveStep, Zenon
        <3> QED
            BY <2>0, <2>1, <3>1, Zenon DEF ClientStates
    <2>5. CASE Prepare(c)
        <3>1. PICK g : NewClient(c, [cl[c] EXCEPT !.file = g, !.sent = TRUE, !.pc = "push"])
            BY <2>5, PrepareStep, Zenon
        <3> QED
            BY <2>0, <2>1, <3>1, Zenon DEF ClientStates
    <2>6. CASE PushCheck(c)
        <3>1. NewClient(c, GivenUp(c)) \/ NewClient(c, [cl[c] EXCEPT !.request = "pending", !.pc = "append"])
            BY <2>6, PushCheckStep, Zenon
        <3> QED
            BY <2>0, <2>1, <3>1, Zenon DEF ClientStates, GivenUp
    <2>7. CASE PushRequest(c)
        <3>1. NewClient(c, [cl[c] EXCEPT !.pc = "recheck"])
            BY <2>7, PushRequestStep, Zenon
        <3> QED
            BY <2>0, <2>1, <3>1, Zenon DEF ClientStates
    <2>8. CASE PushRecheck(c)
        <3>1. NewClient(c, GivenUp(c)) \/ NewClient(c, [cl[c] EXCEPT !.file = NoFile, !.pc = "attached"])
            BY <2>8, PushRecheckStep, Zenon
        <3> QED
            BY <2>0, <2>1, <3>1, Zenon DEF ClientStates, GivenUp
    <2>9. CASE PopResponse(c)
        <3>1. cl[c].popped = NoEntry /\ \A e \in Clients : e # c => cl'[e] = cl[e]
            BY <2>9, PopResponseStep, Zenon DEF NewClient
        <3>2. d # c
            BY <1>0, <1>1, <3>1, Zenon
        <3> QED
            BY <1>1, <3>1, <3>2, Zenon DEF Popped
    <2>10. CASE ResolveCompletedRequest(c)
        <3>1. files' = files \ {cl[c].popped.file} /\ \A e \in Clients : e # c => cl'[e] = cl[e]
            BY <2>10, ResolveStep, Zenon DEF NewClient
        <3>2. d # c
            BY <1>1, <3>1, Zenon
        <3> QED
            BY <1>1, <3>1, <3>2, Zenon DEF Popped
    <2>11. CASE Expire(c)
        <3>1. NewClient(c, [cl[c] EXCEPT !.request = "failed"])
            BY <2>11, ExpireStep, Zenon
        <3> QED
            BY <2>0, <2>1, <3>1, Zenon DEF ClientStates
    <2>12. CASE Close(c)
        <3>1. PICK q : NewClient(c, [cl[c] EXCEPT !.session = 0, !.pc = "bye", !.request = q])
            BY <2>12, CloseStep, Zenon
        <3> QED
            BY <2>0, <2>1, <3>1, Zenon DEF ClientStates
    <2>13. CASE Bye(c)
        <3>1. NewClient(c, [cl[c] EXCEPT !.pc = "idle"])
            BY <2>13, ByeStep, Zenon
        <3> QED
            BY <2>0, <2>1, <3>1, Zenon DEF ClientStates
    <2> QED
        BY <1>3, <2>2, <2>3, <2>4, <2>5, <2>6, <2>7, <2>8, <2>9, <2>10, <2>11, <2>12, <2>13, Zenon DEF Client
<1>4. CASE UNCHANGED vars
    BY <1>2, <1>4, Zenon DEF vars
<1> QED
    BY <1>2, <1>3, <1>4, StepIsOf, ServerKeeps, StopperKeeps, FateKeeps, Zenon

\* A file that the property excepts stays excepted.
LEMMA SparedStays ==
    ASSUME Types, [Next]_vars, NEW f, Spared(f)
    PROVE Spared(f)'
<1>1. adrift \subseteq adrift'
    <2>1. ASSUME NEW c \in Clients, Client(c) PROVE adrift \subseteq adrift'
        BY <2>1, Zenon DEF Client, Open, Attach, SetAlive, Prepare, PushCheck, PushRequest, PushRecheck, PopResponse,
            ResolveCompletedRequest, Expire, Close, Bye, history
    <2>2. CASE Fate
        BY <2>2, Zenon DEF Fate, Die, EngineDies, EngineStarts, history
    <2>3. CASE UNCHANGED vars
        BY <2>3, Zenon DEF vars
    <2> QED
        BY <2>1, <2>2, <2>3, StepIsOf, ServerKeeps, StopperKeeps, Zenon
<1> QED
    BY <1>1, Zenon DEF Spared, NotHandled

\* What the server has in hand stays there, but for the reply that it lets go of after
\* its second look, and the request that has no handler.
LEMMA ServerFileStays ==
    ASSUME Types, FileNames, [Next]_vars, NEW f \in files, f \in files', f = srv.file
    PROVE f = srv'.file \/ NotHandled(f) \/ EngineDies \/ (ResponseRecheck /\ srv.pc = "recheck" /\ ~shm[host].broken)
<1>0. srv.file # NoFile
    BY TypesGive, Zenon
<1>1. CASE InvokeHandler
    <2>1. srv.pc = "resolve" /\ (srv.file = srv'.file \/ srv.from \in Unhandled)
        BY <1>1, InvokeHandlerStep, Zenon
    <2>2. srv.file = <<srv.from, "request", host>>
        BY <2>1, ServerFileName, Zenon
    <2>3. f[1] = srv.from /\ f[2] = "request"
        BY <2>2
    <2> QED
        BY <2>1, <2>3, Zenon DEF NotHandled
<1>2. CASE PopRequest
    <2>1. srv.pc = "idle"
        BY <1>2, PopRequestStep, Zenon
    <2> QED
        BY <1>0, <2>1, Zenon DEF FileNames, ServerName
<1>3. CASE ResponseCheck
    BY <1>3, ResponseCheckStep, Zenon
<1>4. CASE PushResponse
    BY <1>4, PushResponseStep, Zenon
<1>5. CASE ResponseRecheck
    BY <1>5, ResponseRecheckStep, Zenon
<1>6. CASE MarkSessionBroken
    BY <1>6, MarkStep, Zenon
<1>7. CASE RemovePendingFilePayloads
    <2>1. srv.pc = "scan"
        BY <1>7, ScanStep, Zenon
    <2> QED
        BY <1>0, <2>1, Zenon DEF FileNames, ServerName
<1>8. CASE Fate /\ ~EngineDies
    BY <1>8, Zenon DEF Fate, Die, EngineStarts
<1>9. CASE UNCHANGED vars
    BY <1>9, Zenon DEF vars
<1> QED
    BY <1>1, <1>2, <1>3, <1>4, <1>5, <1>6, <1>7, <1>8, <1>9, StepIsOf, ClientKeeps, StopperKeeps, Zenon DEF Server

\* What is in a ring of the host's session.
LEMMA WaitingStays ==
    ASSUME Types, FileNames, [Next]_vars, ~StopEnd, NEW f \in files, Waiting(f)
    PROVE Waiting(f)' \/ Popped(f)' \/ Spared(f)' \/ (PopRequest /\ f = srv'.file)
<1>0. host # 0 /\ host \in Sessions /\ InRing(f, host)
    BY TypesGive, Zenon DEF Waiting
<1>1. CASE EngineDies
    <2>1. f[3] = host
        BY <1>0, RingFileName, Zenon
    <2> QED
        BY <1>0, <1>1, <2>1, Zenon DEF EngineDies, Spared
<1>2. UNCHANGED host \/ EngineDies
    BY <1>0, HostStep, Zenon
<1>3. CASE UNCHANGED host /\ SameQueues
    BY <1>0, <1>3, Zenon DEF SameQueues, Waiting, InRing, HasFile
<1>4. ASSUME NEW c \in Clients, PushRequest(c), UNCHANGED host PROVE Waiting(f)'
    <2> DEFINE s == cl[c].session
               e == [from |-> c, file |-> cl[c].file]
    <2>1. s \in Sessions /\ e \in Entries /\ NewShm(s, [shm[s] EXCEPT !.req = Append(shm[s].req, e)])
        BY <1>4, PushRequestStep, Zenon
    <2> HIDE DEF e
    <2>2. shm'[s].req = Append(shm[s].req, e) /\ shm'[s].resp = shm[s].resp /\ shm[s].req \in Seq(Entries)
        BY <2>1, PushedRing, Zenon
    <2>3. HasFile(shm[s].req, f) => HasFile(shm'[s].req, f)
        BY <2>1, <2>2, FilesOfAppend, Zenon
    <2>4. host # s => shm'[host] = shm[host]
        BY <1>0, <2>1, Zenon DEF NewShm
    <2> HIDE DEF s
    <2> QED
        BY <1>0, <1>4, <2>2, <2>3, <2>4, Zenon DEF Waiting, InRing
<1>5. CASE PushResponse
    <2> DEFINE e == [from |-> srv.from, file |-> srv.file]
    <2>1. e \in Entries /\ NewShm(host, [shm[host] EXCEPT !.resp = Append(shm[host].resp, e)]) /\ UNCHANGED host
        BY <1>5, PushResponseStep, Zenon
    <2> HIDE DEF e
    <2>2. shm'[host].resp = Append(shm[host].resp, e) /\ shm'[host].req = shm[host].req /\ shm[host].resp \in Seq(Entries)
        BY <1>0, <2>1, PushedRing, Zenon
    <2>3. HasFile(shm[host].resp, f) => HasFile(shm'[host].resp, f)
        BY <2>1, <2>2, FilesOfAppend, Zenon
    <2> QED
        BY <1>0, <2>1, <2>2, <2>3, Zenon DEF Waiting, InRing
<1>6. ASSUME NEW c \in Clients, PopResponse(c), UNCHANGED host PROVE Waiting(f)' \/ Popped(f)'
    <2> DEFINE s == cl[c].session
    <2>1. /\ s \in Sessions /\ NewShm(s, [shm[s] EXCEPT !.resp = Tail(shm[s].resp)])
          /\ shm[s].resp \in Seq(Entries) /\ shm[s].resp # <<>>
          /\ NewClient(c, [cl[c] EXCEPT !.popped = Head(shm[s].resp)])
        BY <1>6, PopResponseStep, Zenon
    <2>2. shm'[s].resp = Tail(shm[s].resp) /\ shm'[s].req = shm[s].req
        BY <2>1, PoppedRing, Zenon
    <2>3. HasFile(shm[s].resp, f) => HasFile(shm'[s].resp, f) \/ Head(shm[s].resp).file = f
        BY <2>1, <2>2, FilesOfTail, ZenonT(200)
    <2>4. cl'[c].popped = Head(shm[s].resp)
        <3>1. cl[c] \in ClientStates
            BY TypesGive, Zenon
        <3> QED
            BY <2>1, <3>1, Zenon DEF NewClient, ClientStates
    <2>5. host # s => shm'[host] = shm[host]
        BY <1>0, <2>1, Zenon DEF NewShm
    <2> HIDE DEF s
    <2> QED
        BY <1>0, <1>6, <2>2, <2>3, <2>4, <2>5, Zenon DEF Waiting, InRing, Popped
<1>7. CASE PopRequest
    <2>1. /\ NewShm(host, [shm[host] EXCEPT !.req = Tail(shm[host].req)])
          /\ shm[host].req \in Seq(Entries) /\ shm[host].req # <<>>
          /\ srv'.file = Head(shm[host].req).file /\ UNCHANGED host
        BY <1>7, PopRequestStep, Zenon
    <2>2. shm'[host].req = Tail(shm[host].req) /\ shm'[host].resp = shm[host].resp
        BY <1>0, <2>1, PoppedRing, Zenon
    <2>3. HasFile(shm[host].req, f) => HasFile(shm'[host].req, f) \/ Head(shm[host].req).file = f
        BY <2>1, <2>2, FilesOfTail, ZenonT(200)
    <2> QED
        BY <1>0, <1>7, <2>1, <2>2, <2>3, Zenon DEF Waiting, InRing
<1>8. CASE UNCHANGED vars
    <2>1. SameQueues /\ UNCHANGED host
        BY <1>8, Zenon DEF vars, SameQueues
    <2> QED
        BY <1>3, <2>1, Zenon
<1> QED
    BY <1>1, <1>2, <1>3, <1>4, <1>5, <1>6, <1>7, <1>8, StepIsOf, ClientQueues, ServerQueues, StopperQueues, FateQueues, Zenon

\* A safe file stays safe while it exists and Stop does not end.
LEMMA SafeStays ==
    ASSUME Types, FileNames, HandOver, [Next]_vars, ~StopEnd, NEW f \in files, f \in files', Safe(f)
    PROVE Safe(f)'
<1>1. CASE Popped(f)
    BY <1>1, PoppedStays, Zenon DEF Safe
<1>2. CASE Spared(f)
    BY <1>2, SparedStays, Zenon DEF Safe
<1>3. CASE Waiting(f)
    BY <1>3, WaitingStays, Zenon DEF Safe
<1>4. CASE f = srv.file
    <2>1. CASE EngineDies
        <3>1. f[3] = host /\ host # 0
            BY <1>4, ServerFileName, Zenon
        <3> QED
            BY <2>1, <3>1, Zenon DEF EngineDies, Safe, Spared
    <2>2. CASE ResponseRecheck /\ srv.pc = "recheck" /\ ~shm[host].broken
        <3>1. host \in Sessions
            BY <2>2, ResponseRecheckStep, Zenon
        <3>2. Popped(f) \/ Waiting(f) \/ Spared(f)
            BY <1>4, <2>2, <3>1, ZeroIsNoSession, Zenon DEF HandOver, Waiting
        <3> QED
            BY <1>1, <1>2, <1>3, <3>2, Zenon
    <2>3. CASE NotHandled(f)
        BY <1>2, <2>3, Zenon DEF Spared
    <2>4. CASE f = srv'.file
        BY <2>4, Zenon DEF Safe
    <2> QED
        BY <1>4, <2>1, <2>2, <2>3, <2>4, ServerFileStays, Zenon
<1> QED
    BY <1>1, <1>2, <1>3, <1>4, Zenon DEF Safe

\* Files are written by a handler that replies and by a client that prepares.
LEMMA NewFiles ==
    ASSUME Types, [Next]_vars, NEW f \in files'
    PROVE f \in files \/ (InvokeHandler /\ f = srv'.file) \/ (\E c \in Clients : Prepare(c) /\ cl'[c].file = f /\ cl'[c].pc = "push")
<1>1. ASSUME NEW c \in Clients, Prepare(c) PROVE f \in files \/ (cl'[c].file = f /\ cl'[c].pc = "push")
    <2> DEFINE g == TransportFile(c, BigRequests, "request", cl[c].session)
    <2>1. NewClient(c, [cl[c] EXCEPT !.file = g, !.sent = TRUE, !.pc = "push"]) /\ \A h \in files' : h \in files \/ h = g
        BY <1>1, PrepareStep, Zenon
    <2>2. cl[c] \in ClientStates
        BY TypesGive, Zenon
    <2> HIDE DEF g
    <2>3. cl'[c].file = g /\ cl'[c].pc = "push"
        BY <2>1, <2>2, Zenon DEF NewClient, ClientStates
    <2> QED
        BY <2>1, <2>3, Zenon
<1>2. ASSUME NEW c \in Clients, Client(c), ~Prepare(c) PROVE files' \subseteq files
    <2>1. CASE Open(c) \/ Attach(c) \/ SetAlive(c) \/ PushRequest(c) \/ PopResponse(c) \/ Expire(c) \/ Close(c) \/ Bye(c)
        BY <2>1, Zenon DEF Open, Attach, SetAlive, PushRequest, PopResponse, Expire, Close, Bye
    <2>2. CASE PushCheck(c) \/ PushRecheck(c) \/ ResolveCompletedRequest(c)
        BY <2>2, PushCheckStep, PushRecheckStep, ResolveStep, Zenon
    <2> QED
        BY <1>2, <2>1, <2>2, Zenon DEF Client
<1>3. CASE InvokeHandler
    BY <1>3, InvokeHandlerStep, Zenon
<1>4. CASE PopRequest \/ PushResponse \/ MarkSessionBroken
    BY <1>4, Zenon DEF PopRequest, PushResponse, MarkSessionBroken
<1>5. CASE ResponseCheck \/ ResponseRecheck \/ RemovePendingFilePayloads
    BY <1>5, ResponseCheckStep, ResponseRecheckStep, ScanStep, Zenon
<1>6. CASE Stopper
    BY <1>6, Zenon DEF Stopper, StopBegin, StopScan, StopEnd
<1>7. CASE Fate
    BY <1>7, Zenon DEF Fate, Die, EngineDies, EngineStarts
<1>8. CASE UNCHANGED vars
    BY <1>8, Zenon DEF vars
<1> QED
    BY <1>1, <1>2, <1>3, <1>4, <1>5, <1>6, <1>7, <1>8, StepIsOf, Zenon DEF Server

\* What a client does between push and second look.
LEMMA ClientFileStep ==
    ASSUME Types, NEW c \in Clients, Client(c)
    PROVE \/ cl'[c].file = cl[c].file /\ cl'[c].session = cl[c].session /\ cl'[c].pc = cl[c].pc
          \/ PushRequest(c) /\ cl'[c].file = cl[c].file /\ cl'[c].session = cl[c].session /\ cl'[c].pc = "recheck"
          \/ PushCheck(c) /\ cl'[c].file = cl[c].file /\ cl'[c].pc = "append"
          \/ PushRecheck(c) /\ cl[c].pc = "recheck" /\ ~shm[cl[c].session].broken /\ cl'[c].pc # "recheck"
          \/ cl[c].file \notin files' /\ cl'[c].pc # "recheck"
          \/ cl[c].pc \notin {"push", "append", "recheck"} /\ cl'[c].pc # "recheck"
<1>0. cl[c] \in ClientStates
    BY TypesGive, Zenon
<1>1. CASE Open(c)
    BY <1>0, <1>1, OpenStep, Zenon DEF ClientStates, NewClient
<1>2. CASE Attach(c)
    <2>1. \/ NewClient(c, [cl[c] EXCEPT !.pc = "alive"])
          \/ NewClient(c, [cl[c] EXCEPT !.session = 0, !.pc = "idle", !.request = "failed"])
        BY <1>2, AttachStep, Zenon
    <2>2. cl[c].pc = "opened"
        BY <1>2, AttachStep, Zenon
    <2> QED
        BY <1>0, <2>1, <2>2, Zenon DEF ClientStates, NewClient
<1>3. CASE SetAlive(c)
    <2>1. NewClient(c, [cl[c] EXCEPT !.pc = "attached"]) /\ cl[c].pc = "alive"
        BY <1>3, SetAliveStep, Zenon
    <2> QED
        BY <1>0, <2>1, Zenon DEF ClientStates, NewClient
<1>4. CASE Prepare(c)
    <2>1. cl[c].pc = "attached" /\ \E g : NewClient(c, [cl[c] EXCEPT !.file = g, !.sent = TRUE, !.pc = "push"])
        BY <1>4, PrepareStep, Zenon
    <2> QED
        BY <1>0, <2>1, Zenon DEF ClientStates, NewClient
<1>5. CASE PushCheck(c)
    <2>1. \/ NewClient(c, GivenUp(c)) /\ files' = files \ {cl[c].file}
          \/ NewClient(c, [cl[c] EXCEPT !.request = "pending", !.pc = "append"])
        BY <1>5, PushCheckStep, Zenon
    <2> QED
        BY <1>0, <1>5, <2>1, Zenon DEF ClientStates, NewClient, GivenUp
<1>6. CASE PushRequest(c)
    <2>1. NewClient(c, [cl[c] EXCEPT !.pc = "recheck"])
        BY <1>6, PushRequestStep, Zenon
    <2> QED
        BY <1>0, <1>6, <2>1, Zenon DEF ClientStates, NewClient
<1>7. CASE PushRecheck(c)
    <2>1. \/ NewClient(c, GivenUp(c)) /\ files' = files \ {cl[c].file}
          \/ NewClient(c, [cl[c] EXCEPT !.file = NoFile, !.pc = "attached"]) /\ ~shm[cl[c].session].broken
        BY <1>7, PushRecheckStep, Zenon
    <2>2. cl[c].pc = "recheck"
        BY <1>7, PushRecheckStep, Zenon
    <2> QED
        BY <1>0, <1>7, <2>1, <2>2, Zenon DEF ClientStates, NewClient, GivenUp
<1>8. CASE PopResponse(c)
    <2>1. NewClient(c, [cl[c] EXCEPT !.popped = Head(shm[cl[c].session].resp)])
        BY <1>8, PopResponseStep, Zenon
    <2> QED
        BY <1>0, <2>1, Zenon DEF ClientStates, NewClient
<1>9. CASE ResolveCompletedRequest(c)
    <2>1. \/ NewClient(c, [cl[c] EXCEPT !.popped = NoEntry])
          \/ NewClient(c, [cl[c] EXCEPT !.popped = NoEntry, !.request = "done"])
        BY <1>9, ResolveStep, Zenon
    <2> QED
        BY <1>0, <2>1, ZenonT(60) DEF ClientStates, NewClient
<1>10. CASE Expire(c)
    <2>1. NewClient(c, [cl[c] EXCEPT !.request = "failed"])
        BY <1>10, ExpireStep, Zenon
    <2> QED
        BY <1>0, <2>1, Zenon DEF ClientStates, NewClient
<1>11. CASE Close(c)
    <2>1. cl[c].pc = "attached" /\ \E q : NewClient(c, [cl[c] EXCEPT !.session = 0, !.pc = "bye", !.request = q])
        BY <1>11, CloseStep, Zenon
    <2> QED
        BY <1>0, <2>1, Zenon DEF ClientStates, NewClient
<1>12. CASE Bye(c)
    <2>1. NewClient(c, [cl[c] EXCEPT !.pc = "idle"]) /\ cl[c].pc = "bye"
        BY <1>12, ByeStep, Zenon
    <2> QED
        BY <1>0, <2>1, Zenon DEF ClientStates, NewClient
<1> QED
    BY <1>1, <1>2, <1>3, <1>4, <1>5, <1>6, <1>7, <1>8, <1>9, <1>10, <1>11, <1>12, Zenon DEF Client

\* A client writes its own record only.
LEMMA OthersStay ==
    ASSUME Types, NEW c \in Clients, Client(c), NEW d \in Clients, d # c
    PROVE cl'[d] = cl[d]
<1>1. ASSUME NEW r, NewClient(c, r) PROVE cl'[d] = cl[d]
    BY <1>1, Zenon DEF NewClient
<1>2. CASE Open(c) \/ Attach(c) \/ SetAlive(c) \/ Prepare(c)
    BY <1>1, <1>2, OpenStep, AttachStep, SetAliveStep, PrepareStep, Zenon
<1>3. CASE PushCheck(c) \/ PushRequest(c) \/ PushRecheck(c)
    BY <1>1, <1>3, PushCheckStep, PushRequestStep, PushRecheckStep, Zenon
<1>4. CASE PopResponse(c) \/ ResolveCompletedRequest(c) \/ Expire(c)
    BY <1>1, <1>4, PopResponseStep, ResolveStep, ExpireStep, Zenon
<1>5. CASE Close(c) \/ Bye(c)
    BY <1>1, <1>5, CloseStep, ByeStep, Zenon
<1> QED
    BY <1>2, <1>3, <1>4, <1>5, Zenon DEF Client

\* A client keeps its file until it takes it back, or finds the session unbroken.
LEMMA HeldStays ==
    ASSUME Types, FileNames, [Next]_vars, NEW f \in files, f \in files', HeldBy(f)
    PROVE HeldBy(f)' \/ \E c \in Clients : PushRecheck(c) /\ f = cl[c].file /\ cl[c].pc = "recheck" /\ ~shm[cl[c].session].broken
<1>1. PICK d \in Clients : f = cl[d].file
    BY Zenon DEF HeldBy
<1>2. cl[d].pc \in {"push", "append", "recheck"}
    BY <1>1, ClientFileName, Zenon
<1>3. CASE cl'[d] = cl[d]
    BY <1>1, <1>3, Zenon DEF HeldBy
<1>4. CASE Client(d)
    BY <1>1, <1>2, <1>4, ClientFileStep, Zenon DEF HeldBy
<1>5. ASSUME NEW c \in Clients, Client(c), c # d PROVE cl'[d] = cl[d]
    BY <1>5, OthersStay, Zenon
<1>6. CASE UNCHANGED vars
    BY <1>3, <1>6, Zenon DEF vars
<1> QED
    BY <1>3, <1>4, <1>5, <1>6, StepIsOf, ServerKeeps, StopperKeeps, FateKeeps, Zenon

PFInv == Types /\ FileNames /\ Ends /\ HandOver /\ Swept

\* When Stop ends nothing but the rings of the session is lost sight of.
LEMMA SafeAtStopEnd ==
    ASSUME PFInv, [Next]_vars, StopEnd, NEW f \in files, Safe(f), ~(InRing(f, host) /\ host # 0)
    PROVE f \in files' /\ Safe(f)'
<1>1. srv.pc = "idle" /\ files' = files
    BY Zenon DEF StopEnd
<1>2. f # srv.file
    BY <1>1, TypesGive, Zenon DEF PFInv, FileNames, ServerName
<1>3. Popped(f) \/ Spared(f)
    BY <1>2, Zenon DEF Safe, Waiting
<1> QED
    BY <1>1, <1>3, PoppedStays, SparedStays, Zenon DEF Safe, PFInv

\* A client whose push is about to find the session unbroken has handed its file over.
LEMMA ClientHandOver ==
    ASSUME PFInv, FileNames', Types', [Next]_vars, NEW c \in Clients,
           cl'[c].pc = "recheck", ~shm'[cl'[c].session].broken, NEW f \in files', f = cl'[c].file
    PROVE Safe(f)'
<1> USE DEF PFInv
<1>0. f # NoFile
    BY ProcessesAssumption, SMT, Z3 DEF Types, TypeOK, Files, NoFile
<1>1. f = <<c, "request", cl'[c].session>>
    BY <1>0, Zenon DEF FileNames, ClientName
<1>2. /\ cl'[c].file = cl[c].file /\ cl'[c].session = cl[c].session
      /\ cl[c].pc = "recheck" \/ PushRequest(c)
    <2>1. CASE cl'[c] = cl[c]
        BY <2>1, Zenon
    <2>2. CASE Client(c)
        BY <2>2, ClientFileStep, Zenon
    <2>3. ASSUME NEW d \in Clients, Client(d), d # c PROVE cl'[c] = cl[c]
        BY <2>3, OthersStay, Zenon
    <2>4. CASE UNCHANGED vars
        BY <2>1, <2>4, Zenon DEF vars
    <2> QED
        BY <2>1, <2>2, <2>3, <2>4, StepIsOf, ServerKeeps, StopperKeeps, FateKeeps, Zenon
<1> DEFINE s == cl[c].session
<1>3. f[3] = s
    BY <1>1, <1>2, SMT, Z3
<1>4. CASE s \in adrift'
    BY <1>3, <1>4, Zenon DEF Safe, Spared
<1>5. ASSUME s \notin adrift', cl[c].pc = "recheck"
      PROVE Safe(f)'
    <2>1. s \in Sessions
        BY <1>5, TypesGive, Zenon
    <2>2. ~shm[s].broken
        BY <1>2, <1>5, <2>1, StaysBroken, Zenon
    <2>3. CASE f \in files
        <3>1. Safe(f)
            BY <1>2, <1>5, <2>2, <2>3, Zenon DEF HandOver
        <3>2. CASE ~StopEnd
            BY <2>3, <3>1, <3>2, SafeStays, Zenon
        <3>3. CASE StopEnd
            <4>1. stop # "idle" /\ shm' = shm /\ adrift' = adrift
                BY <3>3, Zenon DEF StopEnd, history
            <4>2. shm[host].broken \/ host \in adrift
                BY <4>1, Zenon DEF Ends
            <4>3. s # host
                BY <1>5, <2>2, <4>1, <4>2, Zenon
            <4>4. host # 0 => host \in Sessions
                BY TypesGive, Zenon
            <4>5. ~(InRing(f, host) /\ host # 0)
                BY <1>3, <2>3, <4>3, <4>4, RingFileName, Zenon
            <4> QED
                BY <2>3, <3>1, <3>3, <4>5, SafeAtStopEnd, Zenon
        <3> QED
            BY <3>2, <3>3, Zenon
    <2>4. CASE f = srv'.file
        BY <2>4, Zenon DEF Safe
    <2>5. ASSUME NEW d \in Clients, cl'[d].file = f, cl'[d].pc = "push" PROVE FALSE
        <3>1. f = <<d, "request", cl'[d].session>>
            BY <1>0, <2>5, Zenon DEF FileNames, ClientName
        <3>2. d = c
            BY <1>1, <3>1, SMT, Z3
        <3> QED
            BY <2>5, <3>2, Zenon
    <2> QED
        BY <2>3, <2>4, <2>5, NewFiles, Zenon
<1>6. ASSUME s \notin adrift', PushRequest(c)
      PROVE Safe(f)'
    <2> DEFINE e == [from |-> c, file |-> cl[c].file]
    <2>1. s \in Sessions /\ e \in Entries /\ NewShm(s, [shm[s] EXCEPT !.req = Append(shm[s].req, e)]) /\ UNCHANGED <<host, adrift>>
        BY <1>6, PushRequestStep, Zenon
    <2>2. e.file = f
        BY <1>2, Zenon
    <2> HIDE DEF e
    <2>3. shm'[s].req = Append(shm[s].req, e) /\ shm[s].req \in Seq(Entries) /\ shm'[s].broken = shm[s].broken
        BY <2>1, PushedRing, Zenon
    <2>4. HasFile(shm'[s].req, f)
        BY <2>1, <2>2, <2>3, FilesOfAppend, Zenon
    <2>5. s <= created
        BY Zenon DEF Types, Placed
    <2>6. s = host
        BY <1>2, <1>6, <2>1, <2>3, <2>5, Zenon DEF Ends
    <2>7. host' # 0 /\ host' = s
        BY <2>1, <2>6, ZeroIsNoSession, Zenon
    <2> HIDE DEF s
    <2> QED
        BY <2>4, <2>7, Zenon DEF Safe, Waiting, InRing
<1> QED
    BY <1>2, <1>4, <1>5, <1>6, Zenon

\* The server comes to its second test by publishing, and waits there undisturbed.
LEMMA ServerRecheckStep ==
    ASSUME Types, [Next]_vars, srv'.pc = "recheck"
    PROVE PushResponse \/ (srv' = srv /\ ~InvokeHandler /\ ~StopEnd /\ ~EngineDies)
<1>1. CASE PopRequest
    BY <1>1, PopRequestStep, Zenon
<1>2. CASE InvokeHandler
    BY <1>2, InvokeHandlerStep, Zenon
<1>3. CASE ResponseCheck \/ ResponseRecheck
    BY <1>3, ResponseCheckStep, ResponseRecheckStep, Zenon
<1>4. CASE MarkSessionBroken
    BY <1>4, MarkStep, Zenon
<1>5. CASE RemovePendingFilePayloads
    BY <1>5, ScanStep, Zenon
<1>6. ~EngineDies
    BY DEF EngineDies, IdleServer
<1>7. CASE StopEnd
    BY <1>7, Zenon DEF StopEnd
<1>8. ASSUME ~Server
      PROVE srv' = srv
    <2>1. CASE Fate
        BY <1>6, <2>1, Zenon DEF Fate, Die, EngineStarts
    <2>2. CASE UNCHANGED vars
        BY <2>2, Zenon DEF vars
    <2> QED
        BY <1>8, <2>1, <2>2, StepIsOf, ClientKeeps, StopperKeeps, Zenon
<1> QED
    BY <1>1, <1>2, <1>3, <1>4, <1>5, <1>6, <1>7, <1>8, Zenon DEF Server

\* The server whose push is about to find the session unbroken has handed its file over.
LEMMA ServerHandOver ==
    ASSUME PFInv, FileNames', Types', [Next]_vars,
           srv'.pc = "recheck", ~shm'[host'].broken, NEW f \in files', f = srv'.file
    PROVE Popped(f)' \/ InRing(f, host)' \/ Spared(f)'
<1> USE DEF PFInv
<1>0. f # NoFile
    BY ProcessesAssumption, SMTT(60), Z3T(60) DEF Types, TypeOK, Files, NoFile
<1>1. f = <<srv'.from, "reply", host'>>
    BY <1>0, Zenon DEF FileNames, ServerName
<1>2. CASE PushResponse
    <2> DEFINE e == [from |-> srv.from, file |-> srv.file]
    <2>1. /\ host \in Sessions /\ e \in Entries /\ NewShm(host, [shm[host] EXCEPT !.resp = Append(shm[host].resp, e)])
          /\ UNCHANGED host /\ srv'.file = srv.file
        BY <1>2, PushResponseStep, Zenon
    <2>2. e.file = f
        BY <2>1, Zenon
    <2> HIDE DEF e
    <2>3. shm'[host].resp = Append(shm[host].resp, e) /\ shm[host].resp \in Seq(Entries)
        BY <2>1, PushedRing, Zenon
    <2>4. HasFile(shm'[host].resp, f)
        BY <2>1, <2>2, <2>3, FilesOfAppend, Zenon
    <2> QED
        BY <2>1, <2>4, Zenon DEF InRing
<1>3. ASSUME srv' = srv, ~InvokeHandler, ~StopEnd, ~EngineDies
      PROVE Popped(f)' \/ InRing(f, host)' \/ Spared(f)'
    <2>1. srv.pc = "recheck" /\ host # 0 /\ host \in Sessions
        BY <1>3, TypesGive, Zenon DEF Types, Placed
    <2>2. host' = host
        BY <1>3, <2>1, HostStep, Zenon
    <2>3. ASSUME NEW d \in Clients, cl'[d].file = f PROVE FALSE
        <3>1. f = <<d, "request", cl'[d].session>>
            BY <1>0, <2>3, Zenon DEF FileNames, ClientName
        <3> QED
            BY <1>1, <3>1, SMTT(60), Z3T(60)
    <2>4. f \in files
        BY <1>3, <2>3, NewFiles, Zenon
    <2>5. CASE host \in adrift'
        <3>1. f[3] = host
            BY <1>1, <2>2, SMT, Z3
        <3> QED
            BY <2>5, <3>1, Zenon DEF Spared
    <2>6. CASE host \notin adrift'
        <3>1. ~shm[host].broken
            BY <2>1, <2>2, <2>6, StaysBroken, Zenon
        <3>2. Popped(f) \/ InRing(f, host) \/ Spared(f)
            BY <1>3, <2>1, <2>4, <3>1, Zenon DEF HandOver
        <3>3. ~PopRequest
            BY <2>1, Zenon DEF PopRequest, SrvAt
        <3>4. CASE InRing(f, host)
            <4>1. Waiting(f)
                BY <2>1, <3>4, Zenon DEF Waiting
            <4> QED
                BY <1>3, <2>4, <3>3, <4>1, WaitingStays, Zenon DEF Waiting
        <3> QED
            BY <2>4, <3>2, <3>4, PoppedStays, SparedStays, Zenon
    <2> QED
        BY <2>5, <2>6, Zenon
<1> QED
    BY <1>2, <1>3, ServerRecheckStep, Zenon

\* Every step preserves what pushes have handed over.
LEMMA HandOverStep == PFInv /\ [Next]_vars => HandOver'
<1> SUFFICES ASSUME PFInv, [Next]_vars PROVE HandOver'
    BY Zenon
<1>1. Types' /\ FileNames'
    BY TypesStep, FileNamesStep, Zenon DEF PFInv
<1>2. ASSUME NEW c \in Clients, cl'[c].pc = "recheck", ~shm'[cl'[c].session].broken, cl'[c].file \in files'
      PROVE \A f : f = cl'[c].file => Safe(f)'
    BY <1>1, <1>2, ClientHandOver, Zenon
<1>3. ASSUME srv'.pc = "recheck", ~shm'[host'].broken, srv'.file \in files'
      PROVE \A f : f = srv'.file => Popped(f)' \/ InRing(f, host)' \/ Spared(f)'
    BY <1>1, <1>3, ServerHandOver, Zenon
<1> QED
    BY <1>2, <1>3, Zenon DEF HandOver, Safe, Popped, Waiting, InRing, Spared, NotHandled

\* A file comes into a ring from who holds it, and stays in their hand at first.
LEMMA RingStep ==
    ASSUME Types, [Next]_vars, NEW s \in Sessions, NEW f, InRing(f, s)'
    PROVE InRing(f, s) \/ HeldBy(f)' \/ f = srv'.file
<1>1. CASE SameQueues
    BY <1>1, Zenon DEF SameQueues, InRing
<1>2. ASSUME NEW c \in Clients, PushRequest(c)
      PROVE InRing(f, s) \/ HeldBy(f)'
    <2> DEFINE t == cl[c].session
               e == [from |-> c, file |-> cl[c].file]
    <2>1. /\ t \in Sessions /\ e \in Entries /\ NewShm(t, [shm[t] EXCEPT !.req = Append(shm[t].req, e)])
          /\ NewClient(c, [cl[c] EXCEPT !.pc = "recheck"])
        BY <1>2, PushRequestStep, Zenon
    <2>2. cl'[c].file = cl[c].file
        BY <2>1, TypesGive, Zenon DEF NewClient, ClientStates
    <2>3. e.file = cl'[c].file
        BY <2>2, Zenon
    <2> HIDE DEF t, e
    <2>4. /\ shm'[t].req = Append(shm[t].req, e) /\ shm'[t].resp = shm[t].resp /\ shm[t].req \in Seq(Entries)
          /\ s # t => shm'[s] = shm[s]
        BY <2>1, PushedRing, Zenon DEF NewShm
    <2>5. HasFile(shm'[t].req, f) => HasFile(shm[t].req, f) \/ e.file = f
        <3>1. HasFile(Append(shm[t].req, e), f) <=> HasFile(shm[t].req, f) \/ e.file = f
            BY <2>1, <2>4, FilesOfAppend, Zenon
        <3> QED
            BY <2>4, <3>1, Zenon
    <2> QED
        BY <2>3, <2>4, <2>5, Zenon DEF InRing, HeldBy
<1>3. ASSUME NEW c \in Clients, PopResponse(c)
      PROVE InRing(f, s)
    <2> DEFINE t == cl[c].session
    <2>1. /\ t \in Sessions /\ NewShm(t, [shm[t] EXCEPT !.resp = Tail(shm[t].resp)])
          /\ shm[t].resp \in Seq(Entries) /\ shm[t].resp # <<>>
        BY <1>3, PopResponseStep, Zenon
    <2> HIDE DEF t
    <2>2. /\ shm'[t].resp = Tail(shm[t].resp) /\ shm'[t].req = shm[t].req
          /\ s # t => shm'[s] = shm[s]
        BY <2>1, PoppedRing, Zenon DEF NewShm
    <2>3. HasFile(shm'[t].resp, f) => HasFile(shm[t].resp, f)
        BY <2>1, <2>2, FilesOfTail, ZenonT(60)
    <2> QED
        BY <2>2, <2>3, Zenon DEF InRing
<1>4. CASE PopRequest
    <2>1. /\ host \in Sessions /\ NewShm(host, [shm[host] EXCEPT !.req = Tail(shm[host].req)])
          /\ shm[host].req \in Seq(Entries) /\ shm[host].req # <<>>
        BY <1>4, PopRequestStep, Zenon
    <2>2. /\ shm'[host].req = Tail(shm[host].req) /\ shm'[host].resp = shm[host].resp
          /\ s # host => shm'[s] = shm[s]
        BY <2>1, PoppedRing, Zenon DEF NewShm
    <2>3. HasFile(shm'[host].req, f) => HasFile(shm[host].req, f)
        BY <2>1, <2>2, FilesOfTail, ZenonT(60)
    <2> QED
        BY <2>2, <2>3, Zenon DEF InRing
<1>5. CASE PushResponse
    <2> DEFINE e == [from |-> srv.from, file |-> srv.file]
    <2>1. /\ host \in Sessions /\ e \in Entries /\ NewShm(host, [shm[host] EXCEPT !.resp = Append(shm[host].resp, e)])
          /\ srv'.file = srv.file
        BY <1>5, PushResponseStep, Zenon
    <2>2. e.file = srv'.file
        BY <2>1, Zenon
    <2> HIDE DEF e
    <2>3. /\ shm'[host].resp = Append(shm[host].resp, e) /\ shm'[host].req = shm[host].req
          /\ shm[host].resp \in Seq(Entries) /\ (s # host => shm'[s] = shm[s])
        BY <2>1, PushedRing, Zenon DEF NewShm
    <2>4. HasFile(shm'[host].resp, f) => HasFile(shm[host].resp, f) \/ e.file = f
        <3>1. HasFile(Append(shm[host].resp, e), f) <=> HasFile(shm[host].resp, f) \/ e.file = f
            BY <2>1, <2>3, FilesOfAppend, Zenon
        <3> QED
            BY <2>3, <3>1, Zenon
    <2> QED
        BY <2>2, <2>3, <2>4, Zenon DEF InRing
<1>6. CASE UNCHANGED vars
    BY <1>6, Zenon DEF vars, InRing
<1> QED
    BY <1>1, <1>2, <1>3, <1>4, <1>5, <1>6, StepIsOf, ClientQueues, ServerQueues, StopperQueues, FateQueues, Zenon

\* A file is made in the hand of who will push it.
LEMMA NewIsHeld ==
    ASSUME Types, [Next]_vars, NEW f \in files', f \notin files
    PROVE HeldBy(f)' \/ f = srv'.file
    BY NewFiles, Zenon DEF HeldBy

\* Every step preserves what the scan of Stop has left in the rings.
LEMMA SweptStep == PFInv /\ [Next]_vars => Swept'
<1> SUFFICES ASSUME PFInv, [Next]_vars, stop' = "drain", host' \notin adrift',
                    NEW f \in files', InRing(f, host)'
             PROVE HeldBy(f)' \/ f = srv'.file \/ NotHandled(f)
    BY Zenon DEF Swept, HeldBy, NotHandled
<1> USE DEF PFInv
<1>1. ~StopScan
    <2> SUFFICES ASSUME StopScan PROVE FALSE
        BY Zenon
    <2>1. shm' = shm /\ host' = host /\ files' = files \ RingFiles(host)
        BY Zenon DEF StopScan, hostVars
    <2>2. InRing(f, host)
        BY <2>1, Zenon DEF InRing
    <2> QED
        BY <2>1, <2>2, RingFilesAre, Zenon
<1>2. stop = "drain"
    BY <1>1, StopStep, Zenon
<1>3. ~StopEnd /\ ~EngineDies
    BY Zenon DEF StopEnd, EngineDies
<1>4. host' = host /\ host # 0 /\ host \in Sessions
    <2>1. host # 0 /\ host \in Sessions
        BY <1>2, TypesGive, Zenon DEF Types, Placed
    <2> QED
        BY <1>3, <2>1, HostStep, Zenon
<1>5. host \notin adrift
    BY <1>4, StaysBroken, Zenon
<1>6. shm[host].broken
    BY <1>2, <1>5, Zenon DEF Ends
<1>7. CASE f \notin files
    BY <1>7, NewIsHeld, Zenon
<1>8. ASSUME f \in files, InRing(f, host)
      PROVE HeldBy(f)' \/ f = srv'.file \/ NotHandled(f)
    <2>1. HeldBy(f) \/ f = srv.file \/ NotHandled(f)
        BY <1>2, <1>5, <1>8, Zenon DEF Swept
    <2>2. f[3] = host
        BY <1>4, <1>8, RingFileName, Zenon
    <2>3. CASE HeldBy(f)
        <3>1. ASSUME NEW c \in Clients, f = cl[c].file PROVE cl[c].session = host
            BY <1>8, <2>2, <3>1, ClientFileName, Zenon
        <3> QED
            BY <1>6, <1>8, <2>3, <3>1, HeldStays, Zenon
    <2>4. CASE f = srv.file
        BY <1>3, <1>6, <1>8, <2>4, ServerFileStays, Zenon
    <2> QED
        BY <2>1, <2>3, <2>4, Zenon
<1>9. InRing(f, host) \/ HeldBy(f)' \/ f = srv'.file
    BY <1>4, RingStep, Zenon DEF InRing
<1> QED
    BY <1>7, <1>8, <1>9, Zenon

\* Nobody loses sight of a file that they do not remove or hand over.
LEMMA NoLeftStep == PFInv /\ Accounted /\ [Next]_vars => Accounted'
<1> SUFFICES ASSUME PFInv, Accounted, [Next]_vars, NEW f \in files'
             PROVE HeldBy(f)' \/ Safe(f)'
    BY Zenon DEF Accounted
<1> USE DEF PFInv
<1>1. CASE f \notin files
    BY <1>1, NewIsHeld, Zenon DEF Safe
<1>2. ASSUME f \in files, Safe(f), ~StopEnd
      PROVE Safe(f)'
    BY <1>2, SafeStays, Zenon
<1>3. ASSUME f \in files, HeldBy(f)
      PROVE HeldBy(f)' \/ Safe(f)'
    <2>1. ASSUME NEW c \in Clients, PushRecheck(c), f = cl[c].file, cl[c].pc = "recheck", ~shm[cl[c].session].broken
          PROVE Safe(f)'
        <3>1. Safe(f)
            BY <1>3, <2>1, Zenon DEF HandOver
        <3>2. ~StopEnd
            BY <2>1, PushRecheckStep, Zenon DEF StopEnd, PushRecheck, hostVars
        <3> QED
            BY <1>2, <1>3, <3>1, <3>2, Zenon
    <2> QED
        BY <1>3, <2>1, HeldStays, Zenon
<1>4. ASSUME f \in files, Safe(f), StopEnd
      PROVE HeldBy(f)' \/ Safe(f)'
    <2>1. stop = "drain" /\ srv' = srv /\ cl' = cl /\ adrift' = adrift
        BY <1>4, Zenon DEF StopEnd, history
    <2>2. ASSUME InRing(f, host), host # 0
          PROVE HeldBy(f)' \/ Safe(f)'
        <3>1. host \in Sessions
            BY <2>2, TypesGive, Zenon
        <3>2. CASE host \in adrift
            <4>1. f[3] \in adrift'
                BY <1>4, <2>1, <2>2, <3>1, <3>2, RingFileName, Zenon
            <4> QED
                BY <4>1, Zenon DEF Safe, Spared
        <3>3. CASE host \notin adrift
            <4>1. HeldBy(f) \/ f = srv.file \/ NotHandled(f)
                BY <1>4, <2>1, <2>2, <3>3, Zenon DEF Swept
            <4> QED
                BY <2>1, <4>1, Zenon DEF HeldBy, Safe, Spared, NotHandled
        <3> QED
            BY <3>2, <3>3, Zenon
    <2> QED
        BY <1>4, <2>2, SafeAtStopEnd, Zenon
<1>5. HeldBy(f) \/ Safe(f) \/ f \notin files
    BY Zenon DEF Accounted
<1> QED
    BY <1>1, <1>2, <1>3, <1>4, <1>5, Zenon

\* The initial state satisfies the invariant.
LEMMA InitPFInv == Init => PFInv /\ Accounted
<1> SUFFICES ASSUME Init PROVE PFInv /\ Accounted
    BY Zenon
<1>1. Types
    BY InitTypes, Zenon
<1>2. \A s \in Sessions : shm[s].req = <<>> /\ shm[s].resp = <<>>
    BY Zenon DEF Init, FreshShm
<1>3. RingNames
    BY <1>2, SMT, Z3 DEF RingNames, Named
<1>4. ASSUME NEW c \in Clients PROVE ClientName(c)
    BY Zenon DEF Init, ClientName, IdleClient
<1>5. ServerName
    BY Zenon DEF Init, ServerName, IdleServer
<1>6. Ends
    <2>1. \A s \in Sessions : ~(s <= created)
        BY SMTT(60), Z3T(60) DEF Init, Sessions
    <2> QED
        BY <1>2, <2>1, Zenon DEF Init, Ends
<1>7. HandOver /\ Swept /\ Accounted
    BY Zenon DEF Init, HandOver, Swept, Accounted
<1> QED
    BY <1>1, <1>3, <1>4, <1>5, <1>6, <1>7, Zenon DEF PFInv, FileNames

\* What is accounted for by a dead client alone is what it died with: the push that was
\* done in a session that is not broken has handed the file over.
LEMMA DeadHands == ASSUME PFInv, Accounted PROVE NoFileIsLeft
<1> SUFFICES ASSUME NEW f \in files
             PROVE  \/ \E c \in live : f \in InHand(c)
                    \/ \E c \in Clients \ live : f \in DiedWith(c)
                    \/ f = srv.file \/ (host # 0 /\ f \in RingFiles(host))
                    \/ (f[1] \in Unhandled /\ f[2] = "request") \/ f[3] \in adrift
    BY Zenon DEF NoFileIsLeft
<1> USE DEF PFInv
<1>1. ASSUME Safe(f)
      PROVE  \/ \E c \in live : f \in InHand(c)
             \/ \E c \in Clients \ live : f \in DiedWith(c)
             \/ f = srv.file \/ (host # 0 /\ f \in RingFiles(host))
             \/ (f[1] \in Unhandled /\ f[2] = "request") \/ f[3] \in adrift
    <2>1. \/ f = srv.file \/ (host # 0 /\ f \in RingFiles(host))
          \/ (f[1] \in Unhandled /\ f[2] = "request") \/ f[3] \in adrift
          \/ \E c \in Clients : f = cl[c].popped.file
        BY <1>1, RingFilesAre, Zenon DEF Safe, Popped, Waiting, Spared, NotHandled
    <2>2. ASSUME NEW c \in Clients, f = cl[c].popped.file PROVE f \in InHand(c) /\ f \in DiedWith(c)
        BY <2>2, Zenon DEF InHand, DiedWith
    <2> QED
        BY <2>1, <2>2, Zenon
<1>2. ASSUME NEW c \in Clients, f = cl[c].file, ~Safe(f)
      PROVE  f \in InHand(c) /\ f \in DiedWith(c)
    <2>1. cl[c].pc \in {"push", "append", "recheck"}
        BY <1>2, ClientFileName, Zenon
    <2>2. cl[c].pc = "recheck" => shm[cl[c].session].broken
        BY <1>2, Zenon DEF HandOver
    <2> QED
        BY <1>2, <2>1, <2>2, Zenon DEF InHand, DiedWith
<1>3. HeldBy(f) \/ Safe(f)
    BY Zenon DEF Accounted
<1> QED
    BY <1>1, <1>2, <1>3, Zenon DEF HeldBy

\* NoFileIsLeft, for any number of clients, sessions and deaths: every payload file is in
\* the hand of a live client or of the server's worker, or in the rings of the session the
\* engine serves.  Named exceptions: what a client process died with between the write
\* and the push (or with a reply taken and not read), the request of an opcode without a
\* handler, and a session that nobody stopped in an orderly way.
THEOREM NothingIsLeft == Spec => []NoFileIsLeft
<1>1. PFInv /\ [Next]_vars => PFInv'
    BY TypesStep, FileNamesStep, EndsStep, HandOverStep, SweptStep, Zenon DEF PFInv
<1>2. PFInv /\ Accounted => NoFileIsLeft
    BY DeadHands, Zenon
<1> QED
    BY <1>1, <1>2, InitPFInv, NoLeftStep, PTL DEF Spec

-----------------------------------------------------------------------------
(* The file of an entry is there.  In a session that was never broken, the  *)
(* request of a client exists once: it is in the request ring, with the     *)
(* server, in the response ring or with who popped the reply.  So whoever   *)
(* removes a file removes it for everybody.                                 *)

Whole(s) == ~shm[s].broken /\ s \notin adrift

Mentions(q, d) == \E i \in 1 .. Len(q) : q[i].from = d
Once(q, d) == \A i, j \in 1 .. Len(q) : q[i].from = d /\ q[j].from = d => i = j
Reply(d, s) == <<d, "reply", s>>

\* The places of the request of client d in session s.
Asked(d, s) == Mentions(shm[s].req, d)
AtServer(d, s) == host = s /\ srv.from = d /\ srv.pc \in {"resolve", "push", "append"}
Answered(d, s) == Mentions(shm[s].resp, d)
Taken(d, s) == \E c \in Clients : cl[c].popped.file = Reply(d, s)
OnItsWay(d, s) == Asked(d, s) \/ AtServer(d, s) \/ Answered(d, s) \/ Taken(d, s)

\* It is in one place only, and once.
Alone(d, s) ==
    /\ Once(shm[s].req, d) /\ Once(shm[s].resp, d)
    /\ Asked(d, s) => ~AtServer(d, s) /\ ~Answered(d, s) /\ ~Taken(d, s)
    /\ AtServer(d, s) => ~Answered(d, s) /\ ~Taken(d, s)
    /\ Answered(d, s) => ~Taken(d, s)
    /\ \A b, c \in Clients : cl[b].popped.file = Reply(d, s) /\ cl[c].popped.file = Reply(d, s) => b = c

\* A client whose request is on its way is not about to push it again.
SentOnce(d, s) ==
    OnItsWay(d, s) => /\ cl[d].request # "new" /\ cl[d].pc \notin {"push", "append"}
                      /\ cl[d].pc = "recheck" => cl[d].session = s

\* The files of entries, and of who works on them, are in the directory.
Kept(q) == \A i \in 1 .. Len(q) : q[i].file \in files \cup {NoFile}
Present(s) ==
    /\ Kept(shm[s].req) /\ Kept(shm[s].resp)
    /\ host = s /\ srv.pc \in {"resolve", "push", "append"} => srv.file \in files \cup {NoFile}
    /\ \A c \in Clients : cl[c].session = s /\ cl[c].pc \in {"push", "append"} => cl[c].file \in files \cup {NoFile}
    /\ \A c, d \in Clients : cl[c].popped.file = Reply(d, s) => Reply(d, s) \in files

\* The order of what a client does; what is popped is a reply of some session; the scan
\* of MarkSessionBroken comes after the mark, and a dead engine hosts no session.
Ordered ==
    /\ \A c \in Clients : cl[c].pc \in {"append", "recheck"} => cl[c].request # "new"
    /\ \A c \in Clients :
          \/ cl[c].popped.file = NoFile
          \/ \E d \in Clients, s \in Sessions : s <= created /\ cl[c].popped.file = Reply(d, s)
    /\ srv.pc = "scan" => shm[host].broken \/ host \in adrift
    /\ engine = FALSE => host = 0

Travels == \A s \in Sessions : Whole(s) => Present(s) /\ \A d \in Clients : Alone(d, s) /\ SentOnce(d, s)

TravelInv == Types /\ FileNames /\ Ends /\ Ordered /\ Travels

\* A pushed entry is mentioned, and once if it was not before.
LEMMA MentionsAppend ==
    ASSUME NEW q \in Seq(Entries), NEW e \in Entries, NEW d
    PROVE /\ Mentions(Append(q, e), d) <=> Mentions(q, d) \/ e.from = d
          /\ Once(q, d) /\ (e.from = d => ~Mentions(q, d)) => Once(Append(q, e), d)
          /\ Kept(q) /\ e.file \in files \cup {NoFile} => Kept(Append(q, e))
<1> DEFINE a == Append(q, e)
<1>1. a \in Seq(Entries) /\ Len(q) \in Nat /\ Len(a) = Len(q) + 1
    BY SMT, Z3
<1>2. (\A i \in 1 .. Len(q) : a[i] = q[i]) /\ a[Len(q) + 1] = e
    OBVIOUS
<1> HIDE DEF a
<1>3. \A i \in 1 .. Len(a) : i \in 1 .. Len(q) \/ i = Len(q) + 1
    BY <1>1, SMT, Z3
<1>4. 1 .. Len(q) \subseteq 1 .. Len(a) /\ Len(q) + 1 \in 1 .. Len(a)
    BY <1>1, SMT, Z3
<1>5. Mentions(a, d) <=> Mentions(q, d) \/ e.from = d
    BY <1>2, <1>3, <1>4, Zenon DEF Mentions
<1>6. ASSUME Once(q, d), e.from = d => ~Mentions(q, d) PROVE Once(a, d)
    BY <1>2, <1>3, <1>6, Zenon DEF Once, Mentions
<1>7. Kept(q) /\ e.file \in files \cup {NoFile} => Kept(a)
    BY <1>2, <1>3, Zenon DEF Kept
<1> QED
    BY <1>5, <1>6, <1>7, Zenon DEF a

\* A popped entry that was there once is mentioned no more.
LEMMA MentionsTail ==
    ASSUME NEW q \in Seq(Entries), q # <<>>, NEW d
    PROVE /\ Tail(q) \in Seq(Entries) /\ Head(q) \in Entries /\ Mentions(q, Head(q).from)
          /\ Mentions(Tail(q), d) => Mentions(q, d)
          /\ Once(q, d) => Once(Tail(q), d)
          /\ Once(q, d) /\ Head(q).from = d => ~Mentions(Tail(q), d)
          /\ Kept(q) => Kept(Tail(q)) /\ Head(q).file \in files \cup {NoFile}
<1> DEFINE t == Tail(q)
<1>1. t \in Seq(Entries) /\ Head(q) \in Entries /\ Len(q) \in Nat /\ Len(q) > 0 /\ Len(t) = Len(q) - 1
    BY SMT, Z3
<1>2. (\A i \in 1 .. Len(t) : t[i] = q[i + 1]) /\ Head(q) = q[1]
    OBVIOUS
<1> HIDE DEF t
<1>3. (\A i \in 1 .. Len(t) : i + 1 \in 1 .. Len(q) /\ i + 1 # 1) /\ 1 \in 1 .. Len(q)
    BY <1>1, SMT, Z3
<1>4. \A i, j \in 1 .. Len(t) : i + 1 = j + 1 => i = j
    BY <1>1, SMT, Z3
<1>5. Mentions(q, Head(q).from) /\ (Mentions(t, d) => Mentions(q, d))
    BY <1>2, <1>3, Zenon DEF Mentions
<1>6. ASSUME Once(q, d), NEW i \in 1 .. Len(t), NEW j \in 1 .. Len(t), t[i].from = d, t[j].from = d PROVE i = j
    <2>1. i + 1 \in 1 .. Len(q) /\ j + 1 \in 1 .. Len(q) /\ q[i + 1].from = d /\ q[j + 1].from = d
        BY <1>2, <1>3, <1>6, Zenon
    <2>2. i + 1 = j + 1
        BY <1>6, <2>1, Zenon DEF Once
    <2> QED
        BY <1>4, <2>2, Zenon
<1>7. Once(q, d) /\ Head(q).from = d => ~Mentions(t, d)
    BY <1>2, <1>3, Zenon DEF Once, Mentions
<1>8. Kept(q) => Kept(t) /\ Head(q).file \in files \cup {NoFile}
    BY <1>2, <1>3, Zenon DEF Kept
<1> QED
    BY <1>1, <1>5, <1>6, <1>7, <1>8, Zenon DEF t, Once

\* How a client comes to each place of a push, to a new request and to an entry.
LEMMA ClientRow ==
    ASSUME Types, NEW c \in Clients, Client(c)
    PROVE /\ \/ cl'[c].popped = cl[c].popped \/ PopResponse(c)
             \/ ResolveCompletedRequest(c) /\ cl'[c].popped = NoEntry
          /\ cl'[c].request = "new" =>
                \/ cl[c].request = "new"
                \/ cl[c].pc \in {"push", "recheck"} /\ shm[cl[c].session].broken /\ cl'[c].pc = "bye"
          /\ cl'[c].pc = "push" => cl[c].pc = "push" \/ cl[c].request = "new"
          /\ cl'[c].pc = "append" => cl[c].pc = "append" \/ (cl[c].pc = "push" /\ cl'[c].request = "pending")
          /\ cl'[c].pc = "recheck" =>
                cl'[c].session = cl[c].session /\ (cl[c].pc = "recheck" \/ PushRequest(c))
<1>0. cl[c] \in ClientStates
    BY TypesGive, Zenon
<1>1. CASE Open(c)
    <2>1. cl'[c].popped = cl[c].popped /\ cl'[c].request = cl[c].request /\ cl'[c].pc = "opened"
        BY <1>0, <1>1, OpenStep, ZenonT(200) DEF ClientStates, NewClient
    <2> QED
        BY <2>1, Zenon
<1>2. CASE Attach(c)
    <2>1. CASE NewClient(c, [cl[c] EXCEPT !.pc = "alive"])
        <3>1. cl'[c].popped = cl[c].popped /\ cl'[c].request = cl[c].request /\ cl'[c].pc = "alive"
            BY <1>0, <2>1, Zenon DEF ClientStates, NewClient
        <3> QED
            BY <3>1, Zenon
    <2>2. CASE NewClient(c, [cl[c] EXCEPT !.session = 0, !.pc = "idle", !.request = "failed"])
        <3>1. cl'[c].popped = cl[c].popped /\ cl'[c].request = "failed" /\ cl'[c].pc = "idle"
            BY <1>0, <2>2, Zenon DEF ClientStates, NewClient
        <3> QED
            BY <3>1, Zenon
    <2> QED
        BY <1>2, <2>1, <2>2, AttachStep, Zenon
<1>3. CASE SetAlive(c)
    BY <1>0, <1>3, SetAliveStep, ZenonT(60) DEF ClientStates, NewClient
<1>4. CASE Prepare(c)
    <2>1. cl[c].request = "new"
        BY <1>4, Zenon DEF Prepare
    <2>2. cl'[c].popped = cl[c].popped /\ cl'[c].pc = "push"
        BY <1>0, <1>4, PrepareStep, ZenonT(200) DEF ClientStates, NewClient
    <2> QED
        BY <2>1, <2>2, Zenon
<1>5. CASE PushCheck(c)
    <2>1. cl[c].pc = "push"
        BY <1>5, PushCheckStep, Zenon
    <2>2. CASE shm[cl[c].session].broken /\ PushFailed(c)
        <3>1. cl'[c] = GivenUp(c)
            BY <2>2, TypesGive, Zenon DEF PushFailed, GivenUp
        <3> QED
            BY <1>0, <2>1, <2>2, <3>1, Zenon DEF ClientStates, GivenUp
    <2>3. CASE cl' = [cl EXCEPT ![c] = [cl[c] EXCEPT !.request = "pending", !.pc = "append"]]
        BY <1>0, <2>1, <2>3, TypesGive, Zenon DEF ClientStates
    <2> QED
        BY <1>5, <2>2, <2>3, Zenon DEF PushCheck
<1>6. CASE PushRequest(c)
    <2>1. NewClient(c, [cl[c] EXCEPT !.pc = "recheck"])
        BY <1>6, PushRequestStep, Zenon
    <2> QED
        BY <1>0, <1>6, <2>1, Zenon DEF ClientStates, NewClient
<1>7. CASE PushRecheck(c)
    <2>1. cl[c].pc = "recheck"
        BY <1>7, PushRecheckStep, Zenon
    <2>2. CASE shm[cl[c].session].broken /\ PushFailed(c)
        <3>1. cl'[c] = GivenUp(c)
            BY <2>2, TypesGive, Zenon DEF PushFailed, GivenUp
        <3> QED
            BY <1>0, <2>1, <2>2, <3>1, Zenon DEF ClientStates, GivenUp
    <2>3. CASE cl' = [cl EXCEPT ![c] = [cl[c] EXCEPT !.file = NoFile, !.pc = "attached"]]
        BY <1>0, <2>1, <2>3, TypesGive, Zenon DEF ClientStates
    <2> QED
        BY <1>7, <2>2, <2>3, Zenon DEF PushRecheck
<1>8. CASE PopResponse(c)
    <2>1. cl[c].pc = "attached" /\ NewClient(c, [cl[c] EXCEPT !.popped = Head(shm[cl[c].session].resp)])
        BY <1>8, PopResponseStep, Zenon
    <2> QED
        BY <1>0, <1>8, <2>1, Zenon DEF ClientStates, NewClient
<1>9. CASE ResolveCompletedRequest(c)
    <2>1. \/ NewClient(c, [cl[c] EXCEPT !.popped = NoEntry])
          \/ NewClient(c, [cl[c] EXCEPT !.popped = NoEntry, !.request = "done"])
        BY <1>9, ResolveStep, Zenon
    <2> QED
        BY <1>0, <1>9, <2>1, Zenon DEF ClientStates, NewClient
<1>10. CASE Expire(c)
    <2>1. NewClient(c, [cl[c] EXCEPT !.request = "failed"])
        BY <1>10, ExpireStep, Zenon
    <2> QED
        BY <1>0, <2>1, Zenon DEF ClientStates, NewClient
<1>11. CASE Close(c)
    <2> DEFINE q == IF cl[c].request = "pending" THEN "failed" ELSE cl[c].request
    <2>1. cl' = [cl EXCEPT ![c] = [cl[c] EXCEPT !.session = 0, !.pc = "bye", !.request = q]]
        BY <1>11, Zenon DEF Close
    <2>2. q = "new" => cl[c].request = "new"
        BY Zenon
    <2> HIDE DEF q
    <2> QED
        BY <1>0, <2>1, <2>2, TypesGive, Zenon DEF ClientStates
<1>12. CASE Bye(c)
    <2>1. NewClient(c, [cl[c] EXCEPT !.pc = "idle"])
        BY <1>12, ByeStep, Zenon
    <2> QED
        BY <1>0, <2>1, Zenon DEF ClientStates, NewClient
<1> QED
    BY <1>1, <1>2, <1>3, <1>4, <1>5, <1>6, <1>7, <1>8, <1>9, <1>10, <1>11, <1>12, Zenon DEF Client

\* Only a client itself changes its record.
LEMMA ClientMoves ==
    ASSUME Types, [Next]_vars, NEW c \in Clients
    PROVE Client(c) \/ cl'[c] = cl[c]
<1>1. ASSUME NEW d \in Clients, Client(d), d # c PROVE cl'[c] = cl[c]
    BY <1>1, OthersStay, Zenon
<1>2. CASE UNCHANGED vars
    BY <1>2, Zenon DEF vars
<1>3. CASE UNCHANGED cl
    BY <1>3, Zenon
<1> QED
    BY <1>1, <1>2, <1>3, StepIsOf, ServerKeeps, StopperKeeps, FateKeeps, Zenon

\* Sessions are only ever created.
LEMMA CreatedGrows == ASSUME Types, [Next]_vars PROVE created \in Nat /\ created' \in Nat /\ created <= created'
<1>1. created \in Nat
    BY TypesGive, SMT, Z3
<1>2. created' \in {created, created + 1}
    BY HostStep, Zenon DEF StopEnd, EngineDies
<1> QED
    BY <1>1, <1>2, SMT, Z3

\* An entry that a client pops from the response ring names a reply of the session.
LEMMA PoppedName ==
    ASSUME Types, FileNames, NEW c \in Clients, PopResponse(c)
    PROVE LET s == cl[c].session
              e == Head(shm[s].resp) IN
          /\ cl'[c].popped = e /\ s \in Sessions /\ s <= created /\ e.from \in Clients
          /\ e.file \in {NoFile, Reply(e.from, s)}
<1> DEFINE s == cl[c].session
           e == Head(shm[s].resp)
<1>1. /\ s \in Sessions /\ shm[s].resp \in Seq(Entries) /\ shm[s].resp # <<>>
      /\ NewClient(c, [cl[c] EXCEPT !.popped = e])
    BY PopResponseStep, Zenon
<1>2. e \in Entries /\ e.file \in {NoFile, <<e.from, "reply", s>>}
    BY <1>1, FilesOfTail, Zenon DEF FileNames, RingNames
<1>3. s <= created
    BY Zenon DEF Types, Placed
<1>4. cl[c] \in ClientStates
    BY TypesGive, Zenon
<1> HIDE DEF e
<1>5. cl'[c].popped = e
    BY <1>1, <1>4, Zenon DEF NewClient, ClientStates
<1> HIDE DEF s
<1>6. e.from \in Clients
    BY <1>2, Zenon DEF Entries
<1> QED
    BY <1>1, <1>2, <1>3, <1>5, <1>6, Zenon DEF Reply, s, e

\* Every step preserves the order of the steps of a push.
LEMMA OrderedStep == ASSUME Types, FileNames, Ends, Ordered, [Next]_vars PROVE Ordered'
<1>1. ASSUME NEW c \in Clients, cl'[c].pc \in {"append", "recheck"} PROVE cl'[c].request # "new"
    <2>0. cl[c].pc \in {"append", "recheck"} => cl[c].request # "new"
        BY Zenon DEF Ordered
    <2>1. CASE Client(c)
        <3>1. PushRequest(c) => cl[c].pc = "append"
            BY PushRequestStep, Zenon
        <3> QED
            BY <1>1, <2>0, <2>1, <3>1, ClientRow, Zenon
    <2> QED
        BY <1>1, <2>0, <2>1, ClientMoves, Zenon
<1>2. ASSUME NEW c \in Clients
      PROVE \/ cl'[c].popped.file = NoFile
            \/ \E d \in Clients, s \in Sessions : s <= created' /\ cl'[c].popped.file = Reply(d, s)
    <2>1. CASE cl'[c].popped = cl[c].popped
        <3>1. CASE cl[c].popped.file = NoFile
            BY <2>1, <3>1, Zenon
        <3>2. CASE \E d \in Clients, s \in Sessions : s <= created /\ cl[c].popped.file = Reply(d, s)
            <4>1. PICK d \in Clients, s \in Sessions : s <= created /\ cl[c].popped.file = Reply(d, s)
                BY <3>2, Zenon
            <4>2. s <= created'
                BY <4>1, CreatedGrows, SMT, Z3 DEF Sessions
            <4> QED
                BY <2>1, <4>1, <4>2, Zenon
        <3> QED
            BY <3>1, <3>2, Zenon DEF Ordered
    <2>2. CASE PopResponse(c)
        <3> DEFINE s == cl[c].session
                   e == Head(shm[s].resp)
        <3>1. /\ cl'[c].popped = e /\ s \in Sessions /\ s <= created /\ e.from \in Clients
              /\ e.file \in {NoFile, Reply(e.from, s)}
            BY <2>2, PoppedName, Zenon
        <3> HIDE DEF s, e
        <3>2. s <= created'
            BY <3>1, CreatedGrows, SMT, Z3 DEF Sessions
        <3> QED
            BY <3>1, <3>2, Zenon
    <2>3. CASE cl'[c].popped = NoEntry
        BY <2>3, SMT, Z3 DEF NoEntry
    <2> QED
        BY <2>1, <2>2, <2>3, ClientMoves, ClientRow, Zenon
<1>3. ASSUME srv'.pc = "scan" PROVE shm'[host'].broken \/ host' \in adrift'
    <2>1. CASE MarkSessionBroken
        BY <2>1, MarkStep, BrokenKeepsQueues, Zenon
    <2>2. CASE srv' = srv
        <3>1. srv.pc = "scan"
            BY <1>3, <2>2, Zenon
        <3>2. host \in Sessions
            <4>1. srv.pc # "idle" => host # 0
                BY Zenon DEF Types, Placed
            <4> QED
                BY <3>1, <4>1, TypesGive, Zenon
        <3>3. shm[host].broken \/ host \in adrift
            BY <3>1, Zenon DEF Ordered
        <3>4. host # 0
            BY <3>2, ZeroIsNoSession, Zenon
        <3>5. host' = host
            <4>1. ~StopEnd
                BY <3>1, Zenon DEF StopEnd
            <4>2. ~EngineDies
                BY <1>3, SMT, Z3 DEF EngineDies, IdleServer
            <4> QED
                BY <3>4, <4>1, <4>2, HostStep, Zenon
        <3> QED
            BY <3>2, <3>3, <3>5, StaysBroken, Zenon
    <2>3. CASE PopRequest \/ InvokeHandler \/ ResponseCheck
        BY <1>3, <2>3, PopRequestStep, InvokeHandlerStep, ResponseCheckStep, Zenon
    <2>4. CASE PushResponse \/ ResponseRecheck \/ RemovePendingFilePayloads
        BY <1>3, <2>4, PushResponseStep, ResponseRecheckStep, ScanStep, Zenon
    <2>5. CASE Fate
        <3>1. srv' = srv \/ srv' = IdleServer
            BY <2>5, Zenon DEF Fate, Die, EngineDies, EngineStarts
        <3> QED
            BY <1>3, <2>2, <3>1, SMT, Z3 DEF IdleServer
    <2>6. CASE UNCHANGED vars
        BY <2>2, <2>6, Zenon DEF vars
    <2> QED
        BY <2>1, <2>2, <2>3, <2>4, <2>5, <2>6, StepIsOf, ClientKeeps, StopperKeeps, Zenon DEF Server
<1>4. ASSUME engine' = FALSE PROVE host' = 0
    <2>1. CASE EngineDies
        BY <2>1, Zenon DEF EngineDies
    <2>2. CASE engine = FALSE
        <3>1. host = 0
            BY <2>2, Zenon DEF Ordered
        <3>2. ASSUME NEW c \in Clients, Open(c) PROVE FALSE
            BY <2>2, <3>2, Zenon DEF Open
        <3>3. StopEnd \/ EngineDies => host' = 0
            BY Zenon DEF StopEnd, EngineDies
        <3> QED
            BY <3>1, <3>2, <3>3, HostStep, Zenon
    <2>3. CASE Fate
        BY <1>4, <2>1, <2>2, <2>3, Zenon DEF Fate, Die, EngineStarts
    <2>4. CASE UNCHANGED vars
        BY <1>4, <2>2, <2>4, Zenon DEF vars
    <2> QED
        BY <1>4, <2>1, <2>2, <2>3, <2>4, StepIsOf, ClientKeeps, ServerKeeps, StopperKeeps, Zenon
<1> QED
    BY <1>1, <1>2, <1>3, <1>4, Zenon DEF Ordered

-----------------------------------------------------------------------------
(* How a request goes from place to place.                                  *)

\* A reply that is taken was taken before, or is popped.
LEMMA TakenStays ==
    ASSUME Types, [Next]_vars, NEW d \in Clients, NEW s \in Sessions, ~\E c \in Clients : PopResponse(c), Taken(d, s)'
    PROVE Taken(d, s)
<1>1. PICK c \in Clients : cl'[c].popped.file = Reply(d, s)
    BY Zenon DEF Taken
<1>2. NoEntry.file # Reply(d, s)
    BY ProcessesAssumption, Zenon DEF NoEntry, NoFile, Reply
<1>3. cl'[c].popped = cl[c].popped
    BY <1>1, <1>2, ClientMoves, ClientRow, Zenon
<1> QED
    BY <1>1, <1>3, Zenon DEF Taken

\* A request that the server has, it had before, or it pops it.
LEMMA AtServerStays ==
    ASSUME Types, [Next]_vars, NEW d \in Clients, NEW s \in Sessions, ~PopRequest, ~PushResponse, AtServer(d, s)'
    PROVE AtServer(d, s)
<1>0. host' = s /\ srv'.from = d /\ srv'.pc \in {"resolve", "push", "append"} /\ s # 0
    BY ZeroIsNoSession, Zenon DEF AtServer
<1>1. CASE UNCHANGED <<host, srv>>
    BY <1>1, Zenon DEF AtServer
<1>2. CASE UNCHANGED srv /\ ~UNCHANGED host
    <2>1. host = 0
        BY <1>0, <1>2, HostStep, Zenon DEF StopEnd, EngineDies
    <2>2. srv.pc = "idle"
        BY <2>1, Zenon DEF Types, Placed
    <2> QED
        BY <1>0, <1>2, <2>2, Zenon
<1>3. CASE Server
    <2>0. host' = host
        BY <1>3, ServerKeeps, Zenon
    <2>1. CASE InvokeHandler
        BY <1>0, <2>0, <2>1, InvokeHandlerStep, Zenon DEF AtServer
    <2>2. CASE ResponseCheck
        BY <1>0, <2>0, <2>2, ResponseCheckStep, Zenon DEF AtServer
    <2>3. CASE ResponseRecheck \/ MarkSessionBroken \/ RemovePendingFilePayloads
        BY <1>0, <2>3, ResponseRecheckStep, MarkStep, ScanStep, Zenon
    <2> QED
        BY <1>3, <2>1, <2>2, <2>3, Zenon DEF Server
<1>4. CASE Fate
    <2>1. UNCHANGED srv \/ srv' = IdleServer
        BY <1>4, Zenon DEF Fate, Die, EngineDies, EngineStarts
    <2> QED
        BY <1>0, <1>1, <1>2, <2>1, SMT, Z3 DEF IdleServer
<1>5. CASE UNCHANGED vars
    BY <1>1, <1>5, Zenon DEF vars
<1> QED
    BY <1>1, <1>2, <1>3, <1>4, <1>5, StepIsOf, ClientKeeps, StopperKeeps, Zenon

\* Nothing changes its place, except that it may be gone.
Rests(d, s) ==
    /\ Asked(d, s)' => Asked(d, s)
    /\ AtServer(d, s)' => AtServer(d, s)
    /\ Answered(d, s)' => Answered(d, s)
    /\ Taken(d, s)' => Taken(d, s)

\* What a step does to the place of a request: it is pushed by its client when it is
\* nowhere, goes to the next place, or stays.
Passes(d, s) ==
    \/ Rests(d, s)
    \/ /\ PushRequest(d) /\ cl[d].session = s /\ ~OnItsWay(d, s)
       /\ ~AtServer(d, s)' /\ ~Answered(d, s)' /\ ~Taken(d, s)'
    \/ Asked(d, s) /\ ~Asked(d, s)' /\ (Answered(d, s)' => Answered(d, s)) /\ (Taken(d, s)' => Taken(d, s))
    \/ AtServer(d, s) /\ ~AtServer(d, s)' /\ (Asked(d, s)' => Asked(d, s)) /\ (Taken(d, s)' => Taken(d, s))
    \/ Answered(d, s) /\ ~Answered(d, s)' /\ (Asked(d, s)' => Asked(d, s)) /\ (AtServer(d, s)' => AtServer(d, s))

\* A client's push.
LEMMA PushPasses ==
    ASSUME Types, NEW d \in Clients, NEW s \in Sessions, SentOnce(d, s), NEW c \in Clients, PushRequest(c)
    PROVE Passes(d, s)
<1> DEFINE t == cl[c].session
           e == [from |-> c, file |-> cl[c].file]
<1>1. /\ t \in Sessions /\ e \in Entries /\ NewShm(t, [shm[t] EXCEPT !.req = Append(shm[t].req, e)])
      /\ NewClient(c, [cl[c] EXCEPT !.pc = "recheck"]) /\ cl[c].pc = "append" /\ UNCHANGED <<srv, host>>
    BY PushRequestStep, Zenon
<1>2. e.from = c
    BY Zenon
<1> HIDE DEF e
<1>3. \A b \in Clients : cl'[b].popped = cl[b].popped
    BY <1>1, TypesGive, Zenon DEF NewClient, ClientStates
<1>4. (Taken(d, s)' => Taken(d, s)) /\ (AtServer(d, s)' => AtServer(d, s))
    BY <1>1, <1>3, Zenon DEF Taken, AtServer
<1>5. CASE s # t
    <2>1. shm'[s] = shm[s]
        BY <1>1, <1>5, Zenon DEF NewShm
    <2> QED
        BY <1>4, <2>1, Zenon DEF Passes, Rests, Asked, Answered
<1>6. CASE s = t
    <2>1. shm'[s].req = Append(shm[s].req, e) /\ shm'[s].resp = shm[s].resp /\ shm[s].req \in Seq(Entries)
        BY <1>1, <1>6, PushedRing, Zenon
    <2>2. Asked(d, s)' => Asked(d, s) \/ c = d
        <3>1. Mentions(Append(shm[s].req, e), d) <=> Mentions(shm[s].req, d) \/ e.from = d
            BY <1>1, <2>1, MentionsAppend, Zenon
        <3> QED
            BY <1>2, <2>1, <3>1, Zenon DEF Asked
    <2>3. Answered(d, s)' => Answered(d, s)
        BY <2>1, Zenon DEF Answered
    <2>4. c = d => ~OnItsWay(d, s)
        BY <1>1, Zenon DEF SentOnce
    <2> QED
        BY <1>4, <1>6, <2>2, <2>3, <2>4, Zenon DEF Passes, Rests, OnItsWay
<1> QED
    BY <1>5, <1>6, Zenon

\* A client's pop.
LEMMA PopPasses ==
    ASSUME Types, NEW d \in Clients, NEW s \in Sessions, FileNames, Once(shm[s].resp, d),
           NEW c \in Clients, PopResponse(c)
    PROVE Passes(d, s)
<1> DEFINE t == cl[c].session
           q == shm[t].resp
<1>1. /\ t \in Sessions /\ q \in Seq(Entries) /\ q # <<>> /\ NewShm(t, [shm[t] EXCEPT !.resp = Tail(q)])
      /\ NewClient(c, [cl[c] EXCEPT !.popped = Head(q)]) /\ UNCHANGED <<srv, host>>
    BY PopResponseStep, Zenon
<1>2. cl'[c].popped = Head(q) /\ Head(q).file \in {NoFile, Reply(Head(q).from, t)}
    BY PoppedName, Zenon
<1>3. \A b \in Clients : b # c => cl'[b] = cl[b]
    BY <1>1, Zenon DEF NewClient
<1>4. AtServer(d, s)' => AtServer(d, s)
    BY <1>1, Zenon DEF AtServer
<1>5. Taken(d, s)' => Taken(d, s) \/ (Head(q).from = d /\ t = s)
    <2>1. ASSUME Head(q).file = Reply(d, s) PROVE Head(q).from = d /\ t = s
        <3> HIDE DEF q, t
        <3>1. NoFile # Reply(d, s)
            BY ProcessesAssumption, Zenon DEF NoFile, Reply
        <3>2. Reply(Head(q).from, t) = Reply(d, s)
            BY <1>2, <2>1, <3>1, Zenon
        <3> QED
            BY <3>2, Zenon DEF Reply
    <2> HIDE DEF q, t
    <2> QED
        BY <1>2, <1>3, <2>1, Zenon DEF Taken
<1>6. CASE s # t
    <2>1. shm'[s] = shm[s]
        BY <1>1, <1>6, Zenon DEF NewShm
    <2> QED
        BY <1>4, <1>5, <1>6, <2>1, Zenon DEF Passes, Rests, Asked, Answered
<1>7. CASE s = t
    <2>1. shm'[s].resp = Tail(shm[s].resp) /\ shm'[s].req = shm[s].req
        BY <1>1, <1>7, PoppedRing, Zenon
    <2>2. Answered(d, s)' => Answered(d, s)
        BY <1>1, <1>7, <2>1, MentionsTail, ZenonT(200) DEF Answered
    <2>3. ASSUME Head(q).from = d PROVE Answered(d, s) /\ ~Answered(d, s)'
        <3>1. Mentions(q, d) /\ ~Mentions(Tail(q), d)
            BY <1>1, <1>7, <2>3, MentionsTail, ZenonT(60)
        <3> QED
            BY <1>7, <2>1, <3>1, Zenon DEF Answered
    <2>4. Asked(d, s)' => Asked(d, s)
        BY <2>1, Zenon DEF Asked
    <2> QED
        BY <1>4, <1>5, <2>2, <2>3, <2>4, Zenon DEF Passes, Rests
<1> QED
    BY <1>6, <1>7, Zenon

\* The server's pop.
LEMMA ServerPopPasses ==
    ASSUME Types, NEW d \in Clients, NEW s \in Sessions, Once(shm[s].req, d), PopRequest
    PROVE Passes(d, s)
<1> DEFINE q == shm[host].req
<1>1. /\ host \in Sessions /\ q \in Seq(Entries) /\ q # <<>> /\ NewShm(host, [shm[host] EXCEPT !.req = Tail(q)])
      /\ srv'.from = Head(q).from /\ UNCHANGED <<host, cl>>
    BY PopRequestStep, Zenon
<1>2. Taken(d, s)' => Taken(d, s)
    BY <1>1, Zenon DEF Taken
<1>3. AtServer(d, s)' => Head(q).from = d /\ host = s
    BY <1>1, Zenon DEF AtServer
<1>4. CASE s # host
    <2>1. shm'[s] = shm[s]
        BY <1>1, <1>4, Zenon DEF NewShm
    <2> QED
        BY <1>2, <1>3, <1>4, <2>1, Zenon DEF Passes, Rests, Asked, Answered
<1>5. CASE s = host
    <2>1. shm'[s].req = Tail(shm[s].req) /\ shm'[s].resp = shm[s].resp
        BY <1>1, <1>5, PoppedRing, Zenon
    <2>2. Asked(d, s)' => Asked(d, s)
        BY <1>1, <1>5, <2>1, MentionsTail, ZenonT(60) DEF Asked
    <2>3. Head(q).from = d => Asked(d, s) /\ ~Asked(d, s)'
        BY <1>1, <1>5, <2>1, MentionsTail, ZenonT(60) DEF Asked
    <2>4. Answered(d, s)' => Answered(d, s)
        BY <2>1, Zenon DEF Answered
    <2> QED
        BY <1>2, <1>3, <2>2, <2>3, <2>4, Zenon DEF Passes, Rests
<1> QED
    BY <1>4, <1>5, Zenon

\* The server's push.
LEMMA ServerPushPasses ==
    ASSUME Types, NEW d \in Clients, NEW s \in Sessions, PushResponse
    PROVE Passes(d, s)
<1> DEFINE e == [from |-> srv.from, file |-> srv.file]
<1>1. /\ host \in Sessions /\ e \in Entries /\ NewShm(host, [shm[host] EXCEPT !.resp = Append(shm[host].resp, e)])
      /\ srv.pc = "append" /\ srv'.pc = "recheck" /\ UNCHANGED <<host, cl>>
    BY PushResponseStep, Zenon
<1>2. e.from = srv.from
    BY Zenon
<1> HIDE DEF e
<1>3. (Taken(d, s)' => Taken(d, s)) /\ ~AtServer(d, s)'
    BY <1>1, Zenon DEF Taken, AtServer
<1>4. CASE s # host
    <2>1. shm'[s] = shm[s]
        BY <1>1, <1>4, Zenon DEF NewShm
    <2> QED
        BY <1>3, <2>1, Zenon DEF Passes, Rests, Asked, Answered
<1>5. CASE s = host
    <2>1. shm'[s].resp = Append(shm[s].resp, e) /\ shm'[s].req = shm[s].req /\ shm[s].resp \in Seq(Entries)
        BY <1>1, <1>5, PushedRing, Zenon
    <2>2. Answered(d, s)' => Answered(d, s) \/ AtServer(d, s)
        <3>1. Mentions(Append(shm[s].resp, e), d) <=> Mentions(shm[s].resp, d) \/ e.from = d
            BY <1>1, <2>1, MentionsAppend, Zenon
        <3> QED
            BY <1>1, <1>2, <1>5, <2>1, <3>1, Zenon DEF Answered, AtServer
    <2>3. Asked(d, s)' => Asked(d, s)
        BY <2>1, Zenon DEF Asked
    <2> QED
        BY <1>3, <2>2, <2>3, Zenon DEF Passes, Rests
<1> QED
    BY <1>4, <1>5, Zenon

\* Every step.
LEMMA PlaceStep ==
    ASSUME Types, FileNames, [Next]_vars, NEW d \in Clients, NEW s \in Sessions, Alone(d, s), SentOnce(d, s)
    PROVE Passes(d, s)
<1>0. Once(shm[s].req, d) /\ Once(shm[s].resp, d)
    BY Zenon DEF Alone
<1>1. CASE \E c \in Clients : PushRequest(c) \/ PopResponse(c)
    BY <1>0, <1>1, PushPasses, PopPasses, Zenon
<1>2. CASE PopRequest \/ PushResponse
    BY <1>0, <1>2, ServerPopPasses, ServerPushPasses, Zenon
<1>3. CASE SameQueues /\ (~\E c \in Clients : PopResponse(c)) /\ ~PopRequest /\ ~PushResponse
    <2>1. (Asked(d, s)' => Asked(d, s)) /\ (Answered(d, s)' => Answered(d, s))
        BY <1>3, Zenon DEF SameQueues, Asked, Answered
    <2> QED
        BY <1>3, <2>1, TakenStays, AtServerStays, Zenon DEF Passes, Rests
<1>4. CASE UNCHANGED vars
    BY <1>4, Zenon DEF vars, Passes, Rests, Asked, AtServer, Answered, Taken
<1> QED
    BY <1>1, <1>2, <1>3, <1>4, StepIsOf, ClientQueues, ServerQueues, StopperQueues, FateQueues, Zenon

\* A request stays in a ring once.
LEMMA OnceStep ==
    ASSUME Types, FileNames, [Next]_vars, NEW d \in Clients, NEW s \in Sessions, Alone(d, s), SentOnce(d, s)
    PROVE Once(shm'[s].req, d) /\ Once(shm'[s].resp, d)
<1>0. /\ Once(shm[s].req, d) /\ Once(shm[s].resp, d) /\ shm[s].req \in Seq(Entries) /\ shm[s].resp \in Seq(Entries)
    <2>1. shm[s] \in Shms
        BY TypesGive, Zenon
    <2> QED
        BY <2>1, Zenon DEF Alone, Shms
<1>1. CASE shm'[s].req = shm[s].req /\ shm'[s].resp = shm[s].resp
    BY <1>0, <1>1, Zenon
<1>2. ASSUME NEW c \in Clients, PushRequest(c) PROVE Once(shm'[s].req, d) /\ Once(shm'[s].resp, d)
    <2> DEFINE t == cl[c].session
               e == [from |-> c, file |-> cl[c].file]
    <2>1. /\ t \in Sessions /\ e \in Entries /\ NewShm(t, [shm[t] EXCEPT !.req = Append(shm[t].req, e)])
          /\ cl[c].pc = "append"
        BY <1>2, PushRequestStep, Zenon
    <2>2. e.from = c
        BY Zenon
    <2> HIDE DEF e
    <2>3. CASE s # t
        BY <1>1, <2>1, <2>3, Zenon DEF NewShm
    <2>4. CASE s = t
        <3>1. shm'[s].req = Append(shm[s].req, e) /\ shm'[s].resp = shm[s].resp
            BY <2>1, <2>4, PushedRing, Zenon
        <3>2. c = d => ~Mentions(shm[s].req, d)
            BY <2>1, Zenon DEF SentOnce, OnItsWay, Asked
        <3>3. Once(Append(shm[s].req, e), d)
            BY <1>0, <2>1, <2>2, <3>2, MentionsAppend, Zenon
        <3> QED
            BY <1>0, <3>1, <3>3, Zenon
    <2> QED
        BY <2>3, <2>4, Zenon
<1>3. ASSUME NEW c \in Clients, PopResponse(c) PROVE Once(shm'[s].req, d) /\ Once(shm'[s].resp, d)
    <2> DEFINE t == cl[c].session
    <2>1. t \in Sessions /\ shm[t].resp # <<>> /\ NewShm(t, [shm[t] EXCEPT !.resp = Tail(shm[t].resp)])
        BY <1>3, PopResponseStep, Zenon
    <2>2. CASE s # t
        BY <1>1, <2>1, <2>2, Zenon DEF NewShm
    <2>3. CASE s = t
        <3>1. shm'[s].resp = Tail(shm[s].resp) /\ shm'[s].req = shm[s].req
            BY <2>1, <2>3, PoppedRing, Zenon
        <3>2. Once(Tail(shm[s].resp), d)
            BY <1>0, <2>1, <2>3, MentionsTail, Zenon
        <3> QED
            BY <1>0, <3>1, <3>2, Zenon
    <2> QED
        BY <2>2, <2>3, Zenon
<1>4. CASE PopRequest
    <2>1. host \in Sessions /\ shm[host].req # <<>> /\ NewShm(host, [shm[host] EXCEPT !.req = Tail(shm[host].req)])
        BY <1>4, PopRequestStep, Zenon
    <2>2. CASE s # host
        BY <1>1, <2>1, <2>2, Zenon DEF NewShm
    <2>3. CASE s = host
        <3>1. shm'[s].req = Tail(shm[s].req) /\ shm'[s].resp = shm[s].resp
            BY <2>1, <2>3, PoppedRing, Zenon
        <3>2. Once(Tail(shm[s].req), d)
            BY <1>0, <2>1, <2>3, MentionsTail, Zenon
        <3> QED
            BY <1>0, <3>1, <3>2, Zenon
    <2> QED
        BY <2>2, <2>3, Zenon
<1>5. CASE PushResponse
    <2> DEFINE e == [from |-> srv.from, file |-> srv.file]
    <2>1. /\ host \in Sessions /\ e \in Entries /\ NewShm(host, [shm[host] EXCEPT !.resp = Append(shm[host].resp, e)])
          /\ srv.pc = "append"
        BY <1>5, PushResponseStep, Zenon
    <2>2. e.from = srv.from
        BY Zenon
    <2> HIDE DEF e
    <2>3. CASE s # host
        BY <1>1, <2>1, <2>3, Zenon DEF NewShm
    <2>4. CASE s = host
        <3>1. shm'[s].resp = Append(shm[s].resp, e) /\ shm'[s].req = shm[s].req
            BY <2>1, <2>4, PushedRing, Zenon
        <3>2. srv.from = d => AtServer(d, s)
            BY <2>1, <2>4, Zenon DEF AtServer
        <3>3. srv.from = d => ~Mentions(shm[s].resp, d)
            BY <3>2, Zenon DEF Alone, Answered
        <3>4. Once(Append(shm[s].resp, e), d)
            BY <1>0, <2>1, <2>2, <3>3, MentionsAppend, Zenon
        <3> QED
            BY <1>0, <3>1, <3>4, Zenon
    <2> QED
        BY <2>3, <2>4, Zenon
<1>6. CASE UNCHANGED vars
    BY <1>1, <1>6, Zenon DEF vars
<1>7. CASE SameQueues
    BY <1>1, <1>7, Zenon DEF SameQueues
<1> QED
    BY <1>2, <1>3, <1>4, <1>5, <1>6, <1>7, StepIsOf, ClientQueues, ServerQueues, StopperQueues, FateQueues, Zenon

\* A request stays in one place.
LEMMA AloneStep ==
    ASSUME Types, FileNames, [Next]_vars, NEW d \in Clients, NEW s \in Sessions, Alone(d, s), SentOnce(d, s)
    PROVE Alone(d, s)'
<1>1. Once(shm'[s].req, d) /\ Once(shm'[s].resp, d)
    BY OnceStep, Zenon
<1>2. /\ Asked(d, s) => ~AtServer(d, s) /\ ~Answered(d, s) /\ ~Taken(d, s)
      /\ AtServer(d, s) => ~Answered(d, s) /\ ~Taken(d, s)
      /\ Answered(d, s) => ~Taken(d, s)
    BY Zenon DEF Alone
<1>3. /\ Asked(d, s)' => ~AtServer(d, s)' /\ ~Answered(d, s)' /\ ~Taken(d, s)'
      /\ AtServer(d, s)' => ~Answered(d, s)' /\ ~Taken(d, s)'
      /\ Answered(d, s)' => ~Taken(d, s)'
    BY <1>2, PlaceStep, Zenon DEF Passes, Rests, OnItsWay
<1>4. ASSUME NEW b \in Clients, NEW c \in Clients, b # c, PopResponse(b), cl'[b].popped.file = Reply(d, s),
             cl'[c].popped.file = Reply(d, s)
      PROVE FALSE
    <2> DEFINE t == cl[b].session
               q == shm[t].resp
    <2>1. cl'[b].popped = Head(q) /\ Head(q).file \in {NoFile, Reply(Head(q).from, t)} /\ t \in Sessions
        BY <1>4, PoppedName, Zenon
    <2>2. q \in Seq(Entries) /\ q # <<>>
        BY <1>4, PopResponseStep, Zenon
    <2>3. Mentions(q, Head(q).from)
        BY <2>2, MentionsTail, Zenon
    <2>4. Head(q).from = d /\ t = s
        <3> HIDE DEF q, t
        <3>1. NoFile # Reply(d, s)
            BY ProcessesAssumption, Zenon DEF NoFile, Reply
        <3>2. Reply(Head(q).from, t) = Reply(d, s)
            BY <1>4, <2>1, <3>1, Zenon
        <3> QED
            BY <3>2, Zenon DEF Reply
    <2>5. Answered(d, s)
        BY <2>3, <2>4, Zenon DEF Answered
    <2>6. Client(b)
        BY <1>4, Zenon DEF Client
    <2>7. cl'[c] = cl[c]
        BY <1>4, <2>6, OthersStay, Zenon
    <2> QED
        BY <1>2, <1>4, <2>5, <2>7, Zenon DEF Taken
<1>5. ASSUME NEW b \in Clients, NEW c \in Clients, cl'[b].popped.file = Reply(d, s), cl'[c].popped.file = Reply(d, s)
      PROVE b = c
    <2>1. NoEntry.file # Reply(d, s)
        BY ProcessesAssumption, Zenon DEF NoEntry, NoFile, Reply
    <2>2. ASSUME NEW a \in {b, c} PROVE cl'[a].popped = cl[a].popped \/ PopResponse(a)
        BY <1>5, <2>1, <2>2, ClientMoves, ClientRow, ZenonT(200)
    <2>3. cl'[b].popped = cl[b].popped /\ cl'[c].popped = cl[c].popped => b = c
        BY <1>5, Zenon DEF Alone
    <2> QED
        BY <1>4, <1>5, <2>2, <2>3, Zenon
<1> QED
    BY <1>1, <1>3, <1>5, Zenon DEF Alone

\* A client does not push a request again that is on its way in an unbroken session.
LEMMA SentOnceStep ==
    ASSUME Types, FileNames, Ordered, [Next]_vars, NEW d \in Clients, NEW s \in Sessions, Alone(d, s), SentOnce(d, s),
           Whole(s)
    PROVE SentOnce(d, s)'
<1> SUFFICES ASSUME OnItsWay(d, s)'
             PROVE /\ cl'[d].request # "new" /\ cl'[d].pc \notin {"push", "append"}
                   /\ cl'[d].pc = "recheck" => cl'[d].session = s
    BY Zenon DEF SentOnce
<1>1. CASE PushRequest(d) /\ cl[d].session = s
    <2>1. NewClient(d, [cl[d] EXCEPT !.pc = "recheck"]) /\ cl[d].pc = "append" /\ cl[d] \in ClientStates
        BY <1>1, PushRequestStep, TypesGive, Zenon
    <2>2. cl[d].request # "new"
        BY <2>1, Zenon DEF Ordered
    <2> QED
        BY <1>1, <2>1, <2>2, Zenon DEF NewClient, ClientStates
<1>2. CASE OnItsWay(d, s)
    <2>1. /\ cl[d].request # "new" /\ cl[d].pc \notin {"push", "append"}
          /\ cl[d].pc = "recheck" => cl[d].session = s
        BY <1>2, Zenon DEF SentOnce
    <2>2. CASE Client(d)
        <3>1. PushRequest(d) => cl[d].pc = "append"
            BY PushRequestStep, Zenon
        <3>2. ~shm[s].broken
            BY Zenon DEF Whole
        <3> QED
            BY <2>1, <2>2, <3>1, <3>2, ClientRow, Zenon
    <2> QED
        BY <2>1, <2>2, ClientMoves, Zenon
<1> QED
    BY <1>1, <1>2, PlaceStep, Zenon DEF Passes, Rests, OnItsWay

-----------------------------------------------------------------------------
(* Who removes a file of an unbroken session.                               *)

\* An unbroken session that was created is the one the engine serves.
LEMMA WholeIsHost ==
    ASSUME Types, Ends, Ordered, NEW s \in Sessions, Whole(s), s <= created
    PROVE s = host /\ engine /\ stop = "idle" /\ srv.pc # "scan"
<1>1. s = host
    BY Zenon DEF Whole, Ends
<1>2. stop = "idle" /\ srv.pc # "scan"
    BY <1>1, Zenon DEF Whole, Ends, Ordered
<1>3. engine \in BOOLEAN
    BY TypesParts, Zenon
<1>4. engine # FALSE
    BY <1>1, ZeroIsNoSession, Zenon DEF Ordered
<1> QED
    BY <1>1, <1>2, <1>3, <1>4, Zenon

\* The file of an unbroken session is removed by the client that has popped its entry,
\* or by the server that has its request.
LEMMA FileStays ==
    ASSUME Types, FileNames, Ends, Ordered, [Next]_vars, NEW s \in Sessions, Whole(s), s <= created,
           NEW f \in files, f[3] = s
    PROVE \/ f \in files'
          \/ \E c \in Clients : ResolveCompletedRequest(c) /\ f = cl[c].popped.file
          \/ InvokeHandler /\ f = srv.file
          \/ ResponseCheck /\ f = srv.file
<1>0. s = host /\ engine /\ stop = "idle" /\ srv.pc # "scan" /\ ~shm[s].broken
    BY WholeIsHost, Zenon DEF Whole
<1>1. CASE files' = files
    BY <1>1, Zenon
<1>2. ASSUME NEW c \in Clients, Client(c)
      PROVE f \in files' \/ (ResolveCompletedRequest(c) /\ f = cl[c].popped.file)
    <2>1. ASSUME PushFailed(c), shm[cl[c].session].broken PROVE f \in files'
        <3>1. files' = files \ {cl[c].file}
            BY <2>1, Zenon DEF PushFailed, Unlink
        <3>2. cl[c].file = NoFile \/ cl[c].file = <<c, "request", cl[c].session>>
            BY Zenon DEF FileNames, ClientName
        <3>3. f # NoFile
            BY TypesGive, Zenon
        <3>4. cl[c].session # s
            BY <1>0, <2>1, Zenon
        <3> QED
            BY <3>1, <3>2, <3>3, <3>4, SMT, Z3
    <2>2. CASE PushCheck(c) \/ PushRecheck(c)
        BY <1>1, <2>1, <2>2, Zenon DEF PushCheck, PushRecheck
    <2>3. CASE Prepare(c)
        BY <2>3, Zenon DEF Prepare, WriteFile
    <2>4. CASE ResolveCompletedRequest(c)
        BY <2>4, ResolveStep, Zenon
    <2>5. CASE Open(c) \/ Attach(c) \/ SetAlive(c) \/ PushRequest(c) \/ PopResponse(c) \/ Expire(c) \/ Close(c) \/ Bye(c)
        BY <1>1, <2>5, Zenon DEF Open, Attach, SetAlive, PushRequest, PopResponse, Expire, Close, Bye
    <2> QED
        BY <1>2, <2>2, <2>3, <2>4, <2>5, Zenon DEF Client
<1>3. CASE InvokeHandler
    <2>1. CASE f # srv.file
        BY <1>1, <1>3, <2>1, Zenon DEF InvokeHandler, NoHandler, Mismatch, Handled, WriteFile, ReadAndRemove
    <2> QED
        BY <1>3, <2>1, Zenon
<1>4. CASE ResponseCheck
    BY <1>4, ResponseCheckStep, Zenon
<1>5. CASE ResponseRecheck \/ RemovePendingFilePayloads
    BY <1>0, <1>1, <1>5, Zenon DEF ResponseRecheck, RemovePendingFilePayloads, SrvAt
<1>6. CASE PopRequest \/ PushResponse \/ MarkSessionBroken
    BY <1>1, <1>6, Zenon DEF PopRequest, PushResponse, MarkSessionBroken
<1>7. CASE Stopper
    BY <1>0, <1>1, <1>7, Zenon DEF Stopper, StopBegin, StopScan, StopEnd
<1>8. CASE Fate
    BY <1>0, <1>1, <1>8, Zenon DEF Fate, Die, EngineDies, EngineStarts
<1>9. CASE UNCHANGED vars
    BY <1>1, <1>9, Zenon DEF vars
<1> QED
    BY <1>2, <1>3, <1>4, <1>5, <1>6, <1>7, <1>8, <1>9, StepIsOf, Zenon DEF Server

\* The file of a request is removed by the handler that has it.
LEMMA RequestStays ==
    ASSUME Types, FileNames, Ends, Ordered, [Next]_vars, NEW s \in Sessions, Whole(s), s <= created,
           NEW d \in Clients, <<d, "request", s>> \in files, InvokeHandler => ~AtServer(d, s)
    PROVE <<d, "request", s>> \in files'
<1> DEFINE f == <<d, "request", s>>
<1>1. f[3] = s /\ f # NoFile /\ f[1] = d /\ f[2] = "request"
    BY TypesGive, Zenon
<1> HIDE DEF f
<1>2. ASSUME NEW c \in Clients PROVE f # cl[c].popped.file
    <2>1. ASSUME NEW e \in Clients, NEW t \in Sessions PROVE f # Reply(e, t)
        BY <1>1, SMT, Z3 DEF Reply
    <2>2. \/ cl[c].popped.file = NoFile
          \/ \E e \in Clients, t \in Sessions : t <= created /\ cl[c].popped.file = Reply(e, t)
        BY Zenon DEF Ordered
    <2> QED
        BY <1>1, <2>1, <2>2, Zenon
<1>3. ASSUME InvokeHandler, f = srv.file PROVE FALSE
    <2>1. srv.pc = "resolve" /\ host \in Sessions
        BY <1>3, InvokeHandlerStep, Zenon
    <2>2. srv.file = <<srv.from, "request", host>>
        BY <1>1, <1>3, <2>1, Zenon DEF FileNames, ServerName
    <2>3. srv.from = d /\ host = s
        BY <1>1, <1>3, <2>2, SMT, Z3
    <2> QED
        BY <1>3, <2>1, <2>3, Zenon DEF AtServer
<1>4. ASSUME ResponseCheck, f = srv.file PROVE FALSE
    <2>1. srv.pc = "push"
        BY <1>4, ResponseCheckStep, Zenon
    <2>2. srv.file = <<srv.from, "reply", host>>
        BY <1>1, <1>4, <2>1, Zenon DEF FileNames, ServerName
    <2> QED
        BY <1>1, <1>4, <2>2, SMT, Z3
<1>5. f \in files
    BY Zenon DEF f
<1>6. f \in files'
    BY <1>1, <1>2, <1>3, <1>4, <1>5, FileStays, Zenon
<1> QED
    BY <1>6, Zenon DEF f

\* The file of a reply is removed by a server that gives it up, or by who has popped it.
LEMMA ReplyStays ==
    ASSUME Types, FileNames, Ends, Ordered, [Next]_vars, NEW s \in Sessions, Whole(s), s <= created,
           NEW d \in Clients, Reply(d, s) \in files, ResponseCheck => ~AtServer(d, s),
           \A c \in Clients : ResolveCompletedRequest(c) => cl[c].popped.file # Reply(d, s)
    PROVE Reply(d, s) \in files'
<1> DEFINE f == Reply(d, s)
<1>1. f[3] = s /\ f # NoFile /\ f[1] = d /\ f[2] = "reply"
    BY TypesGive, Zenon DEF Reply
<1>2. f \in files /\ \A c \in Clients : ResolveCompletedRequest(c) => f # cl[c].popped.file
    BY Zenon
<1> HIDE DEF f
<1>3. ASSUME InvokeHandler, f = srv.file PROVE FALSE
    <2>1. srv.pc = "resolve"
        BY <1>3, InvokeHandlerStep, Zenon
    <2>2. srv.file = <<srv.from, "request", host>>
        BY <1>1, <1>3, <2>1, Zenon DEF FileNames, ServerName
    <2> QED
        BY <1>1, <1>3, <2>2, SMT, Z3
<1>4. ASSUME ResponseCheck, f = srv.file PROVE FALSE
    <2>1. srv.pc = "push" /\ host \in Sessions
        BY <1>4, ResponseCheckStep, Zenon
    <2>2. srv.file = <<srv.from, "reply", host>>
        BY <1>1, <1>4, <2>1, Zenon DEF FileNames, ServerName
    <2>3. srv.from = d /\ host = s
        BY <1>1, <1>4, <2>2, SMT, Z3
    <2> QED
        BY <1>4, <2>1, <2>3, Zenon DEF AtServer
<1>5. f \in files'
    BY <1>1, <1>2, <1>3, <1>4, FileStays, Zenon
<1> QED
    BY <1>5, Zenon DEF f

-----------------------------------------------------------------------------
(* The files stay where they are needed.                                    *)

\* What the invariant says of an unbroken session.
LEMMA WholeHas ==
    ASSUME TravelInv, NEW s \in Sessions, Whole(s)
    PROVE /\ Types /\ FileNames /\ Ends /\ Ordered /\ Present(s)
          /\ \A d \in Clients : Alone(d, s) /\ SentOnce(d, s)
          /\ shm[s].req \in Seq(Entries) /\ shm[s].resp \in Seq(Entries)
          /\ Named(shm[s].req, "request", s) /\ Named(shm[s].resp, "reply", s)
          /\ (shm[s].req # <<>> \/ shm[s].resp # <<>> => s <= created)
<1>1. Types /\ FileNames /\ Ends /\ Ordered /\ Present(s) /\ \A d \in Clients : Alone(d, s) /\ SentOnce(d, s)
    BY Zenon DEF TravelInv, Travels
<1>2. shm[s] \in Shms /\ created \in Nat
    BY <1>1, TypesGive, SMT, Z3
<1>3. shm[s].req \in Seq(Entries) /\ shm[s].resp \in Seq(Entries)
    BY <1>2, Zenon DEF Shms
<1>4. Named(shm[s].req, "request", s) /\ Named(shm[s].resp, "reply", s)
    BY <1>1, Zenon DEF FileNames, RingNames
<1>5. s \in Nat
    BY SMT, Z3 DEF Sessions
<1>6. s > created => shm[s].req = <<>> /\ shm[s].resp = <<>>
    BY <1>1, Zenon DEF Ends
<1>7. s <= created \/ s > created
    BY <1>2, <1>5, SMT, Z3
<1> QED
    BY <1>1, <1>3, <1>4, <1>6, <1>7, Zenon

\* The files of the requests that stay in the ring.
LEMMA RequestsStay ==
    ASSUME TravelInv, [Next]_vars, NEW s \in Sessions, Whole(s), shm'[s].req = shm[s].req
    PROVE Kept(shm[s].req)'
<1> DEFINE q == shm[s].req
<1>0. /\ Types /\ FileNames /\ Ends /\ Ordered /\ \A d \in Clients : Alone(d, s)
      /\ q \in Seq(Entries) /\ Named(q, "request", s) /\ (q # <<>> => s <= created) /\ Kept(q)
    BY WholeHas, Zenon DEF Present
<1>1. ASSUME NEW i \in 1 .. Len(q) PROVE q[i].file \in files' \cup {NoFile}
    <2>1. q # <<>> /\ q[i] \in Entries
        BY <1>0, <1>1, SMT, Z3
    <2> HIDE DEF q
    <2>2. PICK d : d = q[i].from
        BY Zenon
    <2>3. d \in Clients
        BY <2>1, <2>2, Zenon DEF Entries
    <2>4. q[i].file \in {NoFile, <<d, "request", s>>}
        BY <1>0, <1>1, <2>2, Zenon DEF Named
    <2>5. q[i].file \in files \cup {NoFile}
        BY <1>0, <1>1, Zenon DEF Kept
    <2>6. Asked(d, s)
        BY <1>1, <2>2, Zenon DEF Asked, Mentions, q
    <2>7. ~AtServer(d, s)
        BY <1>0, <2>3, <2>6, Zenon DEF Alone
    <2>8. <<d, "request", s>> \in files => <<d, "request", s>> \in files'
        BY <1>0, <2>1, <2>3, <2>7, RequestStays, Zenon
    <2> QED
        BY <2>4, <2>5, <2>8, Zenon
<1> QED
    BY <1>1, Zenon DEF Kept

\* The files of the replies that stay in the ring.
LEMMA RepliesStay ==
    ASSUME TravelInv, [Next]_vars, NEW s \in Sessions, Whole(s), shm'[s].resp = shm[s].resp
    PROVE Kept(shm[s].resp)'
<1> DEFINE q == shm[s].resp
<1>0. /\ Types /\ FileNames /\ Ends /\ Ordered /\ \A d \in Clients : Alone(d, s)
      /\ q \in Seq(Entries) /\ Named(q, "reply", s) /\ (q # <<>> => s <= created) /\ Kept(q)
    BY WholeHas, Zenon DEF Present
<1>1. ASSUME NEW i \in 1 .. Len(q) PROVE q[i].file \in files' \cup {NoFile}
    <2>1. q # <<>> /\ q[i] \in Entries
        BY <1>0, <1>1, SMT, Z3
    <2> HIDE DEF q
    <2>2. PICK d : d = q[i].from
        BY Zenon
    <2>3. d \in Clients
        BY <2>1, <2>2, Zenon DEF Entries
    <2>4. q[i].file \in {NoFile, Reply(d, s)}
        BY <1>0, <1>1, <2>2, Zenon DEF Named, Reply
    <2>5. q[i].file \in files \cup {NoFile}
        BY <1>0, <1>1, Zenon DEF Kept
    <2>6. Answered(d, s)
        BY <1>1, <2>2, Zenon DEF Answered, Mentions, q
    <2>7. ~AtServer(d, s) /\ ~Taken(d, s)
        BY <1>0, <2>3, <2>6, Zenon DEF Alone
    <2>8. \A c \in Clients : cl[c].popped.file # Reply(d, s)
        BY <2>7, Zenon DEF Taken
    <2>9. Reply(d, s) \in files => Reply(d, s) \in files'
        BY <1>0, <2>1, <2>3, <2>7, <2>8, ReplyStays, Zenon
    <2> QED
        BY <2>4, <2>5, <2>9, Zenon
<1> QED
    BY <1>1, Zenon DEF Kept

\* The entries of the rings of an unbroken session keep their files.
LEMMA KeptStep ==
    ASSUME TravelInv, [Next]_vars, NEW s \in Sessions, Whole(s)
    PROVE Kept(shm[s].req)' /\ Kept(shm[s].resp)'
<1>0. /\ Types /\ Present(s) /\ shm[s].req \in Seq(Entries) /\ shm[s].resp \in Seq(Entries)
      /\ Kept(shm[s].req) /\ Kept(shm[s].resp)
    BY WholeHas, Zenon DEF Present
<1>1. CASE shm'[s].req = shm[s].req /\ shm'[s].resp = shm[s].resp
    BY <1>1, RequestsStay, RepliesStay, Zenon
<1>2. ASSUME NEW c \in Clients, PushRequest(c) PROVE Kept(shm[s].req)' /\ Kept(shm[s].resp)'
    <2> DEFINE t == cl[c].session
               e == [from |-> c, file |-> cl[c].file]
    <2>1. /\ t \in Sessions /\ e \in Entries /\ NewShm(t, [shm[t] EXCEPT !.req = Append(shm[t].req, e)])
          /\ cl[c].pc = "append" /\ files' = files
        BY <1>0, <1>2, PushRequestStep, Zenon
    <2>2. e.file = cl[c].file
        BY Zenon
    <2> HIDE DEF e
    <2>3. CASE s # t
        BY <1>1, <2>1, <2>3, Zenon DEF NewShm
    <2>4. CASE s = t
        <3>1. shm'[s].req = Append(shm[s].req, e) /\ shm'[s].resp = shm[s].resp
            BY <1>0, <2>1, <2>4, PushedRing, Zenon
        <3>2. cl[c].file \in files \cup {NoFile}
            BY <1>0, <2>1, <2>4, Zenon DEF Present
        <3>3. Kept(Append(shm[s].req, e))
            BY <1>0, <2>1, <2>2, <3>2, MentionsAppend, Zenon
        <3>4. Kept(shm[s].req)'
            BY <2>1, <3>1, <3>3, Zenon DEF Kept
        <3> QED
            BY <3>1, <3>4, RepliesStay, Zenon
    <2> QED
        BY <2>3, <2>4, Zenon
<1>3. ASSUME NEW c \in Clients, PopResponse(c) PROVE Kept(shm[s].req)' /\ Kept(shm[s].resp)'
    <2> DEFINE t == cl[c].session
    <2>1. /\ t \in Sessions /\ shm[t].resp # <<>> /\ NewShm(t, [shm[t] EXCEPT !.resp = Tail(shm[t].resp)])
          /\ files' = files
        BY <1>0, <1>3, PopResponseStep, Zenon
    <2>2. CASE s # t
        BY <1>1, <2>1, <2>2, Zenon DEF NewShm
    <2>3. CASE s = t
        <3>1. shm'[s].resp = Tail(shm[s].resp) /\ shm'[s].req = shm[s].req
            BY <1>0, <2>1, <2>3, PoppedRing, Zenon
        <3>2. Kept(Tail(shm[s].resp))
            BY <1>0, <2>1, <2>3, MentionsTail, Zenon
        <3>3. Kept(shm[s].resp)'
            BY <2>1, <3>1, <3>2, Zenon DEF Kept
        <3> QED
            BY <3>1, <3>3, RequestsStay, Zenon
    <2> QED
        BY <2>2, <2>3, Zenon
<1>4. CASE PopRequest
    <2>1. /\ host \in Sessions /\ shm[host].req # <<>> /\ NewShm(host, [shm[host] EXCEPT !.req = Tail(shm[host].req)])
          /\ files' = files
        BY <1>0, <1>4, PopRequestStep, Zenon
    <2>2. CASE s # host
        BY <1>1, <2>1, <2>2, Zenon DEF NewShm
    <2>3. CASE s = host
        <3>1. shm'[s].req = Tail(shm[s].req) /\ shm'[s].resp = shm[s].resp
            BY <1>0, <2>1, <2>3, PoppedRing, Zenon
        <3>2. Kept(Tail(shm[s].req))
            BY <1>0, <2>1, <2>3, MentionsTail, Zenon
        <3>3. Kept(shm[s].req)'
            BY <2>1, <3>1, <3>2, Zenon DEF Kept
        <3> QED
            BY <3>1, <3>3, RepliesStay, Zenon
    <2> QED
        BY <2>2, <2>3, Zenon
<1>5. CASE PushResponse
    <2> DEFINE e == [from |-> srv.from, file |-> srv.file]
    <2>1. /\ host \in Sessions /\ e \in Entries /\ NewShm(host, [shm[host] EXCEPT !.resp = Append(shm[host].resp, e)])
          /\ srv.pc = "append" /\ files' = files
        BY <1>0, <1>5, PushResponseStep, Zenon
    <2>2. e.file = srv.file
        BY Zenon
    <2> HIDE DEF e
    <2>3. CASE s # host
        BY <1>1, <2>1, <2>3, Zenon DEF NewShm
    <2>4. CASE s = host
        <3>1. shm'[s].resp = Append(shm[s].resp, e) /\ shm'[s].req = shm[s].req
            BY <1>0, <2>1, <2>4, PushedRing, Zenon
        <3>2. srv.file \in files \cup {NoFile}
            BY <1>0, <2>1, <2>4, Zenon DEF Present
        <3>3. Kept(Append(shm[s].resp, e))
            BY <1>0, <2>1, <2>2, <3>2, MentionsAppend, Zenon
        <3>4. Kept(shm[s].resp)'
            BY <2>1, <3>1, <3>3, Zenon DEF Kept
        <3> QED
            BY <3>1, <3>4, RequestsStay, Zenon
    <2> QED
        BY <2>3, <2>4, Zenon
<1>6. CASE UNCHANGED vars
    BY <1>1, <1>6, Zenon DEF vars
<1>7. CASE SameQueues
    BY <1>1, <1>7, Zenon DEF SameQueues
<1> QED
    BY <1>0, <1>2, <1>3, <1>4, <1>5, <1>6, <1>7, StepIsOf, ClientQueues, ServerQueues, StopperQueues, FateQueues, Zenon

\* How a client comes to a push, and to the file it pushes.
LEMMA PushRow ==
    ASSUME Types, NEW c \in Clients, Client(c), cl'[c].pc \in {"push", "append"}
    PROVE \/ Prepare(c)
          \/ /\ PushCheck(c) /\ cl[c].pc = "push" /\ cl'[c].file = cl[c].file /\ cl'[c].session = cl[c].session
             /\ files' = files
          \/ cl'[c].pc = cl[c].pc /\ cl'[c].file = cl[c].file /\ cl'[c].session = cl[c].session
<1>0. cl[c] \in ClientStates
    BY TypesGive, Zenon
<1>1. CASE Open(c)
    BY <1>0, <1>1, OpenStep, Zenon DEF ClientStates, NewClient
<1>2. CASE Attach(c)
    BY <1>0, <1>2, AttachStep, ZenonT(60) DEF ClientStates, NewClient
<1>3. CASE SetAlive(c)
    BY <1>0, <1>3, SetAliveStep, Zenon DEF ClientStates, NewClient
<1>4. CASE PushCheck(c)
    <2>1. CASE NewClient(c, GivenUp(c))
        BY <1>0, <2>1, ZenonT(60) DEF ClientStates, NewClient, GivenUp
    <2>2. CASE NewClient(c, [cl[c] EXCEPT !.request = "pending", !.pc = "append"]) /\ files' = files
        <3>1. cl[c].pc = "push"
            BY <1>4, PushCheckStep, Zenon
        <3> QED
            BY <1>0, <1>4, <2>2, <3>1, Zenon DEF ClientStates, NewClient
    <2> QED
        BY <1>4, <2>1, <2>2, PushCheckStep, Zenon
<1>5. CASE PushRequest(c)
    <2>1. NewClient(c, [cl[c] EXCEPT !.pc = "recheck"])
        BY <1>5, PushRequestStep, Zenon
    <2> QED
        BY <1>0, <2>1, Zenon DEF ClientStates, NewClient
<1>6. CASE PushRecheck(c)
    <2>1. CASE NewClient(c, GivenUp(c))
        BY <1>0, <2>1, Zenon DEF ClientStates, NewClient, GivenUp
    <2>2. CASE NewClient(c, [cl[c] EXCEPT !.file = NoFile, !.pc = "attached"])
        BY <1>0, <2>2, Zenon DEF ClientStates, NewClient
    <2> QED
        BY <1>6, <2>1, <2>2, PushRecheckStep, Zenon
<1>7. CASE PopResponse(c)
    <2>1. NewClient(c, [cl[c] EXCEPT !.popped = Head(shm[cl[c].session].resp)])
        BY <1>7, PopResponseStep, Zenon
    <2> QED
        BY <1>0, <2>1, Zenon DEF ClientStates, NewClient
<1>8. CASE ResolveCompletedRequest(c)
    <2>1. \/ NewClient(c, [cl[c] EXCEPT !.popped = NoEntry])
          \/ NewClient(c, [cl[c] EXCEPT !.popped = NoEntry, !.request = "done"])
        BY <1>8, ResolveStep, Zenon
    <2> QED
        BY <1>0, <2>1, Zenon DEF ClientStates, NewClient
<1>9. CASE Expire(c)
    <2>1. NewClient(c, [cl[c] EXCEPT !.request = "failed"])
        BY <1>9, ExpireStep, Zenon
    <2> QED
        BY <1>0, <2>1, Zenon DEF ClientStates, NewClient
<1>10. CASE Close(c)
    <2>1. cl'[c].pc = "bye"
        BY <1>10, TypesGive, Zenon DEF Close, ClientStates
    <2> QED
        BY <2>1, Zenon
<1>11. CASE Bye(c)
    <2>1. NewClient(c, [cl[c] EXCEPT !.pc = "idle"])
        BY <1>11, ByeStep, Zenon
    <2> QED
        BY <1>0, <2>1, Zenon DEF ClientStates, NewClient
<1> QED
    BY <1>1, <1>2, <1>3, <1>4, <1>5, <1>6, <1>7, <1>8, <1>9, <1>10, <1>11, Zenon DEF Client

\* The file of a client that is about to push is there.
LEMMA ClientPresent ==
    ASSUME TravelInv, [Next]_vars, NEW s \in Sessions, Whole(s), NEW c \in Clients,
           cl'[c].session = s, cl'[c].pc \in {"push", "append"}
    PROVE cl'[c].file \in files' \cup {NoFile}
<1>0. Types /\ FileNames /\ Ends /\ Ordered /\ SentOnce(c, s) /\ Present(s)
    BY WholeHas, Zenon
<1>1. CASE Prepare(c)
    <2> DEFINE f == TransportFile(c, BigRequests, "request", cl[c].session)
    <2>1. NewClient(c, [cl[c] EXCEPT !.file = f, !.sent = TRUE, !.pc = "push"])
        BY <1>0, <1>1, PrepareStep, Zenon
    <2>2. files' = WriteFile(f, files)
        BY <1>1, Zenon DEF Prepare
    <2> HIDE DEF f
    <2>3. cl[c] \in ClientStates
        BY <1>0, TypesGive, Zenon
    <2>4. cl'[c].file = f
        BY <2>1, <2>3, Zenon DEF NewClient, ClientStates
    <2> QED
        BY <2>2, <2>4, Zenon DEF WriteFile
<1>2. CASE cl[c].session = s /\ cl[c].pc \in {"push", "append"} /\ cl'[c].file = cl[c].file
    <2>1. cl[c].file \in files \cup {NoFile}
        BY <1>0, <1>2, Zenon DEF Present
    <2>2. cl[c].file \in {NoFile, <<c, "request", s>>}
        BY <1>0, <1>2, Zenon DEF FileNames, ClientName
    <2>3. s <= created
        BY <1>0, <1>2, Zenon DEF Types, Placed
    <2>4. ~AtServer(c, s)
        BY <1>0, <1>2, Zenon DEF SentOnce, OnItsWay
    <2>5. <<c, "request", s>> \in files => <<c, "request", s>> \in files'
        BY <1>0, <2>3, <2>4, RequestStays, Zenon
    <2> QED
        BY <1>2, <2>1, <2>2, <2>5, Zenon
<1> QED
    BY <1>0, <1>1, <1>2, ClientMoves, PushRow, Zenon

\* The file of the request or the reply that the server has is there.
LEMMA ServerPresent ==
    ASSUME TravelInv, [Next]_vars, NEW s \in Sessions, Whole(s), host' = s, srv'.pc \in {"resolve", "push", "append"}
    PROVE srv'.file \in files' \cup {NoFile}
<1>0. /\ Types /\ FileNames /\ Ends /\ Ordered /\ (\A d \in Clients : Alone(d, s)) /\ Present(s)
      /\ shm[s].req \in Seq(Entries)
    BY WholeHas, Zenon
<1>1. CASE PopRequest
    <2>1. /\ host' = host /\ shm[host].req # <<>> /\ files' = files /\ srv'.file = Head(shm[host].req).file
        BY <1>0, <1>1, PopRequestStep, Zenon
    <2>2. Kept(shm[s].req)
        BY <1>0, Zenon DEF Present
    <2> QED
        BY <1>0, <2>1, <2>2, MentionsTail, Zenon
<1>2. CASE InvokeHandler
    <2> DEFINE f == TransportFile(srv.from, BigReplies, "reply", host)
    <2>0. srv \in ServerStates
        BY <1>0, TypesGive, Zenon
    <2>1. \/ srv' = [srv EXCEPT !.pc = "push", !.file = NoFile]
          \/ files' = WriteFile(f, ReadAndRemove(srv.file)) /\ srv' = [srv EXCEPT !.pc = "push", !.file = f]
        BY <1>2, Zenon DEF InvokeHandler, Handled
    <2> HIDE DEF f
    <2>2. \/ srv'.file = NoFile
          \/ files' = WriteFile(f, ReadAndRemove(srv.file)) /\ srv'.file = f
        BY <2>0, <2>1, Zenon DEF ServerStates
    <2> QED
        BY <2>2, Zenon DEF WriteFile
<1>3. CASE ResponseCheck
    <2>1. /\ host' = host /\ srv.pc = "push"
          /\ srv'.pc = "mark" \/ (srv'.file = srv.file /\ files' = files)
        BY <1>0, <1>3, ResponseCheckStep, Zenon
    <2> QED
        BY <1>0, <2>1, Zenon DEF Present
<1>4. CASE PushResponse \/ ResponseRecheck \/ MarkSessionBroken \/ RemovePendingFilePayloads
    BY <1>0, <1>4, PushResponseStep, ResponseRecheckStep, MarkStep, ScanStep, Zenon
<1>5. CASE srv' = srv /\ ~InvokeHandler /\ ~ResponseCheck
    <2>1. srv.pc \in {"resolve", "push", "append"}
        BY <1>5, Zenon
    <2>2. host # 0 /\ host <= created /\ srv.from \in Clients
        BY <1>0, <2>1, SMT, Z3 DEF Types, Placed
    <2>3. host = s
        <3>1. s # 0
            BY ZeroIsNoSession, Zenon
        <3> QED
            BY <1>0, <2>2, <3>1, HostStep, Zenon DEF StopEnd, EngineDies
    <2>4. srv.file \in files \cup {NoFile}
        BY <1>0, <2>1, <2>3, Zenon DEF Present
    <2>5. PICK d \in Clients : d = srv.from
        BY <2>2, Zenon
    <2>6. AtServer(d, s)
        BY <2>1, <2>3, <2>5, Zenon DEF AtServer
    <2>7. \A c \in Clients : cl[c].popped.file # Reply(d, s)
        BY <1>0, <2>6, Zenon DEF Alone, Taken
    <2>8. srv.file \in {NoFile, <<d, "request", s>>, Reply(d, s)}
        BY <1>0, <2>1, <2>3, <2>5, Zenon DEF FileNames, ServerName, Reply
    <2>9. <<d, "request", s>> \in files => <<d, "request", s>> \in files'
        BY <1>0, <1>5, <2>2, <2>3, RequestStays, Zenon
    <2>10. Reply(d, s) \in files => Reply(d, s) \in files'
        BY <1>0, <1>5, <2>2, <2>3, <2>7, ReplyStays, Zenon
    <2> QED
        BY <1>5, <2>4, <2>8, <2>9, <2>10, Zenon
<1>6. CASE Fate
    <2>1. srv' = srv \/ srv' = IdleServer
        BY <1>6, Zenon DEF Fate, Die, EngineDies, EngineStarts
    <2> QED
        BY <1>2, <1>3, <1>5, <2>1, SMT, Z3 DEF IdleServer
<1>7. CASE UNCHANGED vars
    BY <1>2, <1>3, <1>5, <1>7, Zenon DEF vars
<1> QED
    BY <1>0, <1>1, <1>2, <1>3, <1>4, <1>5, <1>6, <1>7, StepIsOf, ClientKeeps, StopperKeeps, Zenon DEF Server

\* The file of a reply that a client has popped is there.
LEMMA PoppedPresent ==
    ASSUME TravelInv, [Next]_vars, NEW s \in Sessions, Whole(s), NEW c \in Clients, NEW d \in Clients,
           cl'[c].popped.file = Reply(d, s)
    PROVE Reply(d, s) \in files'
<1>0. /\ Types /\ FileNames /\ Ends /\ Ordered /\ Alone(d, s) /\ Present(s) /\ shm[s].resp \in Seq(Entries)
    BY WholeHas, Zenon
<1>1. NoFile # Reply(d, s)
    BY ProcessesAssumption, Zenon DEF NoFile, Reply
<1>2. NoEntry.file = NoFile
    BY Zenon DEF NoEntry
<1>3. CASE PopResponse(c)
    <2> DEFINE t == cl[c].session
               q == shm[t].resp
    <2>1. cl'[c].popped = Head(q) /\ Head(q).file \in {NoFile, Reply(Head(q).from, t)}
        BY <1>0, <1>3, PoppedName, Zenon
    <2>2. q # <<>> /\ files' = files
        BY <1>0, <1>3, PopResponseStep, Zenon
    <2>3. t = s
        <3> HIDE DEF q, t
        <3> QED
            BY <1>1, <2>1, SMT, Z3 DEF Reply
    <2>4. Kept(shm[s].resp)
        BY <1>0, Zenon DEF Present
    <2>5. Head(q).file \in files \cup {NoFile}
        BY <1>0, <2>2, <2>3, <2>4, MentionsTail, Zenon
    <2> HIDE DEF q, t
    <2> QED
        BY <1>1, <2>1, <2>2, <2>5, Zenon
<1>4. CASE cl'[c].popped = cl[c].popped
    <2>1. cl[c].popped.file = Reply(d, s)
        BY <1>4, Zenon
    <2>2. Reply(d, s) \in files
        BY <1>0, <2>1, Zenon DEF Present
    <2>3. ~AtServer(d, s)
        BY <1>0, <2>1, Zenon DEF Alone, Taken
    <2>4. s <= created
        <3>1. PICK e \in Clients, t \in Sessions : t <= created /\ cl[c].popped.file = Reply(e, t)
            BY <1>0, <1>1, <2>1, Zenon DEF Ordered
        <3>2. t = s
            BY <2>1, <3>1, SMT, Z3 DEF Reply
        <3> QED
            BY <3>1, <3>2, Zenon
    <2>5. ASSUME NEW b \in Clients, ResolveCompletedRequest(b) PROVE cl[b].popped.file # Reply(d, s)
        <3>1. cl'[b].popped = NoEntry
            <4>1. cl[b] \in ClientStates
                BY <1>0, TypesGive, Zenon
            <4>2. \/ NewClient(b, [cl[b] EXCEPT !.popped = NoEntry])
                  \/ NewClient(b, [cl[b] EXCEPT !.popped = NoEntry, !.request = "done"])
                BY <1>0, <2>5, ResolveStep, Zenon
            <4> QED
                BY <4>1, <4>2, Zenon DEF NewClient, ClientStates
        <3>2. b # c
            BY <1>1, <1>2, <3>1, Zenon
        <3> QED
            BY <1>0, <2>1, <3>2, Zenon DEF Alone
    <2> QED
        BY <1>0, <2>2, <2>3, <2>4, <2>5, ReplyStays, Zenon
<1>5. CASE cl'[c].popped = NoEntry
    BY <1>1, <1>2, <1>5, Zenon
<1> QED
    BY <1>0, <1>3, <1>4, <1>5, ClientMoves, ClientRow, Zenon

\* In an unbroken session every file that somebody will read stays.
LEMMA PresentStep == ASSUME TravelInv, [Next]_vars, NEW s \in Sessions, Whole(s) PROVE Present(s)'
<1>1. Kept(shm[s].req)' /\ Kept(shm[s].resp)'
    BY KeptStep, Zenon
<1>2. host' = s /\ srv'.pc \in {"resolve", "push", "append"} => srv'.file \in files' \cup {NoFile}
    BY ServerPresent, Zenon
<1>3. \A c \in Clients :
         cl'[c].session = s /\ cl'[c].pc \in {"push", "append"} => cl'[c].file \in files' \cup {NoFile}
    BY ClientPresent, Zenon
<1>4. \A c, d \in Clients : cl'[c].popped.file = Reply(d, s) => Reply(d, s) \in files'
    BY PoppedPresent, Zenon
<1> QED
    BY <1>1, <1>2, <1>3, <1>4, Zenon DEF Present

\* Every step preserves the invariant.
LEMMA TravelsStep == ASSUME TravelInv, [Next]_vars PROVE TravelInv'
<1>1. Types /\ FileNames /\ Ends /\ Ordered
    BY Zenon DEF TravelInv
<1>2. Types' /\ FileNames' /\ Ends' /\ Ordered'
    BY <1>1, TypesStep, FileNamesStep, EndsStep, OrderedStep, Zenon
<1>3. ASSUME NEW s \in Sessions, Whole(s)' PROVE Present(s)' /\ \A d \in Clients : Alone(d, s)' /\ SentOnce(d, s)'
    <2>1. Whole(s)
        BY <1>1, <1>3, StaysBroken, Zenon DEF Whole
    <2>2. \A d \in Clients : Alone(d, s) /\ SentOnce(d, s)
        BY <2>1, WholeHas, Zenon
    <2> QED
        BY <1>1, <2>1, <2>2, PresentStep, AloneStep, SentOnceStep, Zenon
<1> QED
    BY <1>2, <1>3, Zenon DEF TravelInv, Travels

\* The invariant holds at first: the rings are empty and nobody holds anything.
LEMMA InitTravels == ASSUME Init PROVE TravelInv
<1>1. Types /\ FileNames /\ Ends
    BY InitPFInv, Zenon DEF PFInv
<1>2. \A c \in Clients : cl[c] = IdleClient
    BY Zenon DEF Init
<1>3. IdleClient.pc = "idle" /\ IdleClient.popped.file = NoFile /\ IdleServer.pc = "idle"
    BY Zenon DEF IdleClient, IdleServer, NoEntry
<1>4. srv = IdleServer /\ engine = TRUE
    BY Zenon DEF Init
<1>5. \A s \in Sessions : shm[s].req = <<>> /\ shm[s].resp = <<>>
    BY Zenon DEF Init, FreshShm
<1>6. \A d, s : NoFile # Reply(d, s)
    BY ProcessesAssumption, Zenon DEF NoFile, Reply
<1>7. Ordered
    BY <1>2, <1>3, <1>4, Zenon DEF Ordered
<1>8. \A q, d : q = <<>> => ~Mentions(q, d) /\ Once(q, d) /\ Kept(q)
    BY DEF Mentions, Once, Kept
<1>9. ASSUME NEW s \in Sessions PROVE Present(s)
    <2>1. Kept(shm[s].req) /\ Kept(shm[s].resp)
        BY <1>5, <1>8, Zenon
    <2> QED
        BY <1>2, <1>3, <1>4, <1>6, <2>1, Zenon DEF Present
<1>10. ASSUME NEW s \in Sessions, NEW d \in Clients PROVE Alone(d, s) /\ SentOnce(d, s)
    <2>1. ~Asked(d, s) /\ ~Answered(d, s) /\ Once(shm[s].req, d) /\ Once(shm[s].resp, d)
        BY <1>5, <1>8, Zenon DEF Asked, Answered
    <2>2. ~AtServer(d, s) /\ ~Taken(d, s)
        BY <1>2, <1>3, <1>4, <1>6, Zenon DEF AtServer, Taken
    <2>3. ASSUME NEW b \in Clients PROVE cl[b].popped.file # Reply(d, s)
        BY <1>2, <1>3, <1>6, Zenon
    <2> QED
        BY <2>1, <2>2, <2>3, Zenon DEF Alone, SentOnce, OnItsWay
<1> QED
    BY <1>1, <1>7, <1>9, <1>10, Zenon DEF TravelInv, Travels

\* What the invariant says of a reader.
LEMMA TravelsGive == ASSUME TravelInv PROVE FileIsThere
<1>0. Types /\ FileNames /\ Ends /\ Ordered
    BY Zenon DEF TravelInv
<1>1. ASSUME srv.pc = "resolve", srv.file # NoFile, ~shm[host].broken, host \notin adrift PROVE srv.file \in files
    <2>1. host \in Sessions
        <3>1. host # 0
            BY <1>0, <1>1, Zenon DEF Types, Placed
        <3> QED
            BY <1>0, <3>1, TypesGive, Zenon
    <2>2. Whole(host)
        BY <1>1, Zenon DEF Whole
    <2>3. Present(host)
        BY <2>1, <2>2, WholeHas, Zenon
    <2> QED
        BY <1>1, <2>3, Zenon DEF Present
<1>2. ASSUME NEW c \in live, cl[c].popped.file # NoFile, ~shm[cl[c].popped.file[3]].broken,
             cl[c].popped.file[3] \notin adrift
      PROVE cl[c].popped.file \in files
    <2>1. c \in Clients
        BY <1>0, Zenon DEF Types, TypeOK
    <2>2. PICK d \in Clients, s \in Sessions : cl[c].popped.file = Reply(d, s)
        BY <1>0, <1>2, <2>1, Zenon DEF Ordered
    <2>3. Reply(d, s)[3] = s
        BY Zenon DEF Reply
    <2>4. Whole(s)
        BY <1>2, <2>2, <2>3, Zenon DEF Whole
    <2>5. Present(s)
        BY <2>4, WholeHas, Zenon
    <2> QED
        BY <2>1, <2>2, <2>5, Zenon DEF Present
<1> QED
    BY <1>1, <1>2, Zenon DEF FileIsThere

\* FileIsThere, for any number of clients and sessions: as long as its session was never
\* broken, the file of a request that the server resolves and the file of a reply that a
\* client has popped are in the directory.
THEOREM FilesAreThere == Spec => []FileIsThere
<1>1. TravelInv /\ [Next]_vars => TravelInv'
    BY TravelsStep, Zenon
<1>2. Init => TravelInv
    BY InitTravels, Zenon
<1> QED
    BY <1>1, <1>2, TravelsGive, PTL DEF Spec

=============================================================================
