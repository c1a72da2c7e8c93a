----------------------------- MODULE Attachment -----------------------------
(***************************************************************************)
(* What the attachment of a client process to a session promises, over the *)
(* state it is about.  SharedSession says how the processes attach and     *)
(* leave, and how they die.                                                *)
(***************************************************************************)

VARIABLES
    shm,   \* header of each session: attached client and mutex
    live,  \* client processes that are alive
    cl     \* client processes

\* A live client that uses a session is the one its header names: no two live
\* processes are attached to one session, however the attach steps of several
\* processes, their deaths and the repair of a dead owner's mutex interleave
\* (TryAcquireClientAttachment, LockSharedMutex).
OneAttachedClient == \A c \in live : cl[c].owns => shm[cl[c].session].attached = c

=============================================================================
