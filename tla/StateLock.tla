------------------------------ MODULE StateLock ------------------------------
(***************************************************************************)
(* The single-writer lock of the control-plane server                      *)
(* (src/apps/server/src/runtime/state-lock.mjs).                           *)
(*                                                                         *)
(* A server process takes an exclusive lock FILE next to its state before  *)
(* it restores or writes anything.  The file is created with O_EXCL and    *)
(* its owner record is written by a second system call, so another process *)
(* can meet it while it is still empty.  A lock that is unreadable, whose  *)
(* owner is dead, or that carries the reader's own pid, is unlinked and    *)
(* created again.  Every file-system call is a step of its own: processes  *)
(* interleave between any two of them.                                     *)
(***************************************************************************)
EXTENDS Naturals, FiniteSets

CONSTANTS
    Process,        \* the pids of the server processes of this host
    Foreign,        \* the owner of a lock taken on another host
    None,           \* no owner
    SerialStarts    \* TRUE: a process is started only when no other is
                    \* between its first open and its decision

ASSUME ProcessAssumption ==
    /\ Foreign \notin Process
    /\ None \notin Process
    /\ Foreign # None
    /\ SerialStarts \in BOOLEAN

VARIABLES
    creator,    \* who created the lock file that now has the name; None: no file
    written,    \* whether its owner record has been written
    pc,         \* what each process is doing
    seen,       \* the owner record each process last read; None: null
    recycled    \* pids of dead servers that another program now has

vars == <<creator, written, pc, seen, recycled>>

\* Inside acquireStateLock.  "retry": the second create, after an unlink that failed.
Acquiring == {"open", "write", "read", "decide", "unlink", "reopen", "retry", "rewrite"}

PcValue ==
    Acquiring \cup {"off", "owner", "unlocked", "refused", "releasing", "exiting",
                    "releasing2"}

TypeOK ==
    /\ creator \in Process \cup {Foreign, None}
    /\ written \in BOOLEAN
    /\ pc \in [Process -> PcValue]
    /\ seen \in [Process -> Process \cup {Foreign, None}]
    /\ recycled \subseteq Process
    /\ creator = None => ~written

\* kill(pid, 0) succeeds or fails with EPERM: a server, or a program that was
\* given the pid of a dead one.
PidIsAlive(q) == q \in Process /\ (pc[q] # "off" \/ q \in recycled)

\* JSON.parse of the file: null when it is missing or still empty.
ReadLock == IF written THEN creator ELSE None

Init ==
    /\ \/ creator = None /\ written = FALSE
       \/ creator = Foreign /\ written = TRUE
    /\ pc = [p \in Process |-> "off"]
    /\ seen = [p \in Process |-> None]
    /\ recycled = {}

Goto(p, label) == pc' = [pc EXCEPT ![p] = label]

-----------------------------------------------------------------------------

Start(p) ==
    /\ pc[p] = "off"
    /\ p \notin recycled
    /\ SerialStarts => \A q \in Process : pc[q] \notin Acquiring
    /\ Goto(p, "open")
    /\ UNCHANGED <<creator, written, seen, recycled>>

\* openSync(lockPath, "wx"): creates an empty file, or fails with EEXIST (then
\* the first try goes on to read the holder and the second one gives up), or
\* with another error (then the server runs without a lock).
Open(p) ==
    /\ pc[p] \in {"open", "reopen", "retry"}
    /\ \/ /\ creator = None
          /\ creator' = p
          /\ written' = FALSE
          /\ Goto(p, IF pc[p] = "open" THEN "write" ELSE "rewrite")
       \/ /\ creator # None
          /\ Goto(p, IF pc[p] = "open" THEN "read" ELSE "refused")
          /\ UNCHANGED <<creator, written>>
       \/ /\ Goto(p, "unlocked")
          /\ UNCHANGED <<creator, written>>
    /\ UNCHANGED <<seen, recycled>>

\* writeSync on the descriptor: it reaches the named file only while nobody
\* has unlinked it since.
WriteOwner(p) ==
    /\ pc[p] \in {"write", "rewrite"}
    /\ \/ /\ written' = (written \/ creator = p)
          /\ Goto(p, "owner")
       \/ /\ Goto(p, "unlocked")         \* e.g. ENOSPC: the empty file stays
          /\ UNCHANGED written
    /\ UNCHANGED <<creator, seen, recycled>>

ReadHolder(p) ==
    /\ pc[p] = "read"
    /\ seen' = [seen EXCEPT ![p] = ReadLock]
    /\ Goto(p, "decide")
    /\ UNCHANGED <<creator, written, recycled>>

Reclaimable_AnyHolder(p) == seen[p] # Foreign
Reclaimable_ReadableOnly(p) ==
    seen[p] = p \/ (seen[p] \in Process /\ ~PidIsAlive(seen[p]))
Reclaimable_OwnPidOnly(p) == seen[p] \in {p, None}

\* Reclaimable: our own pid, a dead owner on this host, or an unreadable file.
Reclaimable(p) ==
    \/ seen[p] = p
    \/ seen[p] = None
    \/ seen[p] \in Process /\ ~PidIsAlive(seen[p])

Decide(p) ==
    /\ pc[p] = "decide"
    /\ Goto(p, IF Reclaimable(p) THEN "unlink" ELSE "refused")
    /\ UNCHANGED <<creator, written, seen, recycled>>

RemoveFile_RecordKept == creator' = None /\ written' = written
RemoveFile == creator' = None /\ written' = FALSE

\* An unlink that fails is swallowed; what is still there refuses the second create.
UnlinkStale(p) ==
    /\ pc[p] = "unlink"
    /\ \/ RemoveFile /\ Goto(p, "reopen")
       \/ UNCHANGED <<creator, written>> /\ Goto(p, "retry")
    /\ UNCHANGED <<seen, recycled>>

-----------------------------------------------------------------------------
\* release() is called by the shutdown handler and again by the "exit" handler;
\* it reads the lock and removes it if it carries the caller's pid.

OwnLock_AnyRecord(p) == ReadLock # None
OwnLock(p) == ReadLock = p

ReadOwn(p) ==
    \/ /\ pc[p] = "owner"
       /\ Goto(p, IF OwnLock(p) THEN "releasing" ELSE "exiting")
       /\ UNCHANGED <<creator, written, seen, recycled>>
    \/ /\ pc[p] = "exiting"
       /\ Goto(p, IF OwnLock(p) THEN "releasing2" ELSE "off")
       /\ UNCHANGED <<creator, written, seen, recycled>>

UnlinkOwn(p) ==
    /\ pc[p] \in {"releasing", "releasing2"}
    /\ RemoveFile \/ UNCHANGED <<creator, written>>
    /\ Goto(p, IF pc[p] = "releasing" THEN "exiting" ELSE "off")
    /\ UNCHANGED <<seen, recycled>>

\* Any exit of a process whose release is still the empty function.
ExitWithoutLock(p) ==
    /\ pc[p] \in {"refused", "unlocked"}
    /\ Goto(p, "off")
    /\ UNCHANGED <<creator, written, seen, recycled>>

\* SIGKILL or power loss: no handler runs and the file stays.
Crash(p) ==
    /\ pc[p] # "off"
    /\ Goto(p, "off")
    /\ UNCHANGED <<creator, written, seen, recycled>>

\* The host gives a dead server's pid to another program, or that one ends.
Recycle(p) ==
    /\ pc[p] = "off"
    /\ recycled' = IF p \in recycled THEN recycled \ {p} ELSE recycled \cup {p}
    /\ UNCHANGED <<creator, written, pc, seen>>

Step(p) ==
    \/ Open(p) \/ WriteOwner(p) \/ ReadHolder(p) \/ Decide(p) \/ UnlinkStale(p)

Next ==
    \E p \in Process :
        Start(p) \/ Step(p) \/ ReadOwn(p) \/ UnlinkOwn(p) \/ ExitWithoutLock(p)
          \/ Crash(p) \/ Recycle(p)

Spec == Init /\ [][Next]_vars

\* The acquisition is straight-line synchronous code: it runs to its end.
FairSpec == Spec /\ \A p \in Process : WF_vars(Step(p))

-----------------------------------------------------------------------------

\* "A second live process on the same host refuses to start instead of
\* corrupting the first's state" (state-lock.mjs:9-10): two processes never
\* both believe that they hold the lock.
SingleWriter ==
    \A p, q \in Process : pc[p] = "owner" /\ pc[q] = "owner" => p = q

\* The named file is the serving owner's, with its record: what any later
\* starter will read names the process that is running, whatever was reclaimed
\* or released in between (state-lock.mjs:62-71).
OwnerIsOnRecord ==
    \A p \in Process : pc[p] = "owner" => creator = p /\ written

\* A start is refused only while another pid of this host is in use or another
\* host's lock is there; a lock left by a crash alone never refuses one, unless it
\* cannot be removed (state-lock.mjs:11-12, 101-116).
RefusedForACause ==
    [][\A p \in Process :
          pc[p] \notin {"refused", "retry"} /\ pc'[p] = "refused"
            => creator = Foreign \/ \E q \in Process \ {p} : PidIsAlive(q)]_vars

\* After every server and every program on its pid is gone and no other host
\* has a lock, a start that is left alone serves: "an ordinary restart is never
\* blocked" (state-lock.mjs:11-12), save by a file that it could not remove.
Alone(p) == creator # Foreign /\ \A q \in Process \ {p} : ~PidIsAlive(q)

RestartServes ==
    \A p \in Process :
        (pc[p] = "open" /\ Alone(p))
          ~> (pc[p] \in {"owner", "unlocked", "off", "retry"} \/ ~Alone(p))
=============================================================================
