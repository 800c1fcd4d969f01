---------------------------- MODULE JournalLock ----------------------------
(***************************************************************************)
(* The advisory lock that guards the recovery journal: class JournalLock   *)
(* of network_transaction.py, together with the removal of an idle lock    *)
(* file that restore_from_journal performs after it has released the lock. *)
(*                                                                         *)
(* The lock is a lock on an OPEN FILE, not on a name: two processes that   *)
(* opened the same path at different times exclude each other only if the  *)
(* path named the same file (the same inode) both times.                   *)
(***************************************************************************)
EXTENDS FiniteSets

CONSTANTS
    Procs,      \* every process that may take the journal lock
    Inodes,     \* files the lock path may come to name
    NoInode,    \* "no file": the path is absent, or a process has no handle
    Posix       \* TRUE: flock, open files may be unlinked; FALSE: Windows

ASSUME NoInodeAssumption == NoInode \notin Inodes
ASSUME PosixAssumption == Posix \in BOOLEAN

VARIABLES
    lockFile,   \* the file the path <journal>.lock names, or NoInode
    handle,     \* JournalLock.handle of every process, as the file it opened
    locked      \* the processes that hold a file lock

lockVars == <<lockFile, handle, locked>>

LockTypeOK ==
    /\ lockFile \in Inodes \cup {NoInode}
    /\ handle \in [Procs -> Inodes \cup {NoInode}]
    /\ locked \in SUBSET Procs

LockInit ==
    /\ lockFile = NoInode
    /\ handle = [p \in Procs |-> NoInode]
    /\ locked = {}

-----------------------------------------------------------------------------
(* A file no path and no handle refers to.                                 *)
Fresh(i) == i # lockFile /\ \A q \in Procs : handle[q] # i

(* open("a+"): the file the path names, a new one when the path is absent. *)
Open(p) ==
    /\ handle[p] = NoInode
    /\ \E i \in Inodes :
        /\ IF lockFile = NoInode THEN Fresh(i) ELSE i = lockFile
        /\ lockFile' = i
        /\ handle' = [handle EXCEPT ![p] = i]
    /\ UNCHANGED locked

(* Another process has locked the very file p has open.                    *)
HeldByOther(p) == \E q \in locked \ {p} : handle[q] = handle[p]

(* Mutant of Flock: a shared lock, which does not exclude another one.     *)
FlockShared(p) ==
    /\ handle[p] # NoInode
    /\ locked' = locked \cup {p}
    /\ UNCHANGED <<lockFile, handle>>

(* flock(LOCK_EX | LOCK_NB), msvcrt.locking(LK_NBLCK): never blocks.       *)
Flock(p) ==
    /\ handle[p] # NoInode
    /\ ~HeldByOther(p)
    /\ locked' = locked \cup {p}
    /\ UNCHANGED <<lockFile, handle>>

(* release(): drop the lock if it is held and close the handle. The kernel *)
(* does the same for a process that dies.                                  *)
Close(p) ==
    /\ handle' = [handle EXCEPT ![p] = NoInode]
    /\ locked' = locked \ {p}
    /\ UNCHANGED lockFile

(* Windows refuses to delete a file that any process has open; POSIX       *)
(* removes the name whoever has the file open.                             *)
CanUnlink == Posix \/ \A q \in Procs : handle[q] = NoInode \/ handle[q] # lockFile

(* lock.path.unlink(missing_ok=True)                                       *)
Unlink ==
    /\ CanUnlink
    /\ lockFile' = NoInode
    /\ UNCHANGED <<handle, locked>>

LockNext ==
    \/ \E p \in Procs : Open(p) \/ Flock(p) \/ Close(p)
    \/ Unlink

LockSpec == LockInit /\ [][LockNext]_lockVars

-----------------------------------------------------------------------------
(* What makes the file lock a lock on the journal: every open handle is on *)
(* the file the path names now, and whoever holds the lock has a handle.   *)
OneLockFile ==
    /\ \A p \in Procs : handle[p] # NoInode => handle[p] = lockFile
    /\ \A p \in locked : handle[p] # NoInode

(* No two processes hold the lock on one file.                             *)
OneLockPerFile ==
    \A p, q \in locked : handle[p] = handle[q] => p = q

LockInv == LockTypeOK /\ OneLockFile /\ OneLockPerFile

(* The journal lock is held by one process at a time, whichever file each  *)
(* of them locked.                                                         *)
MutualExclusion == \A p, q \in locked : p = q
=============================================================================
