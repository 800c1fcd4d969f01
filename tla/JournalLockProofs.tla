------------------------- MODULE JournalLockProofs -------------------------
(***************************************************************************)
(* The journal lock excludes, for any number of processes, wherever the    *)
(* system refuses to delete a file that is open (Windows). On POSIX it     *)
(* does not: see the run tx_posix_race.                                    *)
(***************************************************************************)
EXTENDS JournalLock, TLAPS

(* The initial state has no handle and no lock.                            *)
LEMMA LockInvInit == LockInit => LockInv
BY DEF LockInit, LockInv, LockTypeOK, OneLockFile, OneLockPerFile

(* Every step of the lock keeps the invariant: a handle is opened on the   *)
(* file the path names, and the name goes only when no handle is left.     *)
LEMMA LockInvStep ==
    ASSUME ~Posix, LockInv, [LockNext]_lockVars
    PROVE  LockInv'
<1> USE NoInodeAssumption
<1> USE DEF LockInv, LockTypeOK, OneLockFile, OneLockPerFile
<1>1. ASSUME NEW p \in Procs, Open(p) PROVE LockInv'
  <2>1. PICK i \in Inodes :
           /\ IF lockFile = NoInode THEN Fresh(i) ELSE i = lockFile
           /\ lockFile' = i
           /\ handle' = [handle EXCEPT ![p] = i]
    BY <1>1 DEF Open
  <2>2. p \notin locked /\ locked' = locked
    BY <1>1 DEF Open
  <2>3. lockFile = NoInode => \A q \in Procs : handle[q] = NoInode
    OBVIOUS
  <2>4. LockTypeOK'
    BY <2>1, <2>2
  <2>5. OneLockFile'
    BY <2>1, <2>2, <2>3
  <2>6. OneLockPerFile'
    BY <2>1, <2>2
  <2>7. QED
    BY <2>4, <2>5, <2>6
<1>2. ASSUME NEW p \in Procs, Flock(p) PROVE LockInv'
  BY <1>2 DEF Flock, HeldByOther
<1>3. ASSUME NEW p \in Procs, Close(p) PROVE LockInv'
  BY <1>3 DEF Close
<1>4. CASE Unlink
  BY <1>4 DEF Unlink, CanUnlink
<1>5. CASE UNCHANGED lockVars
  BY <1>5 DEF lockVars
<1>6. QED
  BY <1>1, <1>2, <1>3, <1>4, <1>5 DEF LockNext

(* One lock file, hence one lock: the invariant implies mutual exclusion.  *)
LEMMA LockInvExcludes == LockInv => MutualExclusion
BY DEF LockInv, LockTypeOK, OneLockFile, OneLockPerFile, MutualExclusion

(* Mutual exclusion of the journal lock, whatever the processes do with    *)
(* it and however often the idle lock file is deleted.                     *)
THEOREM LockMutualExclusion ==
    ASSUME ~Posix
    PROVE  LockSpec => []MutualExclusion
<1>1. LockInv /\ [LockNext]_lockVars => LockInv'
  BY LockInvStep
<1>2. LockInv => MutualExclusion
  BY LockInvExcludes
<1>3. QED
  BY LockInvInit, <1>1, <1>2, PTL DEF LockSpec
=============================================================================
