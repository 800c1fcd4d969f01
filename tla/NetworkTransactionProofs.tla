---------------------- MODULE NetworkTransactionProofs ----------------------
(***************************************************************************)
(* For any number of sessions, watchdogs and manual recoveries, any        *)
(* settings, and any number of failures and kills, on a system that keeps  *)
(* open files (~Posix): the transactions exclude each other, the journal   *)
(* always suffices to restore the interface, and the program implements    *)
(* SnapshotGuard.                                                          *)
(***************************************************************************)
EXTENDS NetworkTransaction, JournalLockProofs

(* Whoever is between acquire() and release() does hold the lock.          *)
LockHeld == \A p \in Procs : Critical(p) => p \in locked

(* Only sessions run transactions.                                         *)
ContextInv ==
    \A p \in Procs : (ctx[p] = "alone") <=> (p \notin Sessions)

(* The journal file and the interface, whoever is running.                 *)
JournalInv ==
    /\ journal = NoJournal => Restored
    /\ journal # NoJournal =>
        /\ Promised(journal.snapshot) = Promised(Original)
        /\ nic \subseteq Original \cup Compared \cup {journal.app_ip} \cup journal.app_routes
    /\ ProgressHonest

(* A recovering process works on a copy of the journal that is on disk:    *)
(* nobody else has written it since it was read.                           *)
SameLease(i, j) ==
    i.snapshot = j.snapshot /\ i.app_ip = j.app_ip /\ i.app_routes = j.app_routes

RecoveryInv(p) ==
    /\ pc[p] \in RecoveryPcs =>
        /\ journal # NoJournal
        /\ SameLease(mem[p], journal)
        /\ mem[p].status = "restoring"
    /\ pc[p] \in {"restoring", "configuration"} => mem[p].phase = "starting"
    /\ pc[p] \in {"restore", "convergence"} => mem[p].phase = "configuration"
    /\ pc[p] \in {"verify", "verification"} => mem[p].phase = "convergence"
    /\ pc[p] \in RecoveryPcs \ {"restoring", "failed", "unlink"} => journal = mem[p]
    /\ pc[p] \in {"verification", "restored", "unlink"} => Restored
    /\ pc[p] = "failed" /\ mem[p].phase = "verification" => Restored

(* A session: what the transaction object holds is what the journal says,  *)
(* from the first write to the moment the interface is given back.         *)
ActivePcs == {"spawn", "prepare", "handshake", "configure", "apply", "running"}

SessionInv(s) ==
    /\ pc[s] \in {"capture", "save"} => journal = NoJournal
    /\ pc[s] \in ActivePcs \cup {"save"} =>
        Promised(tx[s].snapshot) = Promised(Original)
    /\ pc[s] \in ActivePcs =>
        /\ journal # NoJournal
        /\ journal.status \in TransactionStatus
        /\ journal = TransactionJournal(tx[s], journal.status)
    /\ ctx[s] = "begin" /\ pc[s] \notin {"apply", "running", "release"} =>
        tx[s].app_ip = NoAddr /\ tx[s].app_routes = {}
    /\ pc[s] \in ActivePcs \cup {"capture", "save"} => ctx[s] = "begin"
    /\ pc[s] \in {"closePipe", "unlock"} /\ code[s] # 5 =>
        Restored /\ journal = NoJournal

(* TypeOK alone is not inductive: a recovery updates     *)
(* fields of the journal it has in memory, and must have one there; the    *)
(* address a session installs must be one.                                 *)
MemTyped == \A p \in Procs : pc[p] \in RecoveryPcs => mem[p] \in Journals
LeaseTyped == \A s \in Sessions : pc[s] = "apply" => tx[s].app_ip \in LeaseAddrs
Typed == TypeOK /\ MemTyped /\ LeaseTyped

IInv ==
    /\ Typed
    /\ LockInv
    /\ LockHeld
    /\ ContextInv
    /\ JournalInv
    /\ \A p \in Procs : RecoveryInv(p)
    /\ \A s \in Sessions : SessionInv(s)

-----------------------------------------------------------------------------
(* Type correctness.                                                       *)
LEMMA TypeInit == Init => Typed
BY ProcsAssumption, ItemsAssumption, BoundsAssumption
DEF Init, Typed, MemTyped, LeaseTyped, RecoveryPcs, TypeOK, LockInit, LockTypeOK, NoTransaction, Transactions, Pcs

(* The journals the code derives from one another.                         *)
LEMMA JournalFields ==
    ASSUME NEW j \in Journals
    PROVE  /\ [j EXCEPT !.status = "restoring", !.phase = "starting"] \in Journals
           /\ \A st \in RecoveryStatus : [j EXCEPT !.status = st] \in Journals
           /\ \A ph \in Phases : [j EXCEPT !.phase = ph] \in Journals
BY DEF Journals, RecoveryStatus, Phases

LEMMA JournalStays ==
    ASSUME NEW j \in Journals
    PROVE  /\ \A st \in RecoveryStatus : [j EXCEPT !.status = st] # NoJournal
           /\ \A ph \in Phases : [j EXCEPT !.phase = ph] # NoJournal
BY JournalFields, NoJournalAssumption

LEMMA TransactionJournalType ==
    ASSUME NEW t \in Transactions, NEW st \in TransactionStatus
    PROVE  TransactionJournal(t, st) \in Journals
BY DEF TransactionJournal, Transactions, Journals, TransactionStatus, Phases

LEMMA LockingType ==
    ASSUME TypeOK, NEW p \in Procs,
           Gate(p) \/ Locking(p) \/ Cleanup(p) \/ UnlinkLock(p)
    PROVE  TypeOK'
<1> USE DEF TypeOK, LockTypeOK, Goto, Pcs, CriticalPcs, SessionPcs, Finished, ExitCode
<1>1. CASE Gate(p)
  BY <1>1 DEF Gate, lockVars
<1>2. CASE AcquireOpen(p)
  BY <1>2 DEF AcquireOpen, Open
<1>3. CASE AcquireLock(p)
  BY <1>3 DEF AcquireLock, Flock
<1>4. CASE AcquireFails(p)
  BY <1>4, BoundsAssumption DEF AcquireFails, Close, Fault, NoFault
<1>5. CASE Unlock(p)
  BY <1>5, ItemsAssumption DEF Unlock, Close, MemoryGone, NoTransaction, Transactions
<1>6. CASE Cleanup(p)
  BY <1>6 DEF Cleanup, lockVars
<1>7. CASE UnlinkLock(p)
  BY <1>7 DEF UnlinkLock, Unlink, lockVars
<1>8. QED
  BY <1>1, <1>2, <1>3, <1>4, <1>5, <1>6, <1>7 DEF Locking

LEMMA RecoveryType ==
    ASSUME TypeOK, NEW p \in Procs, Recovery(p),
           pc[p] \in RecoveryPcs => mem[p] \in Journals
    PROVE  TypeOK'
<1> USE BoundsAssumption
<1> USE DEF TypeOK, Goto, Pcs, CriticalPcs, SessionPcs, RecoveryPcs, Finished,
            ExitCode, Fault, NoFault, RecoveryFault, RaiseTo, Return,
            AfterRecovery, AfterFailure, LockTypeOK, lockVars
<1>1. CASE JournalExists(p)
  BY <1>1 DEF JournalExists
<1>2. CASE ReadJournal(p)
  <2>1. journal # NoJournal =>
           [journal EXCEPT !.status = "restoring", !.phase = "starting"] \in Journals
    BY JournalFields
  <2>2. QED
    BY <1>2, <2>1 DEF ReadJournal
<1>3. CASE MarkRestoring(p)
  BY <1>3 DEF MarkRestoring
<1>4. CASE Progress(p)
  <2>1. \A ph \in Phases : mem[p] \in Journals => [mem[p] EXCEPT !.phase = ph] \in Journals
    BY JournalFields
  <2>2. QED
    BY <1>4, <2>1 DEF Progress, Reach, Phases
<1>5. CASE RestoreItem(p)
  BY <1>5 DEF RestoreItem
<1>6. CASE RestoreReturns(p)
  BY <1>6 DEF RestoreReturns
<1>7. CASE Verify(p)
  BY <1>7 DEF Verify
<1>8. CASE MarkFailed(p)
  <2>1. mem[p] \in Journals => [mem[p] EXCEPT !.status = "restore_failed"] \in Journals
    BY JournalFields DEF RecoveryStatus
  <2>2. QED
    BY <1>8, <2>1 DEF MarkFailed
<1>9. CASE MarkRestored(p)
  <2>1. mem[p] \in Journals => [mem[p] EXCEPT !.status = "restored"] \in Journals
    BY JournalFields DEF RecoveryStatus
  <2>2. QED
    BY <1>9, <2>1 DEF MarkRestored
<1>10. CASE UnlinkJournal(p)
  BY <1>10 DEF UnlinkJournal
<1>11. QED
  BY <1>1, <1>2, <1>3, <1>4, <1>5, <1>6, <1>7, <1>8, <1>9, <1>10 DEF Recovery

LEMMA TransactionType ==
    ASSUME TypeOK, NEW s \in Sessions, Transaction(s) \/ StopRunning(s),
           pc[s] = "apply" => tx[s].app_ip \in LeaseAddrs
    PROVE  TypeOK'
<1> s \in Procs
  BY ProcsAssumption
<1> USE BoundsAssumption, ItemsAssumption
<1>0. \A st \in TransactionStatus : TransactionJournal(tx[s], st) \in Journals
  BY TransactionJournalType DEF TypeOK
<1> USE DEF TypeOK, Goto, Pcs, CriticalPcs, SessionPcs, Finished, ExitCode,
            Fault, NoFault, Abort, LockTypeOK, lockVars
<1>1. CASE Capture(s)
  BY <1>1 DEF Capture, Transactions
<1>2. CASE SaveSnapshot(s)
  BY <1>0, <1>2 DEF SaveSnapshot, TransactionStatus
<1>3. CASE StartWatchdog(s)
  BY <1>3, ProcsAssumption DEF StartWatchdog
<1>4. CASE PrepareItem(s)
  BY <1>4 DEF PrepareItem
<1>5. CASE Prepared(s)
  BY <1>0, <1>5 DEF Prepared, TransactionStatus
<1>6. CASE Handshake(s)
  BY <1>6 DEF Handshake
<1>7. CASE ReceiveLease(s)
  <2>1. PICK ip \in LeaseAddrs, routes \in SUBSET LeaseRoutes, gateway \in BOOLEAN :
           ReceiveLease(s)!1!(ip, routes, gateway)
    BY <1>7 DEF ReceiveLease
  <2>2. [snapshot |-> tx[s].snapshot, app_ip |-> ip, app_routes |-> routes]
            \in Transactions
    BY DEF Transactions
  <2>3. tx' \in [Sessions -> Transactions] /\ tx'[s] \in Transactions
    BY <2>1, <2>2
  <2>4. TransactionJournal(tx'[s], "lease_received") \in Journals
    BY <2>3, TransactionJournalType DEF TransactionStatus
  <2>5. journal' \in Journals \cup {NoJournal}
    BY <2>1, <2>4
  <2>6. QED
    BY <1>7, <2>1, <2>3, <2>5 DEF ReceiveLease
<1>8. CASE ApplyItem(s)
  BY <1>8 DEF ApplyItem, Transactions
<1>9. CASE LeaseApplied(s)
  BY <1>0, <1>9 DEF LeaseApplied, TransactionStatus
<1>10. CASE ReleaseLease(s)
  BY <1>10 DEF ReleaseLease
<1>11. CASE CloseWatchdog(s)
  BY <1>11 DEF CloseWatchdog
<1>12. CASE StopRunning(s)
  BY <1>12 DEF StopRunning
<1>13. QED
  BY <1>1, <1>2, <1>3, <1>4, <1>5, <1>6, <1>7, <1>8, <1>9, <1>10, <1>11, <1>12
     DEF Transaction

LEMMA CrashType ==
    ASSUME TypeOK, NEW p \in Procs, Crash(p)
    PROVE  TypeOK'
BY BoundsAssumption, ItemsAssumption
DEF TypeOK, LockTypeOK, Crash, Close, MemoryGone, NoTransaction, Transactions, Pcs, Finished

(* What a step of p leaves alone in the other processes. A spawned watchdog *)
(* is the one process whose control another process moves.                 *)
OthersKept(p) ==
    /\ \A q \in Procs \ {p} :
        /\ pc'[q] = pc[q] \/ (pc'[q] = "watch" /\ q \notin Sessions)
        /\ mem'[q] = mem[q] /\ ctx'[q] = ctx[q] /\ code'[q] = code[q]
        /\ q \in locked => q \in locked'
    /\ \A s \in Sessions \ {p} : tx'[s] = tx[s]

LEMMA StepKeepsOthers ==
    ASSUME TypeOK, NEW p \in Procs,
           Step(p) \/ Crash(p) \/ (p \in Sessions /\ StopRunning(p))
    PROVE  OthersKept(p)
<1> USE DEF TypeOK, LockTypeOK, OthersKept, Goto, ExitCode, Fault, RecoveryFault,
            RaiseTo, Return, MemoryGone, Abort, lockVars
<1>1. CASE Gate(p) \/ Cleanup(p) \/ UnlinkLock(p) \/ StopRunning(p) \/ WatchdogWakes(p)
  BY <1>1 DEF Gate, Cleanup, UnlinkLock, Unlink, StopRunning, WatchdogWakes
<1>2. CASE Locking(p)
  BY <1>2 DEF Locking, AcquireOpen, Open, AcquireLock, Flock, AcquireFails, Close, Unlock
<1>3. CASE JournalExists(p) \/ ReadJournal(p) \/ MarkRestoring(p) \/ Progress(p)
  BY <1>3 DEF JournalExists, ReadJournal, MarkRestoring, Progress, Reach
<1>4. CASE RestoreItem(p) \/ RestoreReturns(p) \/ Verify(p)
  BY <1>4 DEF RestoreItem, RestoreReturns, Verify
<1>5. CASE MarkFailed(p) \/ MarkRestored(p) \/ UnlinkJournal(p)
  BY <1>5 DEF MarkFailed, MarkRestored, UnlinkJournal
<1>6. CASE Capture(p) \/ SaveSnapshot(p) \/ PrepareItem(p) \/ Prepared(p)
  BY <1>6 DEF Capture, SaveSnapshot, PrepareItem, Prepared
<1>7. CASE p \in Sessions /\ StartWatchdog(p)
  BY <1>7, ProcsAssumption DEF StartWatchdog
<1>8. CASE Handshake(p) \/ ReceiveLease(p) \/ ApplyItem(p) \/ LeaseApplied(p)
           \/ ReleaseLease(p) \/ CloseWatchdog(p)
  BY <1>8 DEF Handshake, ReceiveLease, ApplyItem, LeaseApplied, ReleaseLease, CloseWatchdog
<1>9. CASE Crash(p)
  BY <1>9 DEF Crash, Close
<1>10. QED
  BY <1>1, <1>2, <1>3, <1>4, <1>5, <1>6, <1>7, <1>8, <1>9 DEF Step, Recovery, Transaction

(* A process that is to recover has read a journal.                        *)
LEMMA OwnMemTyped ==
    ASSUME Typed, TypeOK', NEW p \in Procs,
           Step(p) \/ Crash(p) \/ (p \in Sessions /\ StopRunning(p))
    PROVE  pc'[p] \in RecoveryPcs => mem'[p] \in Journals
<1>1. pc[p] \in RecoveryPcs => mem[p] \in Journals
  BY DEF Typed, MemTyped
<1> USE DEF Typed, TypeOK, LockTypeOK, Goto, RecoveryPcs, Fault, RecoveryFault,
            RaiseTo, Return, AfterRecovery, AfterFailure, Abort
<1>2. CASE Gate(p) \/ Cleanup(p) \/ UnlinkLock(p) \/ StopRunning(p) \/ WatchdogWakes(p)
  BY <1>2 DEF Gate, Cleanup, UnlinkLock, StopRunning, WatchdogWakes
<1>3. CASE Locking(p)
  BY <1>3 DEF Locking, AcquireOpen, AcquireLock, AcquireFails, Unlock
<1>4. CASE JournalExists(p) \/ UnlinkJournal(p) \/ MarkFailed(p)
  BY <1>4 DEF JournalExists, UnlinkJournal, MarkFailed
<1>5. CASE ReadJournal(p)
  <2>1. journal # NoJournal =>
           [journal EXCEPT !.status = "restoring", !.phase = "starting"] \in Journals
    BY JournalFields
  <2>2. QED
    BY <1>5, <2>1 DEF ReadJournal
<1>6. CASE MarkRestoring(p) \/ MarkRestored(p)
  BY <1>1, <1>6 DEF MarkRestoring, MarkRestored
<1>7. CASE Progress(p)
  <2>1. \A ph \in Phases : mem[p] \in Journals => [mem[p] EXCEPT !.phase = ph] \in Journals
    BY JournalFields
  <2>2. QED
    BY <1>1, <1>7, <2>1 DEF Progress, Reach, Phases
<1>8. CASE RestoreItem(p) \/ RestoreReturns(p) \/ Verify(p)
  BY <1>1, <1>8 DEF RestoreItem, RestoreReturns, Verify
<1>9. CASE p \in Sessions /\ Transaction(p)
  BY <1>9, ProcsAssumption
     DEF Transaction, Capture, SaveSnapshot, StartWatchdog, PrepareItem, Prepared,
         Handshake, ReceiveLease, ApplyItem, LeaseApplied, ReleaseLease, CloseWatchdog
<1>10. CASE Crash(p)
  BY <1>10 DEF Crash
<1>11. QED
  BY <1>2, <1>3, <1>4, <1>5, <1>6, <1>7, <1>8, <1>9, <1>10 DEF Step, Recovery

(* A session that applies a lease has an address.                          *)
LEMMA OwnLeaseTyped ==
    ASSUME Typed, NEW s \in Sessions, Step(s) \/ Crash(s) \/ StopRunning(s)
    PROVE  pc'[s] = "apply" => tx'[s].app_ip \in LeaseAddrs
<1> s \in Procs /\ s \notin Watchdogs
  BY ProcsAssumption
<1>1. pc[s] = "apply" => tx[s].app_ip \in LeaseAddrs
  BY DEF Typed, LeaseTyped
<1> USE DEF Typed, TypeOK, Goto, Fault, RecoveryFault, RaiseTo, Return,
            AfterRecovery, AfterFailure, Abort
<1>2. CASE Gate(s) \/ StopRunning(s)
  BY <1>2 DEF Gate, StopRunning
<1>3. CASE Locking(s)
  BY <1>3 DEF Locking, AcquireOpen, AcquireLock, AcquireFails, Unlock
<1>4. CASE Recovery(s)
  BY <1>4 DEF Recovery, JournalExists, ReadJournal, MarkRestoring, Progress, Reach,
              RestoreItem, RestoreReturns, Verify, MarkFailed, MarkRestored, UnlinkJournal
<1>5. CASE ReceiveLease(s)
  BY <1>5 DEF ReceiveLease
<1>6. CASE ApplyItem(s)
  BY <1>1, <1>6 DEF ApplyItem
<1>7. CASE Transaction(s) /\ ~ReceiveLease(s) /\ ~ApplyItem(s)
  BY <1>7, ProcsAssumption
     DEF Transaction, Capture, SaveSnapshot, StartWatchdog, PrepareItem, Prepared,
         Handshake, LeaseApplied, ReleaseLease, CloseWatchdog
<1>8. CASE Crash(s)
  BY <1>8 DEF Crash
<1>9. QED
  BY <1>2, <1>3, <1>4, <1>5, <1>6, <1>7, <1>8 DEF Step

LEMMA TypeStep == Typed /\ [Next]_vars => Typed'
<1> SUFFICES ASSUME Typed, [Next]_vars PROVE Typed'
  OBVIOUS
<1>1. ASSUME NEW p \in Procs, Step(p) \/ Crash(p) \/ (p \in Sessions /\ StopRunning(p))
      PROVE  Typed'
  <2>1. TypeOK'
    <3>1. CASE p \in Watchdogs /\ WatchdogWakes(p)
      BY <3>1 DEF WatchdogWakes, Typed, TypeOK, LockTypeOK, lockVars, Goto, Pcs
    <3>2. QED
      BY <1>1, <3>1, LockingType, RecoveryType, TransactionType, CrashType
         DEF Step, Typed, MemTyped, LeaseTyped
  <2>2. OthersKept(p)
    BY <1>1, StepKeepsOthers DEF Typed
  <2>3. MemTyped'
    <3>1. pc'[p] \in RecoveryPcs => mem'[p] \in Journals
      BY <1>1, <2>1, OwnMemTyped
    <3>2. QED
      BY <2>2, <3>1 DEF OthersKept, Typed, MemTyped, RecoveryPcs
  <2>4. LeaseTyped'
    <3>1. p \in Sessions => (pc'[p] = "apply" => tx'[p].app_ip \in LeaseAddrs)
      BY <1>1, OwnLeaseTyped
    <3>2. QED
      BY <2>2, <3>1, ProcsAssumption DEF OthersKept, Typed, LeaseTyped
  <2>5. QED
    BY <2>1, <2>3, <2>4 DEF Typed
<1>2. CASE UNCHANGED vars
  BY <1>2 DEF vars, txVars, lockVars, Typed, MemTyped, LeaseTyped, TypeOK, LockTypeOK
<1>3. QED
  BY <1>1, <1>2, ProcsAssumption DEF Next, Terminated

(* Every variable keeps its type, for every instance of the program.       *)
THEOREM TypeCorrect == Spec => []TypeOK
<1>1. Typed => TypeOK
  BY DEF Typed
<1>2. QED
  BY TypeInit, TypeStep, <1>1, PTL DEF Spec

-----------------------------------------------------------------------------
(* The inductive invariant.                                                *)

LEMMA StepUsesLock ==
    ASSUME TypeOK, NEW p \in Procs,
           Step(p) \/ Crash(p) \/ (p \in Sessions /\ StopRunning(p))
    PROVE  [LockNext]_lockVars
<1> USE DEF LockNext
<1>1. CASE Gate(p) \/ Cleanup(p) \/ UnlinkLock(p) \/ StopRunning(p) \/ WatchdogWakes(p)
  BY <1>1 DEF Gate, Cleanup, UnlinkLock, StopRunning, WatchdogWakes
<1>2. CASE Locking(p)
  BY <1>2 DEF Locking, AcquireOpen, AcquireLock, AcquireFails, Unlock
<1>3. CASE Recovery(p)
  BY <1>3 DEF Recovery, JournalExists, ReadJournal, MarkRestoring, Progress,
              RestoreItem, RestoreReturns, Verify, MarkFailed, MarkRestored, UnlinkJournal
<1>4. CASE Transaction(p)
  BY <1>4 DEF Transaction, Capture, SaveSnapshot, StartWatchdog, PrepareItem, Prepared,
              Handshake, ReceiveLease, ApplyItem, LeaseApplied, ReleaseLease, CloseWatchdog
<1>5. CASE Crash(p)
  BY <1>5 DEF Crash
<1>6. QED
  BY <1>1, <1>2, <1>3, <1>4, <1>5 DEF Step

(* The journal and the interface change only between acquire() and         *)
(* release(), and a process gets there by locking.                         *)
LEMMA StepHoldsLock ==
    ASSUME TypeOK, LockHeld, NEW p \in Procs,
           Step(p) \/ Crash(p) \/ (p \in Sessions /\ StopRunning(p))
    PROVE  /\ pc'[p] \in CriticalPcs => p \in locked'
           /\ Critical(p) \/ UNCHANGED <<journal, nic>>
<1>0. pc[p] \in CriticalPcs => p \in locked
  BY DEF LockHeld, Critical
<1> USE <1>0 DEF TypeOK, LockTypeOK, Critical, CriticalPcs, SessionPcs, RecoveryPcs,
                 Finished, Goto, Fault, RecoveryFault, RaiseTo, lockVars
<1>1. CASE Gate(p) \/ Cleanup(p) \/ UnlinkLock(p) \/ StopRunning(p) \/ WatchdogWakes(p)
  BY <1>1 DEF Gate, Cleanup, UnlinkLock, StopRunning, WatchdogWakes
<1>2. CASE Locking(p)
  BY <1>2 DEF Locking, AcquireOpen, AcquireLock, AcquireFails, Unlock, Flock
<1>3. CASE JournalExists(p) \/ ReadJournal(p) \/ MarkRestoring(p) \/ UnlinkJournal(p)
  BY <1>3 DEF JournalExists, ReadJournal, MarkRestoring, UnlinkJournal, Return
<1>4. CASE Progress(p) \/ RestoreItem(p) \/ RestoreReturns(p) \/ Verify(p)
           \/ MarkFailed(p) \/ MarkRestored(p)
  BY <1>4 DEF Progress, Reach, RestoreItem, RestoreReturns, Verify, MarkFailed, MarkRestored
<1>5. CASE p \in Sessions /\ Transaction(p)
  BY <1>5, ProcsAssumption
     DEF Transaction, Capture, SaveSnapshot, StartWatchdog, PrepareItem, Prepared,
         Handshake, ReceiveLease, ApplyItem, LeaseApplied, ReleaseLease, CloseWatchdog, Abort
<1>6. CASE Crash(p)
  BY <1>6 DEF Crash
<1>7. QED
  BY <1>1, <1>2, <1>3, <1>4, <1>5, <1>6 DEF Step, Recovery

(* A session is never a recovery process, and the other way round.         *)
LEMMA StepKeepsContext ==
    ASSUME TypeOK, ContextInv, NEW p \in Procs,
           Step(p) \/ Crash(p) \/ (p \in Sessions /\ StopRunning(p))
    PROVE  ContextInv'
<1> USE DEF TypeOK, ContextInv
<1>1. CASE Gate(p) \/ Cleanup(p) \/ UnlinkLock(p) \/ StopRunning(p) \/ WatchdogWakes(p)
  BY <1>1 DEF Gate, Cleanup, UnlinkLock, StopRunning, WatchdogWakes
<1>2. CASE Locking(p) \/ Crash(p)
  BY <1>2 DEF Locking, AcquireOpen, AcquireLock, AcquireFails, Unlock, Crash
<1>3. CASE Recovery(p)
  BY <1>3 DEF Recovery, JournalExists, ReadJournal, MarkRestoring, Progress,
              RestoreItem, RestoreReturns, Verify, MarkFailed, MarkRestored, UnlinkJournal
<1>4. CASE p \in Sessions /\ Transaction(p)
  BY <1>4 DEF Transaction, Capture, SaveSnapshot, StartWatchdog, PrepareItem, Prepared,
              Handshake, ReceiveLease, ApplyItem, LeaseApplied, ReleaseLease,
              CloseWatchdog, Abort
<1>5. QED
  BY <1>1, <1>2, <1>3, <1>4 DEF Step

(* The updates of a journal touch the fields they name.                    *)
LEMMA JournalUpdates ==
    ASSUME NEW j \in Journals
    PROVE  /\ \A st : /\ [j EXCEPT !.status = st].status = st
                     /\ [j EXCEPT !.status = st].phase = j.phase
                     /\ SameLease([j EXCEPT !.status = st], j)
           /\ \A ph : /\ [j EXCEPT !.phase = ph].phase = ph
                     /\ [j EXCEPT !.phase = ph].status = j.status
                     /\ SameLease([j EXCEPT !.phase = ph], j)
           /\ LET k == [j EXCEPT !.status = "restoring", !.phase = "starting"]
              IN  k.status = "restoring" /\ k.phase = "starting" /\ SameLease(k, j)
BY DEF Journals, SameLease

(* What a recovery step leaves true of the files and of its own process.   *)
OwnInv(p) ==
    /\ JournalInv
    /\ RecoveryInv(p)
    /\ p \in Sessions => SessionInv(p)

LEMMA RecoveryOwn ==
    ASSUME IInv, NEW p \in Procs, Recovery(p)
    PROVE  OwnInv(p)'
<1> USE ItemsAssumption
<1>0. /\ TypeOK /\ JournalInv /\ RecoveryInv(p)
      /\ p \in Sessions => SessionInv(p)
      /\ pc[p] \in RecoveryPcs => mem[p] \in Journals /\ mem[p] # NoJournal
      /\ journal # NoJournal => journal \in Journals
      /\ (ctx[p] = "alone") <=> (p \notin Sessions)
  BY NoJournalAssumption DEF IInv, Typed, MemTyped, TypeOK, ContextInv
<1> USE <1>0 DEF TypeOK, OwnInv, JournalInv, Restored, ProgressHonest, RecoveryInv, SessionInv,
                 RecoveryPcs, ActivePcs, SameLease, Goto, NoFault, ExitCode
<1>1. CASE JournalExists(p)
  BY <1>1 DEF JournalExists, Return, AfterRecovery
<1>2. CASE ReadJournal(p)
  <2>1. CASE Goto(p, "read", "restoring") /\ journal # NoJournal
                /\ mem' = [mem EXCEPT ![p] = [journal EXCEPT !.status = "restoring",
                                                          !.phase = "starting"]]
    <3>1. /\ mem'[p].status = "restoring" /\ mem'[p].phase = "starting"
          /\ SameLease(mem'[p], journal)
      BY <2>1, JournalUpdates
    <3>2. UNCHANGED <<journal, nic, tx, ctx>> /\ pc'[p] = "restoring"
      BY <1>2, <2>1 DEF ReadJournal
    <3>3. QED
      BY <2>1, <3>1, <3>2
  <2>2. CASE RaiseTo(p, "read")
    BY <1>2, <2>2 DEF ReadJournal, RaiseTo, AfterFailure
  <2>3. QED
    BY <1>2, <2>1, <2>2 DEF ReadJournal, RecoveryFault
<1>3. CASE MarkRestoring(p)
  BY <1>3 DEF MarkRestoring, RecoveryFault, RaiseTo, AfterFailure
<1>4. CASE Progress(p)
  <2>1. PICK ph \in Phases, next \in {"restore", "verify", "restored"} :
           /\ Reach(p, ph, next) /\ pc[p] = ph
           /\ <<ph, next>> \in {<<"configuration", "restore">>,
                                <<"convergence", "verify">>,
                                <<"verification", "restored">>}
    BY <1>4 DEF Progress, Phases
  <2>2. /\ mem'[p] = [mem[p] EXCEPT !.phase = ph]
        /\ UNCHANGED <<nic, tx, ctx>>
    BY <1>4, <2>1 DEF Progress, Reach
  <2>3. /\ mem'[p].phase = ph /\ mem'[p].status = "restoring"
        /\ SameLease(mem'[p], mem[p])
    BY <2>1, <2>2, JournalUpdates
  <2>4. \/ pc'[p] = next /\ journal' = mem'[p]
        \/ pc'[p] = "failed" /\ journal' = journal
    BY <2>1 DEF Reach, Fault
  <2>5. ph = "verification" => Restored
    BY <2>1
  <2>6. journal' # NoJournal
    <3>1. mem[p] \in Journals /\ journal # NoJournal
      BY <2>1
    <3>2. [mem[p] EXCEPT !.phase = ph] # NoJournal
      BY <3>1, JournalStays
    <3>3. QED
      BY <2>2, <2>4, <3>1, <3>2
  <2>7. QED
    BY <2>1, <2>2, <2>3, <2>4, <2>5, <2>6
<1>5. CASE RestoreItem(p)
  <2>1. /\ pc[p] = "restore" /\ journal = mem[p] /\ journal # NoJournal
        /\ Promised(mem[p].snapshot) = Promised(Original)
    BY <1>5 DEF RestoreItem
  <2>2. nic' \subseteq nic \cup Original
    BY <1>5, <2>1 DEF RestoreItem, Promised
  <2>3. UNCHANGED <<journal, mem, pc, ctx, tx, code>>
    BY <1>5, <2>1 DEF RestoreItem
  <2>4. QED
    BY <2>1, <2>2, <2>3
<1>6. CASE RestoreReturns(p)
  BY <1>6 DEF RestoreReturns, Fault
<1>7. CASE Verify(p)
  <2>1. UNCHANGED <<journal, nic, mem, tx, ctx>>
    BY <1>7 DEF Verify
  <2>2. CASE pc'[p] = "failed" /\ pc[p] = "verify"
    BY <2>1, <2>2
  <2>3. CASE pc'[p] = "verification" /\ pc[p] = "verify" /\ Verified(mem[p])
    <3>1. /\ journal = mem[p] /\ Promised(mem[p].snapshot) = Promised(Original)
          /\ nic \subseteq Original \cup Compared \cup {mem[p].app_ip} \cup mem[p].app_routes
      BY <2>3
    <3>2. nic \cap Compared = Original \cap Compared
      BY <2>3, <3>1 DEF Verified, Promised
    <3>3. Restored
      BY <2>3, <3>1, <3>2 DEF Verified, Promised, Restored
    <3>4. QED
      BY <2>1, <2>3, <3>3
  <2>4. QED
    BY <1>7, <2>2, <2>3 DEF Verify, Fault
<1>8. CASE MarkFailed(p)
  <2>1. CASE RecoveryFault(p, "failed") /\ UNCHANGED journal
    BY <1>8, <2>1 DEF MarkFailed, RecoveryFault, RaiseTo, AfterFailure
  <2>2. CASE journal' = [mem[p] EXCEPT !.status = "restore_failed"] /\ pc[p] = "failed"
    <3>1. /\ journal'.status = "restore_failed" /\ journal'.phase = mem[p].phase
          /\ SameLease(journal', mem[p])
      BY <2>2, JournalUpdates
    <3>2. journal' # NoJournal
      BY <2>2, JournalStays DEF RecoveryStatus
    <3>3. QED
      BY <1>8, <2>2, <3>1, <3>2 DEF MarkFailed, RecoveryFault, RaiseTo, AfterFailure
  <2>3. QED
    BY <1>8, <2>1, <2>2 DEF MarkFailed, RaiseTo
<1>9. CASE MarkRestored(p)
  <2>1. CASE RecoveryFault(p, "restored") /\ UNCHANGED journal
    BY <1>9, <2>1 DEF MarkRestored, RecoveryFault, RaiseTo, AfterFailure
  <2>2. CASE journal' = [mem[p] EXCEPT !.status = "restored"] /\ pc[p] = "restored"
    <3>1. /\ journal'.status = "restored" /\ journal'.phase = mem[p].phase
          /\ SameLease(journal', mem[p])
      BY <2>2, JournalUpdates
    <3>2. journal' # NoJournal
      BY <2>2, JournalStays DEF RecoveryStatus
    <3>3. QED
      BY <1>9, <2>2, <3>1, <3>2 DEF MarkRestored, RecoveryFault, RaiseTo, AfterFailure
  <2>3. QED
    BY <1>9, <2>1, <2>2 DEF MarkRestored, RaiseTo
<1>10. CASE UnlinkJournal(p)
  BY <1>10 DEF UnlinkJournal, Return, AfterRecovery, RecoveryFault, RaiseTo, AfterFailure
<1>11. QED
  BY <1>1, <1>2, <1>3, <1>4, <1>5, <1>6, <1>7, <1>8, <1>9, <1>10 DEF Recovery

LEMMA TransactionOwn ==
    ASSUME IInv, NEW s \in Sessions, Transaction(s) \/ StopRunning(s)
    PROVE  OwnInv(s)'
<1> USE ItemsAssumption
<1>0. /\ s \in Procs /\ s \notin Watchdogs
      /\ TypeOK /\ JournalInv /\ RecoveryInv(s) /\ SessionInv(s)
      /\ pc[s] = "apply" => tx[s].app_ip \in LeaseAddrs
      /\ tx[s] \in Transactions
  BY ProcsAssumption DEF IInv, Typed, LeaseTyped, TypeOK
<1>a. \A st \in TransactionStatus : TransactionJournal(tx[s], st) # NoJournal
  BY <1>0, TransactionJournalType, NoJournalAssumption
<1> USE <1>0 DEF TypeOK, OwnInv, JournalInv, Restored, ProgressHonest, RecoveryInv, SessionInv,
                 RecoveryPcs, ActivePcs, Goto, NoFault, Fault, Abort, ExitCode
<1>1. CASE Capture(s)
  BY <1>1 DEF Capture, Transactions
<1>2. CASE SaveSnapshot(s)
  <2>1. journal = NoJournal => nic \subseteq Original
    BY DEF Promised
  <2>2. QED
    BY <1>2, <1>a, <2>1 DEF SaveSnapshot, TransactionJournal, TransactionStatus
<1>3. CASE StartWatchdog(s)
  BY <1>3, ProcsAssumption DEF StartWatchdog
<1>4. CASE PrepareItem(s)
  BY <1>4 DEF PrepareItem, TransactionJournal, TransactionStatus
<1>5. CASE Prepared(s)
  BY <1>5, <1>a DEF Prepared, TransactionJournal, TransactionStatus
<1>6. CASE Handshake(s)
  BY <1>6 DEF Handshake
<1>7. CASE ReceiveLease(s)
  <2>1. PICK ip \in LeaseAddrs, routes \in SUBSET LeaseRoutes, gateway \in BOOLEAN :
           ReceiveLease(s)!1!(ip, routes, gateway)
    BY <1>7 DEF ReceiveLease
  <2>2. UNCHANGED <<nic, ctx, mem>> /\ pc[s] = "configure" /\ ctx[s] = "begin"
    BY <1>7, <2>1 DEF ReceiveLease
  <2>3. /\ tx'[s] \in Transactions
        /\ tx'[s].snapshot = tx[s].snapshot /\ tx'[s].app_ip = ip /\ tx'[s].app_routes = routes
    BY <2>1, <2>2 DEF Transactions
  <2>4. CASE pc'[s] = "apply" /\ journal' = TransactionJournal(tx'[s], "lease_received")
    <3>1. nic \subseteq Original \cup Compared
      BY <2>2 DEF TransactionJournal
    <3>2. journal' # NoJournal
      BY <2>3, <2>4, TransactionJournalType, NoJournalAssumption DEF TransactionStatus
    <3>3. QED
      BY <2>2, <2>3, <2>4, <3>1, <3>2 DEF TransactionJournal, TransactionStatus
  <2>5. CASE pc'[s] = "release" /\ UNCHANGED journal
    BY <2>2, <2>5
  <2>6. QED
    BY <2>1, <2>4, <2>5
<1>8. CASE ApplyItem(s)
  BY <1>8 DEF ApplyItem, TransactionJournal, TransactionStatus
<1>9. CASE LeaseApplied(s)
  BY <1>9, <1>a DEF LeaseApplied, TransactionJournal, TransactionStatus
<1>10. CASE ReleaseLease(s)
  BY <1>10 DEF ReleaseLease
<1>11. CASE CloseWatchdog(s)
  BY <1>11 DEF CloseWatchdog
<1>12. CASE StopRunning(s)
  BY <1>12 DEF StopRunning
<1>13. QED
  BY <1>1, <1>2, <1>3, <1>4, <1>5, <1>6, <1>7, <1>8, <1>9, <1>10, <1>11, <1>12
     DEF Transaction

LEMMA LockingOwn ==
    ASSUME IInv, NEW p \in Procs,
           \/ Gate(p) \/ Locking(p) \/ Cleanup(p) \/ UnlinkLock(p)
           \/ WatchdogWakes(p) \/ Crash(p)
    PROVE  OwnInv(p)'
<1>0. /\ TypeOK /\ JournalInv /\ RecoveryInv(p)
      /\ p \in Sessions => SessionInv(p)
  BY DEF IInv, Typed
<1> USE <1>0 DEF TypeOK, OwnInv, JournalInv, Restored, ProgressHonest, RecoveryInv, SessionInv,
                 RecoveryPcs, ActivePcs, Goto, ExitCode
<1>1. CASE Gate(p) \/ Cleanup(p) \/ UnlinkLock(p) \/ WatchdogWakes(p)
  BY <1>1 DEF Gate, Cleanup, UnlinkLock, WatchdogWakes
<1>2. CASE AcquireOpen(p) \/ AcquireLock(p) \/ AcquireFails(p)
  BY <1>2 DEF AcquireOpen, AcquireLock, AcquireFails, Fault
<1>3. CASE Unlock(p) \/ Crash(p)
  BY <1>3 DEF Unlock, Crash, MemoryGone, NoTransaction
<1>4. QED
  BY <1>1, <1>2, <1>3 DEF Locking

(* A step of p cannot disturb another process: either it leaves the files  *)
(* alone, or p holds the lock and the other one is outside of it.          *)
LEMMA OthersInv ==
    ASSUME IInv, NEW p \in Procs, NEW q \in Procs \ {p}, OthersKept(p),
           Critical(p) \/ UNCHANGED <<journal, nic>>
    PROVE  /\ pc'[q] \in CriticalPcs => q \in locked'
           /\ RecoveryInv(q)'
           /\ q \in Sessions => SessionInv(q)'
<1>1. /\ pc'[q] = pc[q] \/ (pc'[q] = "watch" /\ q \notin Sessions)
      /\ mem'[q] = mem[q] /\ ctx'[q] = ctx[q] /\ code'[q] = code[q]
      /\ q \in locked => q \in locked'
      /\ q \in Sessions => tx'[q] = tx[q]
  BY DEF OthersKept
<1>2. pc[q] \in CriticalPcs => q \in locked /\ UNCHANGED <<journal, nic>>
  <2>1. MutualExclusion
    BY LockInvExcludes DEF IInv
  <2>2. QED
    BY <2>1 DEF IInv, LockHeld, Critical, MutualExclusion
<1>3. pc'[q] \in CriticalPcs => q \in locked'
  BY <1>1, <1>2 DEF CriticalPcs, SessionPcs, RecoveryPcs
<1>4. RecoveryInv(q) /\ (q \in Sessions => SessionInv(q))
  BY DEF IInv
<1>5. RecoveryInv(q)'
  BY <1>1, <1>2, <1>4 DEF RecoveryInv, Restored, CriticalPcs, RecoveryPcs
<1>6. ASSUME q \in Sessions PROVE SessionInv(q)'
  BY <1>1, <1>2, <1>4, <1>6
     DEF SessionInv, Restored, ActivePcs, CriticalPcs, SessionPcs, TransactionJournal
<1>7. QED
  BY <1>3, <1>5, <1>6

LEMMA InvInit == Init => IInv
<1> SUFFICES ASSUME Init PROVE IInv
  OBVIOUS
<1>1. Typed /\ LockInv
  BY TypeInit, LockInvInit DEF Init
<1>2. LockHeld /\ ContextInv /\ JournalInv
  BY ProcsAssumption
     DEF Init, LockHeld, ContextInv, JournalInv, Restored, ProgressHonest, Critical,
         CriticalPcs, SessionPcs, RecoveryPcs
<1>3. \A p \in Procs : RecoveryInv(p)
  BY DEF Init, RecoveryInv, RecoveryPcs
<1>4. \A s \in Sessions : SessionInv(s)
  BY ProcsAssumption DEF Init, SessionInv, ActivePcs, NoTransaction
<1>5. QED
  BY <1>1, <1>2, <1>3, <1>4 DEF IInv

LEMMA InvStep ==
    ASSUME ~Posix, IInv, [Next]_vars
    PROVE  IInv'
<1>1. Typed'
  BY TypeStep DEF IInv
<1>2. ASSUME NEW p \in Procs, Step(p) \/ Crash(p) \/ (p \in Sessions /\ StopRunning(p))
      PROVE  IInv'
  <2>1. TypeOK /\ LockHeld /\ ContextInv /\ LockInv
    BY DEF IInv, Typed
  <2>2. LockInv'
    BY <1>2, <2>1, StepUsesLock, LockInvStep
  <2>3. OthersKept(p)
    BY <1>2, <2>1, StepKeepsOthers
  <2>4. /\ pc'[p] \in CriticalPcs => p \in locked'
        /\ Critical(p) \/ UNCHANGED <<journal, nic>>
    BY <1>2, <2>1, StepHoldsLock
  <2>5. OwnInv(p)'
    BY <1>2, RecoveryOwn, TransactionOwn, LockingOwn DEF Step
  <2>6. \A q \in Procs \ {p} :
            /\ pc'[q] \in CriticalPcs => q \in locked'
            /\ RecoveryInv(q)'
            /\ q \in Sessions => SessionInv(q)'
    BY <2>3, <2>4, OthersInv
  <2>7. LockHeld'
    BY <2>4, <2>6 DEF LockHeld, Critical
  <2>8. ContextInv'
    BY <1>2, <2>1, StepKeepsContext
  <2>9. JournalInv' /\ (\A q \in Procs : RecoveryInv(q)')
        /\ (\A s \in Sessions : SessionInv(s)')
    BY <2>5, <2>6, ProcsAssumption DEF OwnInv
  <2>10. QED
    BY <1>1, <2>2, <2>7, <2>8, <2>9 DEF IInv
<1>3. CASE UNCHANGED vars
  BY <1>1, <1>3
     DEF IInv, vars, txVars, lockVars, LockInv, LockTypeOK, OneLockFile, OneLockPerFile,
         LockHeld, ContextInv, JournalInv, Restored, ProgressHonest, RecoveryInv, SessionInv,
         Critical
<1>4. QED
  BY <1>2, <1>3, ProcsAssumption DEF Next, Terminated

(* The invariant holds of the program on a system that keeps open files.   *)
LEMMA Invariant ==
    ASSUME ~Posix
    PROVE  Spec => []IInv
<1>1. IInv /\ [Next]_vars => IInv'
  BY InvStep
<1>2. QED
  BY InvInit, <1>1, PTL DEF Spec

-----------------------------------------------------------------------------
(* What follows for the program.                                           *)

(* Transactions and recoveries exclude each other, for any number of       *)
(* sessions, watchdogs and manual recoveries (Windows).                    *)
THEOREM OneTransactionAtATime ==
    ASSUME ~Posix
    PROVE  Spec => []OneTransaction
<1>1. IInv => OneTransaction
  BY LockInvExcludes DEF IInv, LockHeld, OneTransaction, MutualExclusion
<1>2. QED
  BY Invariant, <1>1, PTL

(* The journal is saved before the interface is modified and names all     *)
(* that the program installs: whatever fails and whoever is killed, the    *)
(* user's settings can be restored, and verified, from the journal.        *)
THEOREM AlwaysRecoverable ==
    ASSUME ~Posix
    PROVE  Spec => []Recoverable
<1>1. IInv => Recoverable
  BY DEF IInv, JournalInv, Recoverable
<1>2. QED
  BY Invariant, <1>1, PTL

(* A journal that reports a verified recovery tells the truth.             *)
THEOREM JournalHonest ==
    ASSUME ~Posix
    PROVE  Spec => []ProgressHonest
<1>1. IInv => ProgressHonest
  BY DEF IInv, JournalInv
<1>2. QED
  BY Invariant, <1>1, PTL

(* An exit code other than 5 tells the truth about the interface.          *)
THEOREM ExitHonest ==
    ASSUME ~Posix
    PROVE  Spec => []CleanExit
<1>1. IInv => CleanExit
  BY DEF IInv, SessionInv, CleanExit
<1>2. QED
  BY Invariant, <1>1, PTL

(* No step touches both the journal and the interface.                     *)
LEMMA OneEffect ==
    ASSUME [Next]_vars
    PROVE  nic' = nic \/ journal' = journal
<1>1. ASSUME NEW p \in Procs, Step(p) \/ Crash(p) \/ StopRunning(p)
      PROVE  nic' = nic \/ journal' = journal
  <2>1. CASE Gate(p) \/ Cleanup(p) \/ UnlinkLock(p) \/ StopRunning(p)
             \/ WatchdogWakes(p) \/ Locking(p) \/ Crash(p)
    BY <2>1 DEF Gate, Cleanup, UnlinkLock, StopRunning, WatchdogWakes, Locking,
                AcquireOpen, AcquireLock, AcquireFails, Unlock, Crash
  <2>2. CASE Recovery(p)
    BY <2>2 DEF Recovery, JournalExists, ReadJournal, MarkRestoring, Progress,
                RestoreItem, RestoreReturns, Verify, MarkFailed, MarkRestored, UnlinkJournal
  <2>3. CASE Transaction(p)
    BY <2>3 DEF Transaction, Capture, SaveSnapshot, StartWatchdog, PrepareItem, Prepared,
                Handshake, ReceiveLease, ApplyItem, LeaseApplied, ReleaseLease, CloseWatchdog
  <2>4. QED
    BY <1>1, <2>1, <2>2, <2>3 DEF Step
<1>2. CASE UNCHANGED vars
  BY <1>2 DEF vars, txVars
<1>3. QED
  BY <1>1, <1>2, ProcsAssumption DEF Next, Terminated

(* The program implements SnapshotGuard: it saves before it changes, and   *)
(* forgets only what is restored.                                          *)
THEOREM ImplementsGuard ==
    ASSUME ~Posix
    PROVE  Spec => GuardSpec
<1> DEFINE saved == IF journal = NoJournal THEN NoJournal ELSE Promised(journal.snapshot)
<1>1. Init => Guard!GuardInit
  BY DEF Init, Guard!GuardInit
<1>2. IInv /\ IInv' /\ [Next]_vars => [Guard!GuardNext]_(Guard!guardVars)
  <2> SUFFICES ASSUME IInv, IInv', [Next]_vars
               PROVE  Guard!GuardNext \/ UNCHANGED <<Promised(nic), saved>>
    BY DEF Guard!guardVars
  <2>1. nic' = nic \/ journal' = journal
    BY OneEffect
  <2>2. /\ journal = NoJournal => Promised(nic) = Promised(Original) /\ saved = NoJournal
        /\ journal # NoJournal => saved = Promised(Original)
    BY DEF IInv, JournalInv, Restored
  <2>3. /\ journal' = NoJournal => Promised(nic') = Promised(Original) /\ saved' = NoJournal
        /\ journal' # NoJournal => saved' = Promised(Original)
    BY DEF IInv, JournalInv, Restored
  <2>4. Promised(nic') \in SUBSET Items
    BY DEF IInv, Typed, TypeOK, Promised
  <2>5. CASE journal = NoJournal /\ journal' # NoJournal
    BY <2>1, <2>2, <2>3, <2>5 DEF Guard!GuardNext, Guard!Save
  <2>6. CASE journal # NoJournal /\ journal' = NoJournal
    BY <2>1, <2>2, <2>3, <2>6 DEF Guard!GuardNext, Guard!Forget
  <2>7. CASE journal # NoJournal /\ journal' # NoJournal
    BY <2>2, <2>3, <2>4, <2>7, NoJournalAssumption DEF Guard!GuardNext, Guard!Change
  <2>8. CASE journal = NoJournal /\ journal' = NoJournal
    BY <2>2, <2>3, <2>8
  <2>9. QED
    BY <2>5, <2>6, <2>7, <2>8
<1>3. QED
  BY Invariant, <1>1, <1>2, PTL DEF Spec, GuardSpec, Guard!GuardSpec

(* Without a snapshot the interface is the user's; a snapshot is of the    *)
(* user's settings. Neither half is inductive without the other.           *)
GuardInv ==
    LET saved == IF journal = NoJournal THEN NoJournal ELSE Promised(journal.snapshot) IN
    /\ saved = NoJournal => Restored
    /\ saved # NoJournal => saved = Promised(Original)

(* What the promise of SnapshotGuard is worth: whoever keeps it never      *)
(* loses the settings it is made for, those that are to be put back.       *)
THEOREM GuardKeepsSettings == Guard!GuardSpec => []Guard!NeverLost
<1> DEFINE saved == IF journal = NoJournal THEN NoJournal ELSE Promised(journal.snapshot)
<1>1. Guard!GuardInit => GuardInv
  BY DEF Guard!GuardInit, GuardInv, Restored
<1>2. GuardInv /\ [Guard!GuardNext]_(Guard!guardVars) => GuardInv'
  <2> SUFFICES ASSUME GuardInv, [Guard!GuardNext]_(Guard!guardVars) PROVE GuardInv'
    OBVIOUS
  <2>1. CASE Guard!Save \/ Guard!Forget
    BY <2>1 DEF Guard!Save, Guard!Forget, GuardInv, Restored
  <2>2. CASE Guard!Change
    BY <2>2 DEF Guard!Change, GuardInv, Restored
  <2>3. CASE UNCHANGED Guard!guardVars
    BY <2>3 DEF Guard!guardVars, GuardInv, Restored
  <2> QED
    BY <2>1, <2>2, <2>3 DEF Guard!GuardNext
<1>3. GuardInv => Guard!NeverLost
  BY DEF GuardInv, Restored, Guard!NeverLost
<1> QED
  BY <1>1, <1>2, <1>3, PTL DEF Guard!GuardSpec

(* So the settings that verify_restored compares are never lost: at every  *)
(* instant of every run they are on the interface or in the journal,       *)
(* whatever fails and whoever is killed, and nothing but them and settings *)
(* of the user's is on an interface without a journal. The user may have   *)
(* other settings too; of those nothing is said, and a restore that        *)
(* verify_restored accepts may lose them.                                  *)
THEOREM ComparedSettingsNeverLost ==
    ASSUME ~Posix
    PROVE  Spec => []Guard!NeverLost
<1>1. GuardSpec => Guard!GuardSpec
  BY DEF GuardSpec
<1> QED
  BY <1>1, ImplementsGuard, GuardKeepsSettings, PTL
=============================================================================
