------------------------- MODULE NetworkTransaction -------------------------
(***************************************************************************)
(* The interface transaction: class NetworkTransaction and the journal     *)
(* recovery of network_transaction.py, driven by the processes that use    *)
(* them: dial sessions (ipoedhcp.py), the watchdog each session spawns     *)
(* (recovery_watchdog.py) and manual recoveries (ipoedhcp.py --restore).   *)
(*                                                                         *)
(* Every step is one call that touches shared state: the journal file, the *)
(* lock file, the interface or the pipe to the watchdog. Between any two   *)
(* steps another process may run, or the process may be killed.            *)
(***************************************************************************)
EXTENDS JournalLock, Naturals

CONSTANTS
    Sessions, Watchdogs, Restorers, \* the processes, disjoint
    ParentOf,       \* the session that spawns a watchdog
    Items,          \* settings the interface may have
    Compared,       \* those verify_restored compares with the snapshot
    LeaseAddrs,     \* addresses a DHCP server may assign
    LeaseRoutes,    \* host routes the configuration may ask for
    Original,       \* the user's settings, compared or not
    NoAddr,         \* app_ip is None
    NoJournal,      \* the journal file is absent
    MaxFaults,      \* bound: system calls and backend calls that fail
    MaxCrashes      \* bound: processes that are killed

ASSUME ProcsAssumption ==
    /\ Procs = Sessions \cup Watchdogs \cup Restorers
    /\ Sessions \cap Watchdogs = {}
    /\ Sessions \cap Restorers = {}
    /\ Watchdogs \cap Restorers = {}
    /\ ParentOf \in [Watchdogs -> Sessions]
    /\ \A s \in Sessions : \E w \in Watchdogs : ParentOf[w] = s
    /\ \A v, w \in Watchdogs : ParentOf[v] = ParentOf[w] => v = w

ASSUME ItemsAssumption ==
    /\ Compared \subseteq Items
    /\ LeaseAddrs \subseteq Items
    /\ LeaseRoutes \subseteq Items
    /\ Original \subseteq Items
    /\ NoAddr \notin Items

ASSUME BoundsAssumption == MaxFaults \in Nat /\ MaxCrashes \in Nat

TransactionStatus ==
    {"snapshot_saved", "interface_prepared", "lease_received", "lease_applied"}
RecoveryStatus == {"restoring", "restore_failed", "restored"}

(* restore_attempts[-1].phase, "none" before the first attempt.            *)
Phases == {"none", "starting", "configuration", "convergence", "verification"}

Journals ==
    [ status : TransactionStatus \cup RecoveryStatus,
      phase : Phases,
      snapshot : SUBSET Items,
      app_ip : LeaseAddrs \cup {NoAddr},
      app_routes : SUBSET LeaseRoutes ]

(* The fields of the transaction object.                                   *)
Transactions ==
    [ snapshot : SUBSET Items,
      app_ip : LeaseAddrs \cup {NoAddr},
      app_routes : SUBSET LeaseRoutes ]

(* The settings of an interface that the program is to put back, or to     *)
(* remove: all but those of the user that verify_restored does not compare *)
(* with the snapshot.                                                      *)
Promised(settings) == settings \ (Original \ Compared)

ASSUME NoJournalAssumption == NoJournal \notin Journals /\ NoJournal # Promised(Original)

VARIABLES
    journal,    \* the journal file
    nic,        \* the settings of the interface
    pc,         \* where each process is
    ctx,        \* who called the recovery: begin, abort, final or alone
    mem,        \* the journal as the recovering process holds it in memory
    tx,         \* snapshot, app_ip and app_routes of each session's object
    pipe,       \* sessions whose write end of the watchdog pipe is open
    code,       \* exit code of each process
    faults, crashes     \* failures and kills so far

txVars == <<journal, nic, pc, ctx, mem, tx, pipe, code, faults, crashes>>
vars == <<lockVars, txVars>>

SessionPcs ==
    {"capture", "save", "spawn", "prepare", "handshake", "configure", "apply",
     "running", "release", "closePipe"}
RecoveryPcs ==
    {"restoring", "configuration", "restore", "convergence", "verify",
     "verification", "failed", "restored", "unlink"}

(* Steps a process takes while it believes it holds the journal lock.      *)
CriticalPcs == SessionPcs \cup RecoveryPcs \cup {"exists", "read", "unlock"}
Finished == {"done", "crashed"}
Pcs ==
    CriticalPcs \cup Finished \cup
    {"idle", "watch", "gate", "open", "flock", "cleanup", "unlinkLock"}

TypeOK ==
    /\ LockTypeOK
    /\ journal \in Journals \cup {NoJournal}
    /\ nic \in SUBSET Items
    /\ pc \in [Procs -> Pcs]
    /\ ctx \in [Procs -> {"begin", "abort", "final", "alone"}]
    /\ mem \in [Procs -> Journals \cup {NoJournal}]
    /\ tx \in [Sessions -> Transactions]
    /\ pipe \in SUBSET Sessions
    /\ code \in [Procs -> {0, 4, 5}]
    /\ faults \in 0..MaxFaults
    /\ crashes \in 0..MaxCrashes

NoTransaction == [snapshot |-> {}, app_ip |-> NoAddr, app_routes |-> {}]

Init ==
    /\ LockInit
    /\ journal = NoJournal
    /\ nic = Original
    /\ pc = [p \in Procs |-> IF p \in Watchdogs THEN "idle" ELSE "gate"]
    /\ ctx = [p \in Procs |-> IF p \in Sessions THEN "begin" ELSE "alone"]
    /\ mem = [p \in Procs |-> NoJournal]
    /\ tx = [s \in Sessions |-> NoTransaction]
    /\ pipe = {}
    /\ code = [p \in Procs |-> 0]
    /\ faults = 0
    /\ crashes = 0

-----------------------------------------------------------------------------
(* Control of one process.                                                 *)
Goto(p, from, to) == pc[p] = from /\ pc' = [pc EXCEPT ![p] = to]

(* A call raises: the process leaves "from" with an exception.             *)
Fault(p, from, to) ==
    /\ faults < MaxFaults
    /\ faults' = faults + 1
    /\ Goto(p, from, to)

NoFault == UNCHANGED faults
ExitCode(p, c) == code' = [code EXCEPT ![p] = c]

(* What a process had in memory goes with it.                              *)
MemoryGone(p) ==
    /\ mem' = [mem EXCEPT ![p] = NoJournal]
    /\ tx' = [s \in Sessions |-> IF s = p THEN NoTransaction ELSE tx[s]]

(* Where a recovery returns to, by caller: begin() continues with the      *)
(* capture or gives the lock back; restore() always runs its finally; a    *)
(* recovery process releases the lock.                                     *)
AfterRecovery(p) ==
    IF ctx[p] = "begin" THEN "capture"
    ELSE IF ctx[p] = "alone" THEN "unlock" ELSE "closePipe"
AfterFailure(p) ==
    IF ctx[p] \in {"abort", "final"} THEN "closePipe" ELSE "unlock"

Return(p, from) == Goto(p, from, AfterRecovery(p)) /\ mem' = [mem EXCEPT ![p] = NoJournal]
(* Mutant of RaiseTo: the failure is logged, the exit code stays.          *)
RaiseQuietly(p, from) ==
    /\ Goto(p, from, AfterFailure(p))
    /\ mem' = [mem EXCEPT ![p] = NoJournal]
    /\ UNCHANGED code
RaiseTo(p, from) ==
    /\ Goto(p, from, AfterFailure(p))
    /\ mem' = [mem EXCEPT ![p] = NoJournal]
    /\ ExitCode(p, 5)

(* A call of the recovery outside its try block raises.                    *)
RecoveryFault(p, from) ==
    /\ faults < MaxFaults
    /\ faults' = faults + 1
    /\ RaiseTo(p, from)

-----------------------------------------------------------------------------
(* Starting a process.                                                     *)

(* main() refuses to dial while a journal exists. A recovery process has   *)
(* nothing to do without one.                                              *)
Gate(p) ==
    /\ IF (journal = NoJournal) <=> (p \in Sessions)
       THEN Goto(p, "gate", "open") /\ UNCHANGED code
       ELSE /\ Goto(p, "gate", "done")
            /\ ExitCode(p, IF p \in Sessions THEN 5 ELSE 0)
    /\ UNCHANGED <<lockVars, journal, nic, ctx, mem, tx, pipe, faults, crashes>>

(* The watchdog learns that its session is over: end of file on the pipe,  *)
(* or, on Windows, the end of the process.                                 *)
ParentEnded(w) ==
    LET s == ParentOf[w] IN
    IF Posix THEN s \notin pipe ELSE pc[s] \in Finished

WatchdogWakes(w) ==
    /\ ParentEnded(w)
    /\ Goto(w, "watch", "gate")
    /\ UNCHANGED <<lockVars, journal, nic, ctx, mem, tx, pipe, code, faults, crashes>>

-----------------------------------------------------------------------------
(* JournalLock.acquire                                                     *)
AcquireOpen(p) ==
    /\ Goto(p, "open", "flock")
    /\ Open(p)
    /\ UNCHANGED <<journal, nic, ctx, mem, tx, pipe, code, faults, crashes>>

AcquireLock(p) ==
    /\ Goto(p, "flock", "exists")
    /\ Flock(p)
    /\ UNCHANGED <<journal, nic, ctx, mem, tx, pipe, code, faults, crashes>>

(* JournalLockedError: another process holds the lock, or a call failed.   *)
AcquireFails(p) ==
    /\ \/ HeldByOther(p) /\ Goto(p, "flock", "done") /\ NoFault
       \/ \E from \in {"open", "flock"} : Fault(p, from, "done")
    /\ Close(p)
    /\ ExitCode(p, 5)
    /\ UNCHANGED <<journal, nic, ctx, mem, tx, pipe, crashes>>

(* JournalLock.release, the last step of a session.                        *)
Unlock(p) ==
    /\ Goto(p, "unlock", IF p \in Sessions THEN "done" ELSE "cleanup")
    /\ Close(p)
    /\ MemoryGone(p)
    /\ UNCHANGED <<journal, nic, ctx, pipe, code, faults, crashes>>

(* restore_from_journal: the lock is already released when it looks for    *)
(* the journal and, finding none, removes the idle lock file.              *)
Cleanup(p) ==
    /\ Goto(p, "cleanup", IF journal = NoJournal THEN "unlinkLock" ELSE "done")
    /\ UNCHANGED <<lockVars, journal, nic, ctx, mem, tx, pipe, code, faults, crashes>>

UnlinkLock(p) ==
    /\ Goto(p, "unlinkLock", "done")
    /\ Unlink \/ (~CanUnlink /\ UNCHANGED lockVars)
    /\ UNCHANGED <<journal, nic, ctx, mem, tx, pipe, code, faults, crashes>>

-----------------------------------------------------------------------------
(* Recovery: _restore_from_journal_locked                                  *)

(* Mutant of JournalExists: begin() leaves the recovery of an earlier      *)
(* transaction to its watchdog.                                            *)
BeginSkipsRecovery(p) ==
    /\ \/ journal # NoJournal /\ ctx[p] # "begin" /\ Goto(p, "exists", "read") /\ UNCHANGED mem
       \/ /\ journal = NoJournal \/ ctx[p] = "begin"
          /\ Return(p, "exists")
    /\ UNCHANGED <<lockVars, journal, nic, ctx, tx, pipe, code, faults, crashes>>

(* No journal: nothing to restore.                                         *)
JournalExists(p) ==
    /\ \/ journal # NoJournal /\ Goto(p, "exists", "read") /\ UNCHANGED mem
       \/ journal = NoJournal /\ Return(p, "exists")
    /\ UNCHANGED <<lockVars, journal, nic, ctx, tx, pipe, code, faults, crashes>>

(* Mutant of ReadJournal: a journal whose restore failed is not retried.   *)
RefuseFailedJournal(p) ==
    /\ \/ /\ journal # NoJournal /\ journal.status # "restore_failed"
          /\ Goto(p, "read", "restoring")
          /\ mem' = [mem EXCEPT ![p] = [journal EXCEPT !.status = "restoring",
                                                       !.phase = "starting"]]
          /\ UNCHANGED code /\ NoFault
       \/ /\ journal # NoJournal => journal.status = "restore_failed"
          /\ RaiseTo(p, "read") /\ NoFault
       \/ RecoveryFault(p, "read")
    /\ UNCHANGED <<lockVars, journal, nic, ctx, tx, pipe, crashes>>

ReadJournal(p) ==
    /\ \/ /\ journal # NoJournal
          /\ Goto(p, "read", "restoring")
          /\ mem' = [mem EXCEPT ![p] = [journal EXCEPT !.status = "restoring",
                                                       !.phase = "starting"]]
          /\ UNCHANGED code /\ NoFault
       \/ journal = NoJournal /\ RaiseTo(p, "read") /\ NoFault
       \/ RecoveryFault(p, "read")
    /\ UNCHANGED <<lockVars, journal, nic, ctx, tx, pipe, crashes>>

(* The journal says "restoring" before anything is restored.               *)
MarkRestoring(p) ==
    /\ \/ /\ Goto(p, "restoring", "configuration")
          /\ journal' = mem[p]
          /\ UNCHANGED <<mem, code>> /\ NoFault
       \/ RecoveryFault(p, "restoring") /\ UNCHANGED journal
    /\ UNCHANGED <<lockVars, nic, ctx, tx, pipe, crashes>>

(* progress(): a phase is recorded when it is reached.                     *)
Reach(p, phase, next) ==
    /\ mem' = [mem EXCEPT ![p].phase = phase]
    /\ \/ Goto(p, phase, next) /\ journal' = mem'[p] /\ NoFault
       \/ Fault(p, phase, "failed") /\ UNCHANGED journal

Progress(p) ==
    /\ \/ pc[p] = "configuration" /\ Reach(p, "configuration", "restore")
       \/ pc[p] = "convergence" /\ Reach(p, "convergence", "verify")
       \/ pc[p] = "verification" /\ Reach(p, "verification", "restored")
    /\ UNCHANGED <<lockVars, nic, ctx, tx, pipe, code, crashes>>

(* backend.restore: setting by setting, towards the snapshot. What of the  *)
(* user's it does not compare may go and does not come back.               *)
RestoreItem(p) ==
    /\ Goto(p, "restore", "restore")
    /\ \E i \in Items :
        nic' = IF i \in Promised(mem[p].snapshot) THEN nic \cup {i} ELSE nic \ {i}
    /\ nic' # nic
    /\ UNCHANGED <<lockVars, journal, ctx, mem, tx, pipe, code, faults, crashes>>

(* It returns with the snapshot in force, or fails half way: with an       *)
(* exception, or without one when the system has not converged.            *)
RestoreReturns(p) ==
    /\ \/ /\ Goto(p, "restore", "convergence")
          /\ Promised(nic) = Promised(mem[p].snapshot) /\ NoFault
       \/ \E to \in {"failed", "convergence"} : Fault(p, "restore", to)
    /\ UNCHANGED <<lockVars, journal, nic, ctx, mem, tx, pipe, code, crashes>>

(* Mutant of Verified: what the program installed is not looked for.       *)
VerifiedSnapshotOnly(j) == nic \cap Compared = j.snapshot \cap Compared

(* verify_restored: what the snapshot records is as it was, and nothing    *)
(* the program installed is left behind.                                   *)
Verified(j) ==
    /\ nic \cap Compared = j.snapshot \cap Compared
    /\ nic \cap ({j.app_ip} \cup j.app_routes) \subseteq j.snapshot

Verify(p) ==
    /\ \/ Goto(p, "verify", IF Verified(mem[p]) THEN "verification" ELSE "failed")
          /\ NoFault
       \/ Fault(p, "verify", "failed")
    /\ UNCHANGED <<lockVars, journal, nic, ctx, mem, tx, pipe, code, crashes>>

(* Mutant of MarkFailed: a status the journal's readers do not know.       *)
MarkFailedUnknown(p) ==
    /\ RaiseTo(p, "failed")
    /\ journal' = [mem[p] EXCEPT !.status = "failed"]
    /\ UNCHANGED <<lockVars, nic, ctx, tx, pipe, faults, crashes>>

(* Mutant of MarkFailed: the journal of a failed restore is given up.      *)
MarkFailedDrops(p) ==
    /\ RaiseTo(p, "failed")
    /\ journal' = NoJournal
    /\ UNCHANGED <<lockVars, nic, ctx, tx, pipe, faults, crashes>>

(* Every failure is written to the journal, which stays.                   *)
MarkFailed(p) ==
    /\ \/ /\ RaiseTo(p, "failed")
          /\ journal' = [mem[p] EXCEPT !.status = "restore_failed"]
          /\ NoFault
       \/ RecoveryFault(p, "failed") /\ UNCHANGED journal
    /\ UNCHANGED <<lockVars, nic, ctx, tx, pipe, crashes>>

MarkRestored(p) ==
    /\ \/ /\ Goto(p, "restored", "unlink")
          /\ journal' = [mem[p] EXCEPT !.status = "restored"]
          /\ UNCHANGED <<mem, code>> /\ NoFault
       \/ RecoveryFault(p, "restored") /\ UNCHANGED journal
    /\ UNCHANGED <<lockVars, nic, ctx, tx, pipe, crashes>>

UnlinkJournal(p) ==
    /\ \/ /\ Return(p, "unlink")
          /\ journal' = NoJournal
          /\ UNCHANGED code /\ NoFault
       \/ RecoveryFault(p, "unlink") /\ UNCHANGED journal
    /\ UNCHANGED <<lockVars, nic, ctx, tx, pipe, crashes>>

-----------------------------------------------------------------------------
(* The transaction: NetworkTransaction.begin, configure_lease, restore     *)

(* _write: a new journal, made of the transaction object alone.            *)
TransactionJournal(t, status) ==
    [ status |-> status,
      phase |-> "none",
      snapshot |-> t.snapshot,
      app_ip |-> t.app_ip,
      app_routes |-> t.app_routes ]

(* The part of begin() whose except branch calls restore().                *)
Abort(s, from) ==
    /\ Fault(s, from, "exists")
    /\ ctx' = [ctx EXCEPT ![s] = "abort"]
    /\ ExitCode(s, 5)

Capture(s) ==
    /\ \/ /\ Goto(s, "capture", "save")
          /\ tx' = [tx EXCEPT ![s].snapshot = nic]
          /\ UNCHANGED code /\ NoFault
       \/ Fault(s, "capture", "unlock") /\ ExitCode(s, 5) /\ UNCHANGED tx
    /\ UNCHANGED <<lockVars, journal, nic, ctx, mem, pipe, crashes>>

SaveSnapshot(s) ==
    /\ \/ /\ Goto(s, "save", "spawn")
          /\ journal' = TransactionJournal(tx[s], "snapshot_saved")
          /\ UNCHANGED <<ctx, code>> /\ NoFault
       \/ Abort(s, "save") /\ UNCHANGED journal
    /\ UNCHANGED <<lockVars, nic, mem, tx, pipe, crashes>>

(* _start_watchdog: on POSIX the session keeps the write end of a pipe     *)
(* whose end of file the watchdog waits for.                               *)
StartWatchdog(s) ==
    /\ \/ /\ pc[s] = "spawn"
          /\ \E w \in Watchdogs :
                /\ ParentOf[w] = s
                /\ pc' = [pc EXCEPT ![s] = "prepare", ![w] = "watch"]
          /\ pipe' = IF Posix THEN pipe \cup {s} ELSE pipe
          /\ UNCHANGED <<ctx, code>> /\ NoFault
       \/ Abort(s, "spawn") /\ UNCHANGED pipe
    /\ UNCHANGED <<lockVars, journal, nic, mem, tx, crashes>>

(* backend.prepare takes settings off the interface...                     *)
PrepareItem(s) ==
    /\ Goto(s, "prepare", "prepare")
    /\ \E i \in nic : nic' = nic \ {i}
    /\ UNCHANGED <<lockVars, journal, ctx, mem, tx, pipe, code, faults, crashes>>

(* ... and begin() records that the interface is ready.                    *)
Prepared(s) ==
    /\ \/ /\ Goto(s, "prepare", "handshake")
          /\ journal' = TransactionJournal(tx[s], "interface_prepared")
          /\ UNCHANGED <<ctx, code>> /\ NoFault
       \/ Abort(s, "prepare") /\ UNCHANGED journal
    /\ UNCHANGED <<lockVars, nic, mem, tx, pipe, crashes>>

(* client.handshake(): a lease, a stop request, or a DHCP error.           *)
Handshake(s) ==
    /\ \/ \E to \in {"configure", "release"} : Goto(s, "handshake", to) /\ UNCHANGED code
       \/ Goto(s, "handshake", "release") /\ ExitCode(s, 4)
    /\ UNCHANGED <<lockVars, journal, nic, ctx, mem, tx, pipe, faults, crashes>>

(* Mutant of ReceiveLease: the lease is journalled once it is applied.     *)
ReceiveLeaseUnrecorded(s) ==
    /\ \E ip \in LeaseAddrs, routes \in SUBSET LeaseRoutes :
        tx' = [tx EXCEPT ![s] = [snapshot |-> tx[s].snapshot,
                                 app_ip |-> ip,
                                 app_routes |-> routes]]
    /\ Goto(s, "configure", "apply")
    /\ UNCHANGED <<lockVars, journal, nic, ctx, mem, pipe, code, faults, crashes>>

(* configure_lease up to its write-ahead: the journal names what is about  *)
(* to be installed. Host routes without a gateway are refused before.      *)
ReceiveLease(s) ==
    /\ \E ip \in LeaseAddrs, routes \in SUBSET LeaseRoutes, gateway \in BOOLEAN :
        /\ tx' = [tx EXCEPT ![s] = [snapshot |-> tx[s].snapshot,
                                    app_ip |-> ip,
                                    app_routes |-> routes]]
        /\ \/ /\ routes = {} \/ gateway
              /\ Goto(s, "configure", "apply")
              /\ journal' = TransactionJournal(tx'[s], "lease_received")
              /\ UNCHANGED code /\ NoFault
           \/ /\ routes = {} \/ gateway
              /\ Fault(s, "configure", "release")
              /\ ExitCode(s, 5) /\ UNCHANGED journal
           \/ /\ routes # {} /\ ~gateway
              /\ Goto(s, "configure", "release")
              /\ ExitCode(s, 5) /\ UNCHANGED journal /\ NoFault
    /\ UNCHANGED <<lockVars, nic, ctx, mem, pipe, crashes>>

(* backend.apply_lease: address, routes, DNS, in whatever order.           *)
ApplyItem(s) ==
    /\ Goto(s, "apply", "apply")
    /\ \/ \E i \in {tx[s].app_ip} \cup tx[s].app_routes \cup Compared : nic' = nic \cup {i}
       \/ \E i \in nic : nic' = nic \ {i}
    /\ nic' # nic
    /\ UNCHANGED <<lockVars, journal, ctx, mem, tx, pipe, code, faults, crashes>>

LeaseApplied(s) ==
    /\ \/ /\ Goto(s, "apply", "running")
          /\ journal' = TransactionJournal(tx[s], "lease_applied")
          /\ UNCHANGED code /\ NoFault
       \/ Fault(s, "apply", "release") /\ ExitCode(s, 5) /\ UNCHANGED journal
    /\ UNCHANGED <<lockVars, nic, ctx, mem, tx, pipe, crashes>>

(* renew_forever or wait_until_expiry returns: stop, NAK or expiry.        *)
StopRunning(s) ==
    /\ Goto(s, "running", "release")
    /\ UNCHANGED <<lockVars, journal, nic, ctx, mem, tx, pipe, code, faults, crashes>>

(* The finally block: Release, whose failure turns exit code 0 into 4,     *)
(* then restore().                                                         *)
ReleaseLease(s) ==
    /\ Goto(s, "release", "exists")
    /\ UNCHANGED code \/ (code[s] = 0 /\ ExitCode(s, 4))
    /\ ctx' = [ctx EXCEPT ![s] = "final"]
    /\ UNCHANGED <<lockVars, journal, nic, mem, tx, pipe, faults, crashes>>

(* restore() ends by closing the pipe, before it releases the lock.        *)
CloseWatchdog(s) ==
    /\ Goto(s, "closePipe", "unlock")
    /\ pipe' = pipe \ {s}
    /\ UNCHANGED <<lockVars, journal, nic, ctx, mem, tx, code, faults, crashes>>

-----------------------------------------------------------------------------
(* Mutant of Crash: the watchdog inherits the write end of the pipe.       *)
CrashPipeStays(p) ==
    /\ crashes < MaxCrashes
    /\ crashes' = crashes + 1
    /\ pc[p] \notin Finished \cup {"idle"}
    /\ pc' = [pc EXCEPT ![p] = "crashed"]
    /\ Close(p)
    /\ MemoryGone(p)
    /\ UNCHANGED <<journal, nic, ctx, pipe, code, faults>>

(* A process is killed. The kernel drops its file lock and its pipe; files *)
(* and the interface stay as they are.                                     *)
Crash(p) ==
    /\ crashes < MaxCrashes
    /\ crashes' = crashes + 1
    /\ pc[p] \notin Finished \cup {"idle"}
    /\ pc' = [pc EXCEPT ![p] = "crashed"]
    /\ pipe' = pipe \ {p}
    /\ Close(p)
    /\ MemoryGone(p)
    /\ UNCHANGED <<journal, nic, ctx, code, faults>>

Recovery(p) ==
    \/ JournalExists(p) \/ ReadJournal(p) \/ MarkRestoring(p) \/ Progress(p)
    \/ RestoreItem(p) \/ RestoreReturns(p) \/ Verify(p)
    \/ MarkFailed(p) \/ MarkRestored(p) \/ UnlinkJournal(p)

Locking(p) ==
    \/ AcquireOpen(p) \/ AcquireLock(p) \/ AcquireFails(p) \/ Unlock(p)

Transaction(s) ==
    \/ Capture(s) \/ SaveSnapshot(s) \/ StartWatchdog(s)
    \/ PrepareItem(s) \/ Prepared(s) \/ Handshake(s) \/ ReceiveLease(s)
    \/ ApplyItem(s) \/ LeaseApplied(s)
    \/ ReleaseLease(s) \/ CloseWatchdog(s)

(* Everything a process does of its own accord, except leaving the         *)
(* running state, which may never happen.                                  *)
Step(p) ==
    \/ Gate(p) \/ Locking(p) \/ Recovery(p)
    \/ p \in Sessions /\ Transaction(p)
    \/ p \in Watchdogs /\ WatchdogWakes(p)
    \/ p \notin Sessions /\ (Cleanup(p) \/ UnlinkLock(p))

(* Every process is at its end, or a watchdog that was never spawned.      *)
Terminated ==
    /\ \A p \in Procs : pc[p] \in Finished \cup {"idle"}
    /\ UNCHANGED vars

Next ==
    \/ \E p \in Procs : Step(p) \/ Crash(p)
    \/ \E s \in Sessions : StopRunning(s)
    \/ Terminated

Spec == Init /\ [][Next]_vars

(* The operating system schedules every process that can run.              *)
FairSpec == Spec /\ \A p \in Procs : WF_vars(Step(p))
-----------------------------------------------------------------------------
(* Properties.                                                             *)

Critical(p) == pc[p] \in CriticalPcs

(* The holder of the journal lock is alone between acquire() and           *)
(* release(): no two processes are ever in the middle of a transaction or  *)
(* of a recovery (network_transaction.py:61, "refusing to modify the       *)
(* interface or the journal" while another process uses it).               *)
OneTransaction == \A p, q \in Procs : Critical(p) /\ Critical(q) => p = q

(* The interface is as the user left it, in all that verify_restored       *)
(* compares, and nothing of the program is left on it.                     *)
Restored == Promised(nic) = Promised(Original)

(* "The program saves the recovery journal before it modifies the          *)
(* interface" (README.md:117), and names in it whatever it installs that   *)
(* the comparison with the snapshot would not show (app_ip, app_routes).   *)
(* At every instant, crashes included, the journal is enough to restore    *)
(* the user's settings and to tell that they are restored.                 *)
Recoverable ==
    \/ Restored
    \/ /\ journal # NoJournal
       /\ Promised(journal.snapshot) = Promised(Original)
       /\ nic \subseteq Original \cup Compared \cup {journal.app_ip} \cup journal.app_routes

(* The plain form of README.md:117: while the interface is not as the user *)
(* left it, there is a journal. On POSIX the removal of the idle lock file *)
(* (network_transaction.py:177-180) lets two recoveries or a recovery and  *)
(* a session run at once, and one of them deletes the journal the other    *)
(* relies on.                                                              *)
SavedWhileChanged == ~Restored => journal # NoJournal

(* A journal that says "restored", or whose attempt reached the phase      *)
(* "verification", describes an interface that has the user's settings,    *)
(* whoever reads it and however late.                                      *)
ProgressHonest ==
    journal # NoJournal /\ (journal.status = "restored" \/ journal.phase = "verification")
        => Restored

(* Exit codes 0 and 4 of a session that changed the interface mean that it *)
(* has been restored and that the journal is gone (5 means a failed        *)
(* restore, and leaves it): true when restore() returns, while the lock is *)
(* still held.                                                             *)
CleanExit ==
    \A s \in Sessions :
        pc[s] \in {"closePipe", "unlock"} /\ code[s] # 5
            => Restored /\ journal = NoJournal

(* Whatever the processes do, the journal and the interface behave as the  *)
(* promise of SnapshotGuard says: saved before changed, changed only while *)
(* saved, forgotten only when restored; for the settings that the program  *)
(* is to put back.                                                         *)
Guard == INSTANCE SnapshotGuard WITH
    nic <- Promised(nic), Original <- Promised(Original), NoSnapshot <- NoJournal,
    saved <- IF journal = NoJournal THEN NoJournal ELSE Promised(journal.snapshot)

GuardSpec == Guard!GuardSpec

(* Liveness: the interface of a session that is killed once its watchdog   *)
(* runs gets the user's settings back, unless a call fails or yet another  *)
(* process is killed.                                                      *)
CrashRecovered ==
    \A s \in Sessions, c \in 1..MaxCrashes :
        (/\ pc[s] = "crashed" /\ crashes = c
         /\ \E w \in Watchdogs : ParentOf[w] = s /\ pc[w] = "watch")
        ~> ((Restored /\ journal = NoJournal) \/ faults > 0 \/ crashes > c)

(* Liveness: a recovery that finds a journal and meets no failure or kill  *)
(* of its own succeeds, whatever earlier attempts left in the journal and  *)
(* on the interface (README.md:127, retry the recovery).                   *)
RetrySucceeds ==
    \A r \in Restorers :
        pc[r] = "exists" /\ faults = MaxFaults /\ crashes = MaxCrashes
            ~> Restored /\ journal = NoJournal
=============================================================================
