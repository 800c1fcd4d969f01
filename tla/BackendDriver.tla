--------------------------- MODULE BackendDriver ---------------------------
(***************************************************************************)
(* How the transaction drives a backend that works by single commands      *)
(* (network_backend.py, CommandRunner and restore_and_verify): every       *)
(* operation of the backend is a list of commands and file writes; each    *)
(* may fail, with or without its effect, and the process may be killed     *)
(* between two of them, or during one: the command then goes on without    *)
(* it. One process dials, the next ones restore what it left, one at a     *)
(* time by the lock of NetworkTransaction.                                 *)
(*                                                                         *)
(* NetworkBackend takes the operators below from LinuxNetwork and from     *)
(* MacosNetwork.                                                           *)
(***************************************************************************)
EXTENDS Naturals, Sequences

CONSTANTS
    Hosts,              \* what does not change: the host a backend runs on
    Items,              \* settings of an interface
    NoSnapshot,
    Start(_),           \* the user's settings on a host
    Captures(_, _),     \* snapshots of an interface
    Misreads(_, _),     \* those taken although a command has failed
    PrepareOps(_, _), ApplyOps(_, _), RestoreOps(_, _), \* of a host and a snapshot
    Effect(_, _, _),    \* what a command makes of an interface
    Accepted(_, _, _),  \* the system does not refuse it
    Spawned(_, _),      \* it is run by a child process
    Caught(_, _),       \* whether the code goes on after its failure: "always",
                        \* "sometimes" (only the exit code 1) or "never"...
    Instead(_, _),      \* ... with these commands
    Errors(_, _, _),    \* verify_restored
    Compared(_, _),     \* the settings that decides on
    Stuck(_, _, _),     \* interfaces from which no restore gets back
    MaxFaults, MaxKills, MaxProcs   \* bounds

VARIABLES
    host, nic,  \* the host; the settings in force
    snap,       \* the snapshot in the journal
    phase, todo,    \* the operation, or how it has ended; its commands to run
    orphans,        \* commands still running whose process was killed
    procs, faults, kills

bounds == <<procs, faults, kills>>
vars == <<host, nic, snap, phase, todo, orphans, bounds>>

Ended == {"verified", "failed", "dead"}
Init ==
    /\ host \in Hosts /\ nic = Start(host)
    /\ snap = NoSnapshot /\ phase = "capture" /\ todo = <<>> /\ orphans = <<>>
    /\ procs = 1 /\ faults = 0 /\ kills = 0

-----------------------------------------------------------------------------
Enter(ph, ops) == phase' = ph /\ todo' = ops

(* Mutant of Raise: an exception in restore or verify is swallowed.        *)
RaiseNothing ==
    IF phase \in {"prepare", "apply"} THEN Enter("restore", RestoreOps(host, snap))
    ELSE Enter("verified", <<>>)

(* prepare or apply raises: begin() or the finally block restores.         *)
Raise ==
    IF phase \in {"prepare", "apply"} THEN Enter("restore", RestoreOps(host, snap))
    ELSE Enter("failed", <<>>)

Fault == faults < MaxFaults /\ faults' = faults + 1 /\ UNCHANGED <<procs, kills>>

(* capture_snapshot, journalled before prepare.                            *)
Capture ==
    /\ phase = "capture"
    /\ \/ snap' \in Captures(host, nic) /\ UNCHANGED bounds
          /\ Enter("prepare", PrepareOps(host, snap'))
       \/ snap' \in Misreads(host, nic) /\ Fault
          /\ Enter("prepare", PrepareOps(host, snap'))
       \/ Fault /\ Raise /\ UNCHANGED snap
    /\ UNCHANGED <<host, nic, orphans>>

(* The next command succeeds.                                              *)
Run ==
    /\ todo # <<>> /\ Accepted(host, nic, Head(todo))
    /\ nic' = Effect(host, nic, Head(todo)) /\ todo' = Tail(todo)
    /\ UNCHANGED <<host, snap, phase, orphans, bounds>>

(* It is refused, or fails, possibly after it has done its work.           *)
Fail ==
    /\ todo # <<>>
    /\ \/ ~Accepted(host, nic, Head(todo)) /\ UNCHANGED <<nic, bounds>>
       \/ /\ Accepted(host, nic, Head(todo)) /\ Fault
          /\ nic' \in {nic, Effect(host, nic, Head(todo))}
    /\ \/ /\ Caught(host, Head(todo)) # "never"
          /\ todo' = Instead(host, Head(todo)) \o Tail(todo) /\ UNCHANGED phase
       \/ Caught(host, Head(todo)) # "always" /\ Raise
    /\ UNCHANGED <<host, snap, orphans>>

(* An operation is over; or the user stops a session, which restores.      *)
Return ==
    /\ todo = <<>>
    /\ \/ phase = "prepare" /\ Enter("apply", ApplyOps(host, snap))
       \/ phase = "apply" /\ Enter("bound", <<>>)
       \/ phase = "bound" /\ Enter("restore", RestoreOps(host, snap))
       \/ phase = "restore" /\ Enter("verify", <<>>)
    /\ UNCHANGED <<host, nic, snap, orphans, bounds>>

Verify ==
    /\ phase = "verify"
    /\ \/ /\ Enter(IF Errors(host, snap, nic) = {} THEN "verified" ELSE "failed", <<>>)
          /\ UNCHANGED bounds
       \/ Fault /\ Raise
    /\ UNCHANGED <<host, nic, snap, orphans>>

(* The process is killed, and its lock is free at once. A command it has   *)
(* started (subprocess.run, network_backend.py:37) goes on.                *)
Kill ==
    /\ phase \notin Ended
    /\ kills < MaxKills /\ kills' = kills + 1
    /\ Enter("dead", <<>>)
    /\ \/ UNCHANGED orphans
       \/ /\ todo # <<>> /\ Spawned(host, Head(todo))
          /\ orphans' = Append(orphans, Head(todo))
    /\ UNCHANGED <<host, nic, snap, procs, faults>>

(* Such a command ends, whatever the next process is doing.                *)
OrphanEnds ==
    /\ \E i \in DOMAIN orphans :
        /\ \/ UNCHANGED nic
           \/ Accepted(host, nic, orphans[i]) /\ nic' = Effect(host, nic, orphans[i])
        /\ orphans' = SubSeq(orphans, 1, i - 1) \o SubSeq(orphans, i + 1, Len(orphans))
    /\ UNCHANGED <<host, snap, phase, todo, bounds>>

(* Another process finds the journal.                                      *)
Retry ==
    /\ phase \in {"failed", "dead"} /\ snap # NoSnapshot
    /\ procs < MaxProcs /\ procs' = procs + 1
    /\ Enter("restore", RestoreOps(host, snap))
    /\ UNCHANGED <<host, nic, snap, orphans, faults, kills>>

Next == Capture \/ Run \/ Fail \/ Return \/ Verify \/ Kill \/ OrphanEnds \/ Retry

(* Commands return, and the next process starts.                           *)
Spec == Init /\ [][Next]_vars /\ WF_vars(Next)

-----------------------------------------------------------------------------
(* The promise of SnapshotGuard, for the settings verify_restored decides  *)
(* on: changed only while they are saved, given up only when restored. No  *)
(* step of the program breaks it; what a killed process has left running   *)
(* may, once another process has restored and verified the interface.      *)
Saved == IF snap = NoSnapshot \/ phase = "verified" THEN NoSnapshot ELSE Compared(host, snap)
Guard == INSTANCE SnapshotGuard WITH
    nic <- Compared(host, nic), saved <- Saved, Original <- {}
Orphaned == OrphanEnds /\ phase = "verified"
Guarded == [][Guard!GuardNext \/ Orphaned]_<<Compared(host, nic), Saved>>

Undisturbed ==
    /\ phase = "restore" /\ todo = RestoreOps(host, snap)
    /\ faults = MaxFaults /\ kills = MaxKills /\ orphans = <<>>

(* A restore that nothing disturbs succeeds, whatever the failures and     *)
(* kills before it have left on the interface and with its manager, unless *)
(* that is one of the two states no retry gets out of (README.md:127), if  *)
(* no command had failed under the snapshot.                               *)
RetrySucceeds ==
    (Undisturbed /\ snap \in Captures(host, Start(host)) /\ ~Stuck(host, snap, nic))
        ~> phase = "verified"
=============================================================================
