--------------------------- MODULE WindowsNetwork ---------------------------
(***************************************************************************)
(* The Windows backend (windows_network.py): every operation is one or     *)
(* more PowerShell scripts, run by child processes (powershell_runtime.py, *)
(* PowerShellRuntime.run). A script is a sequence of cmdlets. The child    *)
(* runs it on its own, next to a parent that waits, gives up or is killed. *)
(* Ctrl+C reaches neither: the child is a process group of its own, and    *)
(* the parent only records it (StopController, _defer_interrupts).         *)
(*                                                                         *)
(* Process 1 dials; each later one restores what its predecessor left (the *)
(* watchdog, or ipoedhcp.py --restore). The journal that hands the         *)
(* snapshot on, and its lock, are those of NetworkTransaction.             *)
(***************************************************************************)
EXTENDS Naturals, FiniteSets, SequencesExt

CONSTANTS
    NProcs,         \* bound: processes, in the order in which they take the lock
    Dhcp,           \* the setting "DHCP enabled"
    Addresses,      \* manual addresses
    Routes, OnLink, \* routes not of protocol Local; those without a next hop
    Servers,        \* static DNS servers; none of them set: automatic DNS
    Metrics,        \* fixed interface metrics; none set: automatic metric
    Originals,      \* the interfaces users may have
    AppIp, Gateway, AppDns, AppRoutes,  \* the lease and the host routes
    NoSnapshot,
    Rounds,         \* bound: convergence rounds in the 30 s budget
    MaxFaults,      \* bound: cmdlets that fail and scripts that time out
    MaxDesyncs,     \* bound: DNS writes that Get-DnsClientServerAddress misses
    MaxKills        \* bound: processes that are killed

Procs == 1..NProcs
Items == {Dhcp} \cup Addresses \cup Routes \cup Servers \cup Metrics

ASSUME WindowsAssumption ==
    /\ NProcs \in Nat \ {0}
    /\ OnLink \subseteq Routes
    /\ Originals \subseteq SUBSET Items
    /\ AppIp \in Addresses /\ {Gateway} \cup AppRoutes \subseteq Routes
    /\ AppDns \subseteq Servers
    /\ \A s \in SUBSET Items : NoSnapshot # s
    /\ {Rounds, MaxFaults, MaxDesyncs, MaxKills} \subseteq Nat

(* Settings of different kinds are different settings.                     *)
ASSUME KindsAssumption ==
    /\ IsFiniteSet(Items)
    /\ Dhcp \notin Addresses \cup Routes \cup Servers \cup Metrics
    /\ Addresses \cap (Routes \cup Servers \cup Metrics) = {}
    /\ Routes \cap (Servers \cup Metrics) = {} /\ Servers \cap Metrics = {}

VARIABLES
    nic,        \* the settings in force
    seen,       \* the DNS servers Get-DnsClientServerAddress reports
    snap,       \* the snapshot in the journal
    phase,      \* the operation each process is in, or how it has ended
    jobs,       \* the scripts its operation still has to run
    child,      \* its PowerShell child: "none", "running", "error" or "stopping"
    script,     \* the cmdlets that child has left
    budget,     \* convergence rounds left
    redelivered,
    faults, desyncs, kills

bounds == <<faults, desyncs, kills>>
vars == <<nic, seen, snap, phase, jobs, child, script, budget, redelivered, bounds>>

Over == {"verified", "failed", "dead"}
Init ==
    /\ nic \in Originals /\ seen = nic \cap Servers
    /\ snap = NoSnapshot
    /\ phase = [p \in Procs |-> IF p = 1 THEN "capture" ELSE "waiting"]
    /\ jobs = [p \in Procs |-> <<>>] /\ script = [p \in Procs |-> <<>>]
    /\ child = [p \in Procs |-> "none"]
    /\ budget = 0 /\ redelivered = FALSE
    /\ faults = 0 /\ desyncs = 0 /\ kills = 0

-----------------------------------------------------------------------------
(* The scripts.                                                            *)
Cmdlet(op) == [op |-> op]
Cmd(op, arg) == [op |-> op, arg |-> arg]

(* Mutant of Clear: only what DHCP configured is taken off.                *)
ClearDhcp == <<Cmdlet("DhcpOff"), Cmdlet("RemoveRoutes")>>

(* _clear_interface_script, also the first part of the other scripts       *)
Clear == <<Cmdlet("DhcpOff"), Cmdlet("RemoveRoutes"), Cmdlet("RemoveAddresses")>>

ForEach(op, S) == SetToSeq({Cmd(op, x) : x \in S})

(* apply_lease: one script, then one per host route.                       *)
ApplyScripts ==
    << Clear \o <<Cmd("AddAddress", AppIp), Cmd("AddRoute", Gateway),
                  IF AppDns = {} THEN Cmdlet("ResetDns") ELSE Cmd("SetDns", AppDns)>> >>
    \o [i \in 1..Cardinality(AppRoutes) |-> <<ForEach("AddRoute", AppRoutes)[i]>>]

RestoreDns(s) ==
    IF s \cap Servers = {} THEN Cmdlet("ResetDns") ELSE Cmd("SetDns", s \cap Servers)
RestoreMode(s) ==
    IF Dhcp \in s THEN <<Cmdlet("ResetDns"), Cmdlet("DhcpOn")>>
    ELSE ForEach("AddAddress", s \cap Addresses)
         \o ForEach("TryRoute", (s \cap Routes) \ OnLink) \o <<RestoreDns(s)>>

(* _restore_script *)
RestoreScript(s) ==
    Clear \o RestoreMode(s)
    \o (IF s \cap Metrics = {} THEN <<Cmdlet("AutoMetric")>>
        ELSE ForEach("SetMetric", s \cap Metrics))

(* _dns_set_script *)
DnsScript(s) == <<Cmdlet("ResetDns"), RestoreDns(s)>>

(* What a cmdlet does to the interface.                                    *)
Effect(c) ==
    CASE c.op = "DhcpOff" -> nic \ {Dhcp}
      [] c.op = "DhcpOn" -> nic \cup {Dhcp}
      [] c.op = "RemoveRoutes" -> nic \ Routes
      [] c.op = "RemoveAddresses" -> nic \ Addresses
      [] c.op = "ResetDns" -> nic \ Servers
      [] c.op = "SetDns" -> (nic \ Servers) \cup c.arg
      [] c.op = "AutoMetric" -> nic \ Metrics
      [] c.op = "SetMetric" -> (nic \ Metrics) \cup {c.arg}
      [] OTHER -> nic \cup {c.arg}

(* New-NetIPAddress and New-NetRoute refuse what exists.                   *)
Exists(c) == c.op \in {"AddAddress", "AddRoute", "TryRoute"} /\ c.arg \in nic

(* -ErrorAction SilentlyContinue: the script goes on after an error.       *)
Silent(c) == c.op \in {"RemoveRoutes", "RemoveAddresses", "TryRoute"}

-----------------------------------------------------------------------------
(* verify_restored: the differences it reports.                            *)
SettingErrors(s) ==
    {e \in {"dhcp", "app_ip", "addresses", "mode", "servers", "metric"} :
        CASE e = "dhcp" -> (Dhcp \in s) # (Dhcp \in nic)
          [] e = "app_ip" -> AppIp \in nic \ s
          [] e = "addresses" -> Dhcp \notin s /\ s \cap Addresses # nic \cap Addresses
          [] e = "mode" -> (s \cap Servers = {}) # (nic \cap Servers = {})
          [] e = "servers" -> s \cap Servers # {} /\ s \cap Servers # seen
          [] OTHER -> s \cap Metrics # nic \cap Metrics}

(* Mutant of Errors: only the program's own host routes are looked for.    *)
ErrorsAppRoutes(s) ==
    SettingErrors(s) \cup {e \in {"app_routes"} : (nic \cap AppRoutes) \ s # {}}

Errors(s) ==
    SettingErrors(s)
    \cup {e \in {"routes"} : /\ SettingErrors(s) = {} /\ Dhcp \notin s
                             /\ (s \cap Routes) \ OnLink # (nic \cap Routes) \ OnLink}
    \cup {e \in {"app_routes"} : (nic \cap AppRoutes) \ s # {}}

-----------------------------------------------------------------------------
(* PowerShellRuntime.run                                                   *)
Enter(p, ph, scripts) ==
    /\ phase' = [phase EXCEPT ![p] = ph]
    /\ jobs' = [jobs EXCEPT ![p] = scripts]

Restoring(p) == phase[p] = "restore"

(* The operation p is in raises: a dial session turns to its own restore,  *)
(* a restore ends and leaves the journal.                                  *)
Raise(p) ==
    IF phase[p] \in {"prepare", "apply"}
    THEN Enter(p, "restore", <<RestoreScript(snap)>>) /\ budget' = Rounds /\ redelivered' = FALSE
    ELSE Enter(p, "failed", <<>>) /\ UNCHANGED <<budget, redelivered>>

NoChild(p) == child' = [child EXCEPT ![p] = "none"] /\ script' = [script EXCEPT ![p] = <<>>]

(* Popen. A restore asks _remaining first.                                 *)
Launch(p) ==
    /\ phase[p] \in {"prepare", "apply", "restore"} /\ child[p] = "none" /\ jobs[p] # <<>>
    /\ IF Restoring(p) /\ budget = 0
       THEN Raise(p) /\ UNCHANGED <<child, script>>
       ELSE /\ child' = [child EXCEPT ![p] = "running"]
            /\ script' = [script EXCEPT ![p] = Head(jobs[p])]
            /\ jobs' = [jobs EXCEPT ![p] = Tail(@)]
            /\ UNCHANGED <<phase, budget, redelivered>>
    /\ UNCHANGED <<nic, seen, snap, bounds>>

Alive(p) == child[p] \in {"running", "stopping"} /\ script[p] # <<>>

(* The child runs its next cmdlet. Get-DnsClientServerAddress may not      *)
(* notice a DNS write.                                                     *)
Run(p) ==
    LET c == Head(script[p]) IN
    /\ Alive(p) /\ ~Exists(c)
    /\ nic' = Effect(c)
    /\ \/ /\ seen' = IF c.op \in {"SetDns", "ResetDns"} THEN nic' \cap Servers ELSE seen
          /\ UNCHANGED desyncs
       \/ /\ c.op = "SetDns" /\ desyncs < MaxDesyncs
          /\ desyncs' = desyncs + 1 /\ UNCHANGED seen
    /\ script' = [script EXCEPT ![p] = Tail(@)]
    /\ UNCHANGED <<snap, phase, jobs, child, budget, redelivered, faults, kills>>

(* A cmdlet that fails ends the script unless it is a silent one.          *)
Stumble(p) ==
    LET c == Head(script[p]) IN
    /\ script' = [script EXCEPT ![p] = IF Silent(c) THEN Tail(@) ELSE <<>>]
    /\ child' = [child EXCEPT ![p] = IF @ = "running" /\ ~Silent(c) THEN "error" ELSE @]
    /\ UNCHANGED <<nic, seen, snap, phase, jobs, budget, redelivered, desyncs, kills>>

Refused(p) == Alive(p) /\ Exists(Head(script[p])) /\ Stumble(p) /\ UNCHANGED faults
Fail(p) == Alive(p) /\ faults < MaxFaults /\ faults' = faults + 1 /\ Stumble(p)

(* communicate() returns; the operation ends with its last script.         *)
Return(p) ==
    /\ child[p] = "running" /\ script[p] = <<>> /\ phase[p] \notin Over
    /\ NoChild(p)
    /\ IF jobs[p] # <<>> THEN UNCHANGED <<phase, jobs>>
       ELSE CASE phase[p] = "prepare" -> Enter(p, "apply", ApplyScripts)
              [] phase[p] = "apply" -> Enter(p, "bound", <<>>)
              [] OTHER -> Enter(p, "converge", <<>>)
    /\ UNCHANGED <<nic, seen, snap, budget, redelivered, bounds>>

(* communicate() returns with an error.                                    *)
ReturnError(p) ==
    /\ child[p] = "error" /\ phase[p] \notin Over
    /\ NoChild(p)
    /\ Raise(p)
    /\ UNCHANGED <<nic, seen, snap, bounds>>

(* Mutant of Timeout: the parent raises and leaves the child alone.        *)
TimeoutLeavesChild(p) ==
    /\ child[p] = "running" /\ phase[p] \notin Over
    /\ faults < MaxFaults /\ faults' = faults + 1
    /\ Enter(p, "failed", <<>>)
    /\ UNCHANGED <<nic, seen, snap, child, script, budget, redelivered, desyncs, kills>>

(* communicate() times out; the child is told to stop, and may go on for   *)
(* the two seconds it is given.                                            *)
Timeout(p) ==
    /\ child[p] = "running" /\ phase[p] \notin Over
    /\ faults < MaxFaults /\ faults' = faults + 1
    /\ child' = [child EXCEPT ![p] = "stopping"]
    /\ UNCHANGED <<nic, seen, snap, phase, jobs, script, budget, redelivered, desyncs, kills>>

(* _terminate_process has waited for the end of the child.                 *)
Terminated(p) ==
    /\ child[p] = "stopping" /\ phase[p] \notin Over
    /\ NoChild(p)
    /\ Raise(p)
    /\ UNCHANGED <<nic, seen, snap, bounds>>

(* A child without a parent ends with its script.                          *)
OrphanEnds(p) ==
    /\ phase[p] \in Over /\ child[p] # "none" /\ script[p] = <<>>
    /\ NoChild(p)
    /\ UNCHANGED <<nic, seen, snap, phase, jobs, budget, redelivered, bounds>>

-----------------------------------------------------------------------------
(* The processes.                                                          *)

(* capture_snapshot, which the transaction journals before prepare.        *)
Capture(p) ==
    /\ phase[p] = "capture"
    /\ snap' = (nic \ Servers) \cup seen
    /\ Enter(p, "prepare", <<Clear>>)
    /\ UNCHANGED <<nic, seen, child, script, budget, redelivered, bounds>>

(* A capture fails, before the transaction or while it converges.          *)
CaptureFails(p) ==
    /\ phase[p] \in {"capture", "converge"}
    /\ faults < MaxFaults /\ faults' = faults + 1
    /\ Raise(p)
    /\ UNCHANGED <<nic, seen, snap, child, script, desyncs, kills>>

BeginRestore(p) ==
    /\ \/ phase[p] = "bound"
       \/ phase[p] = "waiting" /\ phase[p - 1] \in {"failed", "dead"} /\ snap # NoSnapshot
    /\ Enter(p, "restore", <<RestoreScript(snap)>>)
    /\ budget' = Rounds /\ redelivered' = FALSE
    /\ UNCHANGED <<nic, seen, snap, child, script, bounds>>

(* Mutant of Converge: a difference in DNS is left to time.                *)
ConvergeWaits(p) ==
    /\ phase[p] = "converge"
    /\ CASE budget = 0 -> Raise(p)
         [] budget > 0 /\ Errors(snap) = {} ->
                Enter(p, "verified", <<>>) /\ UNCHANGED <<budget, redelivered>>
         [] OTHER -> budget' = budget - 1 /\ UNCHANGED <<phase, jobs, redelivered>>
    /\ UNCHANGED <<nic, seen, snap, child, script, bounds>>

(* One turn of the loop of restore_and_verify: capture, verify, and if     *)
(* only DNS differs deliver it once more.                                  *)
Converge(p) ==
    /\ phase[p] = "converge"
    /\ CASE budget = 0 -> Raise(p)
         [] budget > 0 /\ Errors(snap) = {} ->
                Enter(p, "verified", <<>>) /\ UNCHANGED <<budget, redelivered>>
         [] budget > 0 /\ Errors(snap) = {"servers"} /\ ~redelivered ->
                Enter(p, "restore", <<DnsScript(snap)>>)
                /\ redelivered' = TRUE /\ UNCHANGED budget
         [] OTHER -> budget' = budget - 1 /\ UNCHANGED <<phase, jobs, redelivered>>
    /\ UNCHANGED <<nic, seen, snap, child, script, bounds>>

(* The process is killed. Its child is a process group of its own.         *)
Kill(p) ==
    /\ phase[p] \notin Over \cup {"waiting"}
    /\ kills < MaxKills /\ kills' = kills + 1
    /\ Enter(p, "dead", <<>>)
    /\ UNCHANGED <<nic, seen, snap, child, script, budget, redelivered, faults, desyncs>>

Step(p) ==
    Launch(p) \/ Run(p) \/ Refused(p) \/ Return(p) \/ ReturnError(p) \/ Terminated(p) \/ OrphanEnds(p)
    \/ Capture(p) \/ BeginRestore(p) \/ Converge(p)

Next == \E p \in Procs : Step(p) \/ Fail(p) \/ CaptureFails(p) \/ Timeout(p) \/ Kill(p)

(* Children run, waits end, the last process finds the journal.            *)
Spec == Init /\ [][Next]_vars /\ WF_vars(\E p \in Procs : Step(p))

-----------------------------------------------------------------------------
(* A killed process leaves a child that still has something to change.     *)
Orphan(p) == phase[p] = "dead" /\ Alive(p)

(* No two children that still have something to change, but for the one a  *)
(* killed process leaves: an operation that ends, by a timeout too, leaves *)
(* none behind for the restore that follows to meet.                       *)
OneWriter ==
    \A p, q \in Procs : Alive(p) /\ Alive(q) /\ p # q => Orphan(p) \/ Orphan(q)

(* A restore fails only when something went wrong that one more delivery   *)
(* of the DNS servers does not repair.                                     *)
FailsForCause ==
    \A p \in Procs : phase[p] = "failed" => faults > 0 \/ desyncs > 1 \/ kills > 0

(* The promise of SnapshotGuard for the settings verify_restored compares: *)
(* changed only while a snapshot is saved, given up only when restored.    *)
(* The routes of a DHCP interface and on-link routes are not compared, and *)
(* the child of a killed process, which goes on after it, keeps no promise.*)
Users == IF snap = NoSnapshot THEN nic ELSE snap
Compared(S) == S \ (IF Dhcp \in Users THEN Routes \ AppRoutes ELSE OnLink)
Saved ==
    IF snap = NoSnapshot \/ \E p \in Procs : phase[p] = "verified"
    THEN NoSnapshot ELSE Compared(snap)
Guard == INSTANCE SnapshotGuard WITH nic <- Compared(nic), saved <- Saved, Original <- {}

(* "After an abnormal end of the process the interface can be restored and *)
(* verified from the recovery log" (RELEASE_NOTES.md:104): nobody changes  *)
(* a setting that has been verified, no child of a killed process either.  *)
StaysRestored == \A p \in Procs : phase[p] = "verified" => Compared(nic) = Compared(snap)

Guarded ==
    [][kills > 0 \/ Guard!GuardNext]_<<Compared(nic), Saved>>

(* Whatever failures and kills have left on the interface, a restore that   *)
(* none of them disturbs succeeds, even if a DNS write is missed meanwhile.*)
Undisturbed(p) ==
    /\ phase[p] = "restore" /\ child[p] = "none" /\ jobs[p] = <<RestoreScript(snap)>>
    /\ faults = MaxFaults /\ kills = MaxKills
    /\ \A q \in Procs : ~Alive(q)
RetrySucceeds == \A p \in Procs : Undisturbed(p) ~> phase[p] = "verified"
=============================================================================
