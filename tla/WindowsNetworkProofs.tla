------------------------ MODULE WindowsNetworkProofs ------------------------
(***************************************************************************)
(* For any number of processes, failures, timeouts and kills, and any      *)
(* settings: the PowerShell children of WindowsNetwork write one at a      *)
(* time; as long as no process is killed, the scripts and the verification *)
(* keep the promise of SnapshotGuard; and a restore without failures is    *)
(* verified.                                                               *)
(***************************************************************************)
EXTENDS WindowsNetwork, FiniteSetTheorems, TLAPS

Phases == {"waiting", "capture", "prepare", "apply", "bound", "restore", "converge"} \cup Over

(* The arrays have an entry for each process.                              *)
Arrays ==
    phase \in [Procs -> Phases] /\ child \in [Procs -> {"none", "running", "error", "stopping"}]

(* A process takes its turn when its predecessors have failed or died.     *)
InTurn ==
    \A p, q \in Procs : p < q /\ phase[q] # "waiting" => phase[p] \in {"failed", "dead"}

(* An operation that is over has no child, unless the process was killed   *)
(* under it.                                                               *)
Busy(p) == child[p] # "none"
ChildOfOperation ==
    \A p \in Procs : Busy(p) => phase[p] \in {"prepare", "apply", "restore", "dead"}

IInv == Arrays /\ InTurn /\ ChildOfOperation

(* The invariant holds at first: there is one process, and no child.        *)
LEMMA InitInv == Init => IInv
BY DEF Init, IInv, Arrays, InTurn, ChildOfOperation, Busy, Phases, Over, Procs

(* What keeps the invariant: a process enters a new phase while it has no  *)
(* child, or dies.                                                         *)
LEMMA EnterKeeps ==
    ASSUME IInv, NEW p \in Procs, NEW ph \in Phases \ {"waiting"},
           phase' = [phase EXCEPT ![p] = ph],
           phase[p] \notin {"failed", "dead"} \/ ph = phase[p],
           phase[p] # "waiting" \/ \A q \in Procs : q < p => phase[q] \in {"failed", "dead"},
           \A q \in Procs \ {p} : Busy(q)' => Busy(q),
           Busy(p)' => ph \in {"prepare", "apply", "restore", "dead"},
           child' \in [Procs -> {"none", "running", "error", "stopping"}]
    PROVE  IInv'
<1>1. Arrays'
    BY DEF IInv, Arrays
<1>2. phase \in [Procs -> Phases] /\ \A q \in Procs : phase'[q] = IF q = p THEN ph ELSE phase[q]
    BY DEF IInv, Arrays
<1>3. InTurn'
  <2> SUFFICES ASSUME NEW a \in Procs, NEW b \in Procs, a < b, phase'[b] # "waiting"
               PROVE  phase'[a] \in {"failed", "dead"}
    BY DEF InTurn
  <2>1. a # b
    BY DEF Procs
  <2>2. phase[a] \in {"failed", "dead"}
    BY <1>2, <2>1 DEF IInv, InTurn
  <2> QED
    BY <1>2, <2>2
<1>4. ChildOfOperation'
    BY <1>2 DEF IInv, ChildOfOperation
<1> QED
    BY <1>1, <1>3, <1>4 DEF IInv

(* So does a step within an operation.                                     *)
LEMMA StayKeeps ==
    ASSUME IInv, phase' = phase,
           \A q \in Procs : Busy(q)' =>
                Busy(q) \/ phase[q] \in {"prepare", "apply", "restore", "dead"},
           child' \in [Procs -> {"none", "running", "error", "stopping"}]
    PROVE  IInv'
BY DEF IInv, Arrays, InTurn, ChildOfOperation

(* An operation raises where it has no child, or leaves the one it had.    *)
LEMMA RaiseKeeps ==
    ASSUME IInv, NEW p \in Procs, Raise(p), phase[p] \notin Over \cup {"waiting"},
           \/ child' = child /\ ~Busy(p)
           \/ NoChild(p)
    PROVE  IInv'
<1> DEFINE ph == IF phase[p] \in {"prepare", "apply"} THEN "restore" ELSE "failed"
<1>1. ph \in Phases \ {"waiting"} /\ ph \in {"restore", "failed"}
    BY DEF Phases, Over
<1>2. phase' = [phase EXCEPT ![p] = ph]
    BY DEF Raise, Enter
<1>3. /\ child' \in [Procs -> {"none", "running", "error", "stopping"}]
      /\ \A q \in Procs \ {p} : Busy(q)' => Busy(q)
      /\ ~Busy(p)'
    BY DEF IInv, Arrays, Busy, NoChild
<1> HIDE DEF ph
<1> QED
    BY <1>1, <1>2, <1>3, EnterKeeps DEF Over

(* Every step of a process keeps the invariant.                            *)
LEMMA StepKeeps ==
    ASSUME IInv, NEW p \in Procs, Step(p) \/ Fail(p) \/ CaptureFails(p) \/ Timeout(p) \/ Kill(p)
    PROVE  IInv'
<1>a. /\ phase \in [Procs -> Phases]
      /\ child \in [Procs -> {"none", "running", "error", "stopping"}]
      /\ \A q \in Procs : Busy(q) => phase[q] \in {"prepare", "apply", "restore", "dead"}
    BY DEF IInv, Arrays, ChildOfOperation
<1>b. ASSUME NEW ph \in Phases \ {"waiting"}, phase' = [phase EXCEPT ![p] = ph],
             phase[p] \notin Over \cup {"waiting"},
             child' = child, Busy(p) => ph = "dead"
      PROVE  IInv'
  <2>1. \A q \in Procs : Busy(q)' <=> Busy(q)
    BY <1>b DEF Busy
  <2> QED
    BY <1>a, <1>b, <2>1, EnterKeeps DEF Over
<1>1. CASE Launch(p)
  <2>1. CASE Restoring(p) /\ budget = 0
    BY <1>1, <2>1, RaiseKeeps DEF Launch, Restoring, Busy, Over
  <2>2. CASE ~(Restoring(p) /\ budget = 0)
    <3>1. /\ phase' = phase /\ phase[p] \in {"prepare", "apply", "restore"}
          /\ child' = [child EXCEPT ![p] = "running"]
      BY <1>1, <2>2 DEF Launch
    <3>2. \A q \in Procs \ {p} : Busy(q)' <=> Busy(q)
      BY <1>a, <3>1 DEF Busy
    <3> QED
      BY <1>a, <3>1, <3>2, StayKeeps
  <2> QED
    BY <2>1, <2>2
<1>2. CASE Run(p)
  <2>1. phase' = phase /\ child' = child
    BY <1>2 DEF Run
  <2>2. \A q \in Procs : Busy(q)' => Busy(q)
    BY <1>a, <2>1 DEF Busy
  <2> QED
    BY <1>a, <2>1, <2>2, StayKeeps
<1>3. CASE Refused(p) \/ Fail(p)
  <2>1. Alive(p) /\ Stumble(p)
    BY <1>3 DEF Refused, Fail
  <2>2. phase' = phase /\ Busy(p) /\ child' \in {child, [child EXCEPT ![p] = "error"]}
    BY <1>a, <2>1 DEF Stumble, Alive, Busy
  <2>3. \A q \in Procs : Busy(q)' => Busy(q)
    BY <1>a, <2>2 DEF Busy
  <2> QED
    BY <1>a, <2>2, <2>3, StayKeeps
<1>4. CASE Return(p)
  <2>1. NoChild(p) /\ phase[p] \in {"prepare", "apply", "restore"}
    BY <1>a, <1>4 DEF Return, Busy, Over
  <2>2. /\ \A q \in Procs \ {p} : Busy(q)' <=> Busy(q)
        /\ ~Busy(p)'
        /\ child' \in [Procs -> {"none", "running", "error", "stopping"}]
    BY <1>a, <2>1 DEF Busy, NoChild
  <2>3. CASE UNCHANGED phase
    BY <2>2, <2>3, StayKeeps
  <2>4. CASE \E ph \in {"apply", "bound", "converge"} : phase' = [phase EXCEPT ![p] = ph]
    BY <2>1, <2>2, <2>4, EnterKeeps DEF Phases, Over
  <2> QED
    BY <1>4, <2>3, <2>4 DEF Return, Enter
<1>5. CASE ReturnError(p) \/ Terminated(p)
  <2>1. NoChild(p) /\ Raise(p) /\ Busy(p) /\ phase[p] \notin Over
    BY <1>5 DEF ReturnError, Terminated, Busy
  <2> QED
    BY <1>a, <2>1, RaiseKeeps
<1>6. CASE OrphanEnds(p)
  <2>1. phase' = phase /\ NoChild(p)
    BY <1>6 DEF OrphanEnds
  <2>2. /\ \A q \in Procs : Busy(q)' => Busy(q)
        /\ child' \in [Procs -> {"none", "running", "error", "stopping"}]
    BY <1>a, <2>1 DEF Busy, NoChild
  <2> QED
    BY <2>1, <2>2, StayKeeps
<1>7. CASE Capture(p)
    BY <1>a, <1>b, <1>7 DEF Capture, Enter, Phases, Over
<1>8. CASE CaptureFails(p)
    BY <1>a, <1>8, RaiseKeeps DEF CaptureFails, Over
<1>9. CASE BeginRestore(p)
  <2>1. phase' = [phase EXCEPT ![p] = "restore"] /\ child' = child /\ ~Busy(p)
    BY <1>a, <1>9 DEF BeginRestore, Enter
  <2>2. \A q \in Procs : Busy(q)' <=> Busy(q)
    BY <2>1 DEF Busy
  <2>3. phase[p] = "waiting" => \A q \in Procs : q < p => phase[q] \in {"failed", "dead"}
    <3> SUFFICES ASSUME phase[p] = "waiting", NEW q \in Procs, q < p
                 PROVE  phase[q] \in {"failed", "dead"}
      OBVIOUS
    <3>1. phase[p - 1] \in {"failed", "dead"}
      BY <1>9 DEF BeginRestore
    <3>2. p - 1 \in Procs /\ (q = p - 1 \/ q < p - 1)
      BY WindowsAssumption DEF Procs
    <3> QED
      BY <3>1, <3>2 DEF IInv, InTurn
  <2>4. phase[p] \in {"bound", "waiting"}
    BY <1>9 DEF BeginRestore
  <2> QED
    BY <1>a, <2>1, <2>2, <2>3, <2>4, EnterKeeps DEF Phases, Over
<1>10. CASE Converge(p)
  <2>1. phase[p] = "converge" /\ child' = child /\ ~Busy(p)
    BY <1>a, <1>10 DEF Converge
  <2>2. CASE Raise(p)
    BY <2>1, <2>2, RaiseKeeps DEF Over
  <2>3. CASE \E ph \in {"verified", "restore"} : phase' = [phase EXCEPT ![p] = ph]
    BY <1>b, <2>1, <2>3 DEF Phases, Over
  <2>4. CASE UNCHANGED phase
    <3>1. \A q \in Procs : Busy(q)' <=> Busy(q)
      BY <2>1 DEF Busy
    <3> QED
      BY <1>a, <2>1, <2>4, <3>1, StayKeeps
  <2> QED
    BY <1>10, <2>2, <2>3, <2>4 DEF Converge, Enter
<1>11. CASE Timeout(p)
  <2>1. /\ phase' = phase /\ child[p] = "running"
        /\ child' = [child EXCEPT ![p] = "stopping"]
    BY <1>11 DEF Timeout
  <2>2. \A q \in Procs : Busy(q)' <=> Busy(q)
    BY <1>a, <2>1 DEF Busy
  <2> QED
    BY <1>a, <2>1, <2>2, StayKeeps
<1>12. CASE Kill(p)
    BY <1>a, <1>b, <1>12 DEF Kill, Enter, Phases, Over
<1> QED
    BY <1>1, <1>2, <1>3, <1>4, <1>5, <1>6, <1>7, <1>8, <1>9, <1>10, <1>11, <1>12 DEF Step

(* The invariant is inductive.                                             *)
LEMMA Inductive == IInv /\ [Next]_vars => IInv'
<1> SUFFICES ASSUME IInv, [Next]_vars PROVE IInv'
    OBVIOUS
<1>1. CASE Next
    BY <1>1, StepKeeps DEF Next
<1>2. CASE UNCHANGED vars
    BY <1>2 DEF vars, IInv, Arrays, InTurn, ChildOfOperation, Busy
<1> QED
    BY <1>1, <1>2

(* No operation that ends, by success, error or timeout of                 *)
(* PowerShellRuntime.run, leaves a child that still changes the interface  *)
(* for the restore that follows to meet: only a killed process does.       *)
THEOREM OneWriterAtATime == Spec => []OneWriter
<1>1. IInv => OneWriter
  <2> SUFFICES ASSUME IInv, NEW p \in Procs, NEW q \in Procs, Alive(p), Alive(q), p # q
               PROVE  Orphan(p) \/ Orphan(q)
    BY DEF OneWriter
  <2>1. p < q \/ q < p
    BY WindowsAssumption DEF Procs
  <2>2. /\ phase[p] \in {"prepare", "apply", "restore", "dead"}
        /\ phase[q] \in {"prepare", "apply", "restore", "dead"}
    BY DEF IInv, ChildOfOperation, Alive, Busy
  <2> QED
    BY <2>1, <2>2 DEF IInv, InTurn, Orphan
<1> QED
    BY <1>1, InitInv, Inductive, PTL DEF Spec


-----------------------------------------------------------------------------
(* What the scripts do. _restore_script puts back what an interface        *)
(* without DHCP has, and leaves the routes and the DNS servers of one with *)
(* DHCP to its lease.                                                      *)
Wanted(s) == s \ (IF Dhcp \in s THEN Addresses \cup Routes \cup Servers ELSE OnLink)
LastDns(s) == RestoreDns(Wanted(s))

(* The cmdlets of the scripts that dial, and of those that restore s.      *)
ClearOps == {"DhcpOff", "RemoveRoutes", "RemoveAddresses"}
DnsOps == {"ResetDns", "SetDns"}
ClearCmds == {Cmdlet(op) : op \in ClearOps}

DialCmds ==
    ClearCmds \cup {Cmd("AddAddress", AppIp), Cmdlet("ResetDns"), Cmd("SetDns", AppDns)}
    \cup {Cmd("AddRoute", r) : r \in {Gateway} \cup AppRoutes}

MetricCmds(s) ==
    IF s \cap Metrics = {} THEN {Cmdlet("AutoMetric")}
    ELSE {Cmd("SetMetric", m) : m \in s \cap Metrics}

RestoreCmds(s) ==
    ClearCmds \cup {Cmdlet("ResetDns"), LastDns(s)}
    \cup {c \in {Cmdlet("DhcpOn")} : Dhcp \in s}
    \cup {Cmd("AddAddress", a) : a \in Wanted(s) \cap Addresses}
    \cup {Cmd("TryRoute", r) : r \in Wanted(s) \cap Routes}
    \cup MetricCmds(s)

(* A script that restores s runs no cmdlet twice, clears first, and        *)
(* whatever it does to the DNS servers ends with those it wants.           *)
Orderly(q) ==
    \A i, j \in DOMAIN q :
        i < j => q[i] # q[j] /\ (q[j].op \in ClearOps => q[i].op \in ClearOps)
Delivers(q, s) ==
    \A i \in DOMAIN q : q[i].op \in DnsOps => \E j \in DOMAIN q : i <= j /\ q[j] = LastDns(s)
Restores(q, s) == q \in Seq(RestoreCmds(s)) /\ Orderly(q) /\ Delivers(q, s)

(* Scripts are written from the lease or from the snapshot.                *)
Written(p) ==
    /\ phase[p] \in {"prepare", "apply"} =>
        jobs[p] \in Seq(Seq(DialCmds)) /\ (Busy(p) => script[p] \in Seq(DialCmds))
    /\ phase[p] = "restore" =>
        /\ Busy(p) => Restores(script[p], snap)
        /\ jobs[p] \in Seq(Seq(RestoreCmds(snap)))
        /\ \A i \in DOMAIN jobs[p] :
            Restores(jobs[p][i], snap) /\ LastDns(snap) \in Range(jobs[p][i])

(* The DNS servers a restore wants are there, or still to come.            *)
Delivered(p) ==
    /\ phase[p] = "restore" /\ child[p] = "running" /\ nic \cap Servers # Wanted(snap) \cap Servers =>
        LastDns(snap) \in Range(script[p])
    /\ phase[p] \in {"converge", "verified"} => nic \cap Servers = Wanted(snap) \cap Servers

(* The snapshot is taken from the user's interface before anything runs;   *)
(* addresses are the user's or the program's.                              *)
Begun ==
    /\ nic \subseteq Items
    /\ snap = NoSnapshot => nic \in Originals /\ seen = nic \cap Servers
    /\ snap # NoSnapshot => snap \in Originals /\ nic \cap Addresses \subseteq snap \cup {AppIp}
Journaled(p) ==
    /\ phase[p] = "capture" => snap = NoSnapshot
    /\ phase[p] \in {"prepare", "apply", "bound", "restore", "converge", "verified"} =>
        snap # NoSnapshot

Tables ==
    /\ DOMAIN script = Procs /\ DOMAIN jobs = Procs
    /\ faults \in Nat /\ desyncs \in Nat /\ kills \in Nat

(* As long as no process is killed.                                        *)
Sound(p) == phase[p] # "dead" /\ Journaled(p) /\ Written(p) /\ Delivered(p)
WInv == IInv /\ Tables /\ (kills = 0 => Begun /\ \A p \in Procs : Sound(p))

(* How far a restore of s has come without failures on an interface with   *)
(* the settings n, with the cmdlets R left to run: for each kind of        *)
(* setting, what is still to be cleared is still to be set, and what is    *)
(* cleared is set but for what is still to come.                           *)
ReachedOf(kind, remove, add, n, s, R) ==
    IF Cmdlet(remove) \in R
    THEN \A x \in Wanted(s) \cap kind : Cmd(add, x) \in R
    ELSE n \cap kind = {x \in Wanted(s) \cap kind : Cmd(add, x) \notin R}

Reached(n, s, R) ==
    /\ ReachedOf(Addresses, "RemoveAddresses", "AddAddress", n, s, R)
    /\ ReachedOf(Routes, "RemoveRoutes", "TryRoute", n, s, R)
    /\ IF Cmdlet("DhcpOff") \in R
       THEN Dhcp \in s => Cmdlet("DhcpOn") \in R
       ELSE Dhcp \in n <=> Dhcp \in s /\ Cmdlet("DhcpOn") \notin R
    /\ MetricCmds(s) \cap R # {} \/ n \cap Metrics = s \cap Metrics

Underway(R) ==
    /\ Reached(nic, snap, R)
    /\ \/ LastDns(snap) \in R
       \/ /\ nic \cap Servers = snap \cap Servers
          /\ seen = snap \cap Servers \/ (desyncs = 1 /\ ~redelivered)

(* A restore in which nothing fails, and at most one DNS write is missed,  *)
(* meets nothing that it did not expect.                                   *)
Smooth == faults = 0 /\ kills = 0 /\ desyncs <= 1
Succeeding(p) ==
    /\ phase[p] # "failed" /\ child[p] # "stopping"
    /\ phase[p] \in {"restore", "converge"} => budget > 0 /\ (redelivered => desyncs = 1)
    /\ phase[p] = "restore" =>
        \/ child[p] = "none" /\ Len(jobs[p]) = 1 /\ Underway(Range(jobs[p][1]))
        \/ child[p] = "running" /\ jobs[p] = <<>> /\ Underway(Range(script[p]))
    /\ phase[p] = "converge" => Underway({})

SInv == WInv /\ phase[1] # "waiting" /\ (Smooth => \A p \in Procs : Succeeding(p))
-----------------------------------------------------------------------------
(* Sequences of cmdlets: how they are taken apart and put together.        *)
LEMMA HeadTail ==
    ASSUME NEW S, NEW q \in Seq(S), q # <<>>
    PROVE  /\ Head(q) = q[1] /\ Head(q) \in S /\ 1 \in DOMAIN q
           /\ Tail(q) \in Seq(S)
           /\ \A i \in DOMAIN Tail(q) : i \in Nat /\ i + 1 \in DOMAIN q /\ Tail(q)[i] = q[i + 1]
           /\ \A i \in DOMAIN q : i = 1 \/ (i - 1 \in DOMAIN Tail(q) /\ Tail(q)[i - 1] = q[i])
           /\ Range(q) = {Head(q)} \cup Range(Tail(q))
<1>1. /\ Head(q) = q[1] /\ Head(q) \in S /\ 1 \in DOMAIN q
      /\ Tail(q) \in Seq(S) /\ Len(Tail(q)) = Len(q) - 1
      /\ \A i \in 1..Len(Tail(q)) : Tail(q)[i] = q[i + 1]
  OBVIOUS
<1>2. \A i \in DOMAIN Tail(q) : i \in Nat /\ i + 1 \in DOMAIN q /\ Tail(q)[i] = q[i + 1]
  BY <1>1
<1>3. \A i \in DOMAIN q : i = 1 \/ (i - 1 \in DOMAIN Tail(q) /\ Tail(q)[i - 1] = q[i])
  BY <1>1
<1>4. Range(q) = {Head(q)} \cup Range(Tail(q))
  <2>1. ASSUME NEW i \in DOMAIN q PROVE q[i] \in {Head(q)} \cup Range(Tail(q))
    BY <1>1, <1>3 DEF Range
  <2>2. ASSUME NEW i \in DOMAIN Tail(q) PROVE Tail(q)[i] \in Range(q)
    BY <1>2 DEF Range
  <2>3. Head(q) \in Range(q)
    BY <1>1 DEF Range
  <2> QED
    BY <2>1, <2>2, <2>3 DEF Range
<1> QED
  BY <1>1, <1>2, <1>3, <1>4

LEMMA Joining ==
    ASSUME NEW S, NEW q \in Seq(S), NEW r \in Seq(S)
    PROVE  /\ q \o r \in Seq(S)
           /\ \A i \in DOMAIN (q \o r) :
                \/ i \in DOMAIN q /\ (q \o r)[i] = q[i]
                \/ i - Len(q) \in DOMAIN r /\ i > Len(q) /\ (q \o r)[i] = r[i - Len(q)]
           /\ Range(q \o r) = Range(q) \cup Range(r)
<1>1. q \o r \in Seq(S) /\ Len(q \o r) = Len(q) + Len(r)
  OBVIOUS
<1>2. \A i \in DOMAIN (q \o r) :
        \/ i \in DOMAIN q /\ (q \o r)[i] = q[i]
        \/ i - Len(q) \in DOMAIN r /\ i > Len(q) /\ (q \o r)[i] = r[i - Len(q)]
  BY <1>1
<1>3. \A i \in DOMAIN q : i \in DOMAIN (q \o r) /\ (q \o r)[i] = q[i]
  BY <1>1
<1>4. \A i \in DOMAIN r : i + Len(q) \in DOMAIN (q \o r) /\ (q \o r)[i + Len(q)] = r[i]
  BY <1>1
<1>5. ASSUME NEW c \in Range(q \o r) PROVE c \in Range(q) \cup Range(r)
  BY <1>2 DEF Range
<1>6. ASSUME NEW c \in Range(q) PROVE c \in Range(q \o r)
  BY <1>3 DEF Range
<1>7. ASSUME NEW c \in Range(r) PROVE c \in Range(q \o r)
  BY <1>4 DEF Range
<1> QED
  BY <1>1, <1>2, <1>5, <1>6, <1>7

(* Two orderly scripts, one after the other.                               *)
LEMMA OrderlyJoin ==
    ASSUME NEW S, NEW q \in Seq(S), NEW r \in Seq(S), Orderly(q), Orderly(r),
           \A c \in Range(q), d \in Range(r) :
                c # d /\ (d.op \in ClearOps => c.op \in ClearOps)
    PROVE  Orderly(q \o r)
<1> SUFFICES ASSUME NEW i \in DOMAIN (q \o r), NEW j \in DOMAIN (q \o r), i < j
             PROVE  /\ (q \o r)[i] # (q \o r)[j]
                    /\ (q \o r)[j].op \in ClearOps => (q \o r)[i].op \in ClearOps
  BY DEF Orderly
<1>1. /\ \/ i \in DOMAIN q /\ (q \o r)[i] = q[i]
         \/ i - Len(q) \in DOMAIN r /\ i > Len(q) /\ (q \o r)[i] = r[i - Len(q)]
      /\ \/ j \in DOMAIN q /\ (q \o r)[j] = q[j]
         \/ j - Len(q) \in DOMAIN r /\ j > Len(q) /\ (q \o r)[j] = r[j - Len(q)]
  BY Joining
<1>2. i \in Nat /\ j \in Nat /\ Len(q) \in Nat /\ DOMAIN q = 1..Len(q)
  BY Joining
<1>3. CASE i \in DOMAIN q /\ j \in DOMAIN q /\ (q \o r)[i] = q[i] /\ (q \o r)[j] = q[j]
  BY <1>3 DEF Orderly
<1>4. CASE /\ i \in DOMAIN q /\ (q \o r)[i] = q[i]
           /\ j - Len(q) \in DOMAIN r /\ (q \o r)[j] = r[j - Len(q)]
  <2>1. q[i] \in Range(q) /\ r[j - Len(q)] \in Range(r)
    BY <1>4 DEF Range
  <2> QED
    BY <1>4, <2>1
<1>5. CASE /\ i - Len(q) \in DOMAIN r /\ (q \o r)[i] = r[i - Len(q)]
           /\ j - Len(q) \in DOMAIN r /\ (q \o r)[j] = r[j - Len(q)]
  <2>1. i - Len(q) < j - Len(q)
    BY <1>2
  <2> QED
    BY <1>5, <2>1 DEF Orderly
<1> QED
  BY <1>1, <1>2, <1>3, <1>4, <1>5

(* SetToSeq lists every element of a finite set once.                      *)
LEMMA Listed ==
    ASSUME NEW S, IsFiniteSet(S)
    PROVE  /\ SetToSeq(S) \in Seq(S) /\ Range(SetToSeq(S)) = S
           /\ \A i, j \in DOMAIN SetToSeq(S) : i # j => SetToSeq(S)[i] # SetToSeq(S)[j]
<1> DEFINE n == Cardinality(S)
           f == SetToSeq(S)
<1>1. n \in Nat /\ ExistsBijection(1..n, S)
  BY FS_CardinalityType
<1>2. PICK g \in [1..n -> S] : IsInjective(g)
  BY <1>1 DEF ExistsBijection, Bijection, Injection
<1>3. f \in [1..n -> S] /\ IsInjective(f)
  BY <1>2 DEF SetToSeq
<1> HIDE DEF f
<1>4. f \in Seq(S)
  BY <1>1, <1>3
<1>5. f \in Injection(1..n, S) /\ IsFiniteSet(1..n) /\ Cardinality(1..n) = n
  BY <1>1, <1>3, FS_Interval DEF Injection
<1>6. f \in Surjection(1..n, S)
  BY <1>5, FS_Injection
<1>7. Range(f) = S
  BY <1>3, <1>6 DEF Range, Surjection
<1>8. \A i, j \in DOMAIN f : i # j => f[i] # f[j]
  BY <1>3 DEF IsInjective
<1> QED
  BY <1>4, <1>7, <1>8 DEF f

(* A cmdlet has the fields it was given.                                   *)
LEMMA Fields ==
    /\ \A op : Cmdlet(op).op = op
    /\ \A op, x : Cmd(op, x).op = op /\ Cmd(op, x).arg = x
BY DEF Cmdlet, Cmd

(* One cmdlet for each element of a finite set.                            *)
LEMMA EachOnce ==
    ASSUME NEW S, IsFiniteSet(S), NEW op, op \notin ClearOps
    PROVE  /\ ForEach(op, S) \in Seq({Cmd(op, x) : x \in S})
           /\ Range(ForEach(op, S)) = {Cmd(op, x) : x \in S}
           /\ Orderly(ForEach(op, S))
           /\ DOMAIN ForEach(op, S) = 1..Cardinality(S)
<1> DEFINE T == {Cmd(op, x) : x \in S}
           g == [x \in S |-> Cmd(op, x)]
<1>1. g \in Surjection(S, T)
  BY DEF Surjection
<1>2. IsFiniteSet(T)
  BY <1>1, FS_Surjection
<1>3. \A c \in T : c.op = op
  BY Fields
<1>7. Cardinality(T) = Cardinality(S)
  <2>1. g \in Injection(S, T)
    BY Fields DEF Injection, IsInjective
  <2> QED
    BY <1>1, <2>1, FS_Surjection
<1> HIDE DEF T
<1>8. DOMAIN SetToSeq(T) = 1..Cardinality(T)
  BY <1>2, FS_CardinalityType DEF SetToSeq, ExistsBijection, Bijection, Injection
<1>4. /\ SetToSeq(T) \in Seq(T) /\ Range(SetToSeq(T)) = T
      /\ \A i, j \in DOMAIN SetToSeq(T) : i # j => SetToSeq(T)[i] # SetToSeq(T)[j]
  BY <1>2, Listed
<1>5. ForEach(op, S) = SetToSeq(T)
  BY DEF ForEach, T
<1>6. Orderly(SetToSeq(T))
  <2>1. \A i \in DOMAIN SetToSeq(T) : SetToSeq(T)[i] \in T /\ i \in Nat
    BY <1>4
  <2> QED
    BY <1>3, <1>4, <2>1 DEF Orderly
<1> QED
  BY <1>4, <1>5, <1>6, <1>7, <1>8 DEF T

LEMMA Kinds ==
    /\ IsFiniteSet(Addresses) /\ IsFiniteSet(Routes) /\ IsFiniteSet(Metrics)
    /\ Addresses \subseteq Items /\ Routes \subseteq Items
    /\ Servers \subseteq Items /\ Metrics \subseteq Items /\ Dhcp \in Items
BY KindsAssumption, FS_Subset DEF Items


-----------------------------------------------------------------------------
(* The scripts: _clear_interface_script first, ...                         *)
LEMMA ClearShape ==
    Clear \in Seq(ClearCmds) /\ Range(Clear) = ClearCmds /\ Orderly(Clear)
<1>1. /\ Clear = <<Cmdlet("DhcpOff"), Cmdlet("RemoveRoutes"), Cmdlet("RemoveAddresses")>>
      /\ Cmdlet("DhcpOff") \in ClearCmds /\ Cmdlet("RemoveRoutes") \in ClearCmds
      /\ Cmdlet("RemoveAddresses") \in ClearCmds
  BY DEF Clear, ClearCmds, ClearOps
<1>2. /\ Clear \in Seq(ClearCmds) /\ DOMAIN Clear = 1..3
      /\ Clear[1] = Cmdlet("DhcpOff") /\ Clear[2] = Cmdlet("RemoveRoutes")
      /\ Clear[3] = Cmdlet("RemoveAddresses")
  BY <1>1
<1>3. Range(Clear) = ClearCmds
  BY <1>1, <1>2 DEF Range, ClearCmds, ClearOps
<1>4. Orderly(Clear)
  BY <1>2, Fields DEF Orderly, ClearOps
<1> QED
  BY <1>2, <1>3, <1>4

(* A script of one cmdlet.                                                 *)
LEMMA Single ==
    ASSUME NEW S, NEW c \in S
    PROVE  <<c>> \in Seq(S) /\ Orderly(<<c>>) /\ Range(<<c>>) = {c}
<1>1. <<c>> \in Seq(S) /\ DOMAIN <<c>> = 1..1 /\ <<c>>[1] = c
  OBVIOUS
<1>2. \A i \in DOMAIN <<c>> : i = 1
  BY <1>1
<1>3. Orderly(<<c>>)
  BY <1>2 DEF Orderly
<1>4. Range(<<c>>) = {c}
  BY <1>1, <1>2 DEF Range
<1> QED
  BY <1>1, <1>3, <1>4

(* The last cmdlet for the DNS servers sets what the snapshot has.         *)
LEMMA LastDnsIs ==
    ASSUME NEW s
    PROVE  /\ LastDns(s).op \in DnsOps /\ LastDns(s) \in RestoreCmds(s)
           /\ Wanted(s) \cap Servers = {} => LastDns(s) = Cmdlet("ResetDns")
           /\ Wanted(s) \cap Servers # {} => LastDns(s) = Cmd("SetDns", Wanted(s) \cap Servers)
BY Fields DEF LastDns, RestoreDns, RestoreCmds, DnsOps

(* What is wanted, by kind.                                                *)
LEMMA WantedIs ==
    ASSUME NEW s, s \subseteq Items
    PROVE  /\ Dhcp \in s => /\ Wanted(s) \cap Addresses = {} /\ Wanted(s) \cap Routes = {}
                            /\ Wanted(s) \cap Servers = {}
           /\ Dhcp \notin s => /\ Wanted(s) \cap Addresses = s \cap Addresses
                               /\ Wanted(s) \cap Routes = (s \cap Routes) \ OnLink
                               /\ Wanted(s) \cap Servers = s \cap Servers
           /\ Wanted(s) \subseteq s
<1>1. OnLink \cap Addresses = {} /\ OnLink \cap Servers = {}
  BY KindsAssumption, WindowsAssumption
<1> QED
  BY <1>1 DEF Wanted

(* ... then the mode of the interface, DNS servers included, ...           *)
ModeOps == DnsOps \cup {"DhcpOn", "AddAddress", "TryRoute"}
ModeCmds(s) ==
    {LastDns(s)} \cup {c \in {Cmdlet("DhcpOn")} : Dhcp \in s}
    \cup {Cmd("AddAddress", a) : a \in Wanted(s) \cap Addresses}
    \cup {Cmd("TryRoute", r) : r \in Wanted(s) \cap Routes}

LEMMA ModeShape ==
    ASSUME NEW s, s \subseteq Items
    PROVE  /\ RestoreMode(s) \in Seq(ModeCmds(s)) /\ Orderly(RestoreMode(s))
           /\ Range(RestoreMode(s)) = ModeCmds(s)
<1>1. CASE Dhcp \in s
  <2> DEFINE c == Cmdlet("DhcpOn")
             d == LastDns(s)
  <2>1. /\ Wanted(s) \cap Addresses = {} /\ Wanted(s) \cap Routes = {}
        /\ d = Cmdlet("ResetDns")
    BY <1>1, WantedIs, LastDnsIs
  <2>2. RestoreMode(s) = <<d, c>> /\ ModeCmds(s) = {d, c}
    BY <1>1, <2>1 DEF RestoreMode, ModeCmds
  <2>3. d.op = "ResetDns" /\ c.op = "DhcpOn"
    BY <2>1, Fields
  <2> HIDE DEF c, d
  <2>4. <<d, c>> \in Seq({d, c}) /\ DOMAIN <<d, c>> = 1..2 /\ <<d, c>>[1] = d /\ <<d, c>>[2] = c
    OBVIOUS
  <2>5. \A i \in DOMAIN <<d, c>> : i = 1 \/ i = 2
    BY <2>4
  <2>6. Range(<<d, c>>) = {d, c}
    BY <2>4, <2>5 DEF Range
  <2>7. Orderly(<<d, c>>)
    BY <2>3, <2>4, <2>5 DEF Orderly, ClearOps
  <2> QED
    BY <2>2, <2>4, <2>6, <2>7
<1>2. CASE Dhcp \notin s
  <2> DEFINE A == ForEach("AddAddress", s \cap Addresses)
             T == ForEach("TryRoute", (s \cap Routes) \ OnLink)
             D == <<LastDns(s)>>
             SA == {Cmd("AddAddress", a) : a \in Wanted(s) \cap Addresses}
             ST == {Cmd("TryRoute", r) : r \in Wanted(s) \cap Routes}
             C == ModeCmds(s)
  <2>0. /\ Wanted(s) \cap Addresses = s \cap Addresses
        /\ Wanted(s) \cap Routes = (s \cap Routes) \ OnLink
        /\ LastDns(s) = RestoreDns(s)
    BY <1>2, WantedIs DEF LastDns, RestoreDns
  <2>1. A \in Seq(SA) /\ Orderly(A) /\ Range(A) = SA
    <3> DEFINE U == s \cap Addresses
    <3>1. IsFiniteSet(U)
      BY Kinds, FS_Intersection
    <3>2. "AddAddress" \notin ClearOps
      BY DEF ClearOps
    <3>3. A = ForEach("AddAddress", U) /\ SA = {Cmd("AddAddress", a) : a \in U}
      BY <2>0
    <3> HIDE DEF U, A, SA
    <3> QED
      BY <3>1, <3>2, <3>3, EachOnce
  <2>2. T \in Seq(ST) /\ Orderly(T) /\ Range(T) = ST
    <3> DEFINE R == (s \cap Routes) \ OnLink
    <3>1. IsFiniteSet(R)
      BY Kinds, FS_Subset
    <3>2. "TryRoute" \notin ClearOps
      BY DEF ClearOps
    <3>3. T = ForEach("TryRoute", R) /\ ST = {Cmd("TryRoute", r) : r \in R}
      BY <2>0
    <3> HIDE DEF R, T, ST
    <3> QED
      BY <3>1, <3>2, <3>3, EachOnce
  <2>3. D \in Seq({LastDns(s)}) /\ Orderly(D) /\ Range(D) = {LastDns(s)}
    BY Single
  <2>4. RestoreMode(s) = (A \o T) \o D
    BY <1>2, <2>0 DEF RestoreMode
  <2>5. /\ \A c \in SA : c.op = "AddAddress"
        /\ \A c \in ST : c.op = "TryRoute"
        /\ LastDns(s).op \in DnsOps
    <3>1. \A c \in SA : c.op = "AddAddress"
      BY Fields
    <3>2. \A c \in ST : c.op = "TryRoute"
      BY Fields
    <3> HIDE DEF SA, ST
    <3> QED
      BY <3>1, <3>2, LastDnsIs
  <2>6. C = SA \cup ST \cup {LastDns(s)}
    BY <1>2 DEF ModeCmds
  <2> HIDE DEF A, T, D, SA, ST, C
  <2>7. A \in Seq(C) /\ T \in Seq(C) /\ D \in Seq(C)
    BY <2>1, <2>2, <2>3, <2>6
  <2> DEFINE q == A \o T
  <2>8. q \in Seq(C) /\ Range(q) = SA \cup ST
    BY <2>1, <2>2, <2>7, Joining
  <2>9. Orderly(q)
    BY <2>1, <2>2, <2>5, <2>7, OrderlyJoin DEF ClearOps
  <2> HIDE DEF q
  <2>10. q \o D \in Seq(C) /\ Range(q \o D) = SA \cup ST \cup {LastDns(s)}
    BY <2>3, <2>7, <2>8, Joining
  <2>11. \A c \in Range(q), d \in Range(D) :
            c # d /\ (d.op \in ClearOps => c.op \in ClearOps)
    BY <2>3, <2>5, <2>8 DEF ClearOps, DnsOps
  <2>12. Orderly(q \o D)
    BY <2>3, <2>7, <2>8, <2>9, <2>11, OrderlyJoin
  <2>13. RestoreMode(s) = q \o D
    BY <2>4 DEF q
  <2> QED
    BY <2>6, <2>10, <2>12, <2>13 DEF C
<1> QED
  BY <1>1, <1>2

(* ... and the metric at the end (_restore_script).                        *)
RestoreMetric(s) ==
    IF s \cap Metrics = {} THEN <<Cmdlet("AutoMetric")>> ELSE ForEach("SetMetric", s \cap Metrics)

LEMMA MetricShape ==
    ASSUME NEW s, s \subseteq Items
    PROVE  /\ RestoreMetric(s) \in Seq(MetricCmds(s)) /\ Orderly(RestoreMetric(s))
           /\ Range(RestoreMetric(s)) = MetricCmds(s)
<1>1. CASE s \cap Metrics = {}
  <2>1. MetricCmds(s) = {Cmdlet("AutoMetric")} /\ RestoreMetric(s) = <<Cmdlet("AutoMetric")>>
    BY <1>1 DEF MetricCmds, RestoreMetric
  <2>2. LET c == Cmdlet("AutoMetric")
        IN  <<c>> \in Seq({c}) /\ Orderly(<<c>>) /\ Range(<<c>>) = {c}
    BY Single
  <2> QED
    BY <2>1, <2>2
<1>2. CASE s \cap Metrics # {}
  <2> DEFINE U == s \cap Metrics
  <2>1. IsFiniteSet(U) /\ "SetMetric" \notin ClearOps
    BY Kinds, FS_Intersection DEF ClearOps
  <2>2. MetricCmds(s) = {Cmd("SetMetric", m) : m \in U} /\ RestoreMetric(s) = ForEach("SetMetric", U)
    BY <1>2 DEF MetricCmds, RestoreMetric
  <2> HIDE DEF U
  <2> QED
    BY <2>1, <2>2, EachOnce
<1> QED
  BY <1>1, <1>2

LEMMA RestoreScriptShape ==
    ASSUME NEW s, s \subseteq Items
    PROVE  /\ Restores(RestoreScript(s), s)
           /\ Range(RestoreScript(s)) = ClearCmds \cup ModeCmds(s) \cup MetricCmds(s)
<1> DEFINE M == RestoreMetric(s)
           B == RestoreMode(s)
           C == RestoreCmds(s)
           q == Clear \o B
<1>1. RestoreScript(s) = q \o M
  BY DEF RestoreScript, RestoreMetric
<1>2. ClearCmds \subseteq C /\ ModeCmds(s) \subseteq C /\ MetricCmds(s) \subseteq C
  BY DEF RestoreCmds, ModeCmds
<1>3. M \in Seq(MetricCmds(s)) /\ Orderly(M) /\ Range(M) = MetricCmds(s)
  BY MetricShape
<1>4. B \in Seq(ModeCmds(s)) /\ Orderly(B) /\ Range(B) = ModeCmds(s)
  BY ModeShape
<1>6. \A c \in ClearCmds : c.op \in ClearOps
  BY Fields DEF ClearCmds
<1>7. \A c \in MetricCmds(s) : c.op \in {"AutoMetric", "SetMetric"}
  BY Fields DEF MetricCmds
<1>a. \A c \in ModeCmds(s) : c.op \in ModeOps /\ (c.op \in DnsOps => c = LastDns(s))
  <2> SUFFICES ASSUME NEW c \in ModeCmds(s)
               PROVE  c.op \in ModeOps /\ (c.op \in DnsOps => c = LastDns(s))
    OBVIOUS
  <2>1. \/ c = LastDns(s) \/ c = Cmdlet("DhcpOn")
        \/ (\E a : c = Cmd("AddAddress", a)) \/ (\E r : c = Cmd("TryRoute", r))
    BY DEF ModeCmds
  <2>2. CASE c = LastDns(s)
    BY <2>2, LastDnsIs DEF ModeOps
  <2>3. CASE c = Cmdlet("DhcpOn")
    BY <2>3, Fields DEF ModeOps, DnsOps
  <2>4. CASE (\E a : c = Cmd("AddAddress", a)) \/ (\E r : c = Cmd("TryRoute", r))
    BY <2>4, Fields DEF ModeOps, DnsOps
  <2> QED
    BY <2>1, <2>2, <2>3, <2>4
<1> HIDE DEF M, B, C
<1>5. Clear \in Seq(C) /\ B \in Seq(C) /\ M \in Seq(C)
  BY <1>2, <1>3, <1>4, ClearShape
<1>8. q \in Seq(C) /\ Range(q) = ClearCmds \cup ModeCmds(s)
  BY <1>4, <1>5, ClearShape, Joining
<1>9. \A c \in Range(Clear), d \in Range(B) :
        c # d /\ (d.op \in ClearOps => c.op \in ClearOps)
  BY <1>4, <1>6, <1>a, ClearShape DEF ModeOps, ClearOps, DnsOps
<1>10. Orderly(q)
  BY <1>4, <1>5, <1>9, ClearShape, OrderlyJoin
<1> HIDE DEF q
<1>11. \A c \in Range(q), d \in Range(M) :
        c # d /\ (d.op \in ClearOps => c.op \in ClearOps)
  BY <1>3, <1>6, <1>7, <1>8, <1>a DEF ModeOps, ClearOps, DnsOps
<1>12. Orderly(q \o M)
  BY <1>3, <1>5, <1>8, <1>10, <1>11, OrderlyJoin
<1>13. q \o M \in Seq(C) /\ Range(q \o M) = ClearCmds \cup ModeCmds(s) \cup MetricCmds(s)
  BY <1>3, <1>5, <1>8, Joining
<1>14. Delivers(q \o M, s)
  <2> SUFFICES ASSUME NEW i \in DOMAIN (q \o M), (q \o M)[i].op \in DnsOps
               PROVE  i <= i /\ (q \o M)[i] = LastDns(s)
    BY DEF Delivers
  <2>1. (q \o M)[i] \in Range(q \o M) /\ i \in Nat
    BY <1>13 DEF Range
  <2> QED
    BY <1>6, <1>7, <1>a, <1>13, <2>1 DEF ClearOps, DnsOps
<1> QED
  BY <1>1, <1>12, <1>13, <1>14 DEF Restores, C

(* Only the DNS servers, where the script above sets some                  *)
(* (_dns_set_script).                                                      *)
LEMMA DnsScriptShape ==
    ASSUME NEW s, s \subseteq Items, Wanted(s) \cap Servers # {}
    PROVE  /\ Restores(DnsScript(s), s)
           /\ Range(DnsScript(s)) = {Cmdlet("ResetDns"), LastDns(s)}
<1> DEFINE c == Cmdlet("ResetDns")
           d == LastDns(s)
<1>0. Dhcp \notin s
  BY WantedIs
<1>1. /\ DnsScript(s) = <<c, d>> /\ c \in RestoreCmds(s) /\ d \in RestoreCmds(s)
      /\ c.op = "ResetDns" /\ d.op = "SetDns"
  <2>1. LastDns(s) = RestoreDns(s)
    BY <1>0, WantedIs DEF LastDns, RestoreDns
  <2> QED
    BY <2>1, LastDnsIs, Fields DEF DnsScript, RestoreCmds
<1> HIDE DEF c, d
<1>2. /\ <<c, d>> \in Seq(RestoreCmds(s)) /\ DOMAIN <<c, d>> = 1..2
      /\ <<c, d>>[1] = c /\ <<c, d>>[2] = d
  BY <1>1
<1>3. \A i \in DOMAIN <<c, d>> : i = 1 \/ i = 2
  BY <1>2
<1>4. Orderly(<<c, d>>)
  BY <1>1, <1>2, <1>3 DEF Orderly, ClearOps
<1>5. Range(<<c, d>>) = {c, d}
  BY <1>2, <1>3 DEF Range
<1>6. Delivers(<<c, d>>, s)
  BY <1>2, <1>3 DEF Delivers, d
<1> QED
  BY <1>1, <1>2, <1>4, <1>5, <1>6 DEF Restores, c, d

(* The scripts of apply_lease.                                             *)
LEMMA ApplyScriptsShape == ApplyScripts \in Seq(Seq(DialCmds))
<1> DEFINE D == IF AppDns = {} THEN Cmdlet("ResetDns") ELSE Cmd("SetDns", AppDns)
           a == Cmd("AddAddress", AppIp)
           g == Cmd("AddRoute", Gateway)
           A == <<a, g, D>>
           F == ForEach("AddRoute", AppRoutes)
           n == Cardinality(AppRoutes)
           H == [i \in 1..n |-> <<F[i]>>]
           L == Clear \o A
           C == DialCmds
<1>1. /\ ClearCmds \subseteq C /\ {Cmd("AddRoute", r) : r \in AppRoutes} \subseteq C
      /\ a \in C /\ g \in C /\ D \in C
  BY DEF DialCmds
<1>2. IsFiniteSet(AppRoutes)
  BY Kinds, WindowsAssumption, FS_Subset
<1>3. F \in Seq({Cmd("AddRoute", r) : r \in AppRoutes}) /\ DOMAIN F = 1..n /\ n \in Nat
  BY <1>2, EachOnce, FS_CardinalityType DEF ClearOps
<1>4. ApplyScripts = <<L>> \o H
  BY DEF ApplyScripts
<1> HIDE DEF D, a, g, F, n, C
<1>5. A \in Seq(C)
  BY <1>1
<1>6. F \in Seq(C)
  BY <1>1, <1>3
<1>7. \A i \in 1..n : <<F[i]>> \in Seq(C)
  <2>1. \A i \in 1..n : F[i] \in C
    BY <1>3, <1>6
  <2> QED
    BY <2>1
<1>8. Clear \in Seq(C)
  BY <1>1, ClearShape
<1> HIDE DEF A
<1>9. L \in Seq(C)
  BY <1>5, <1>8
<1> HIDE DEF L
<1>10. H \in Seq(Seq(C))
  BY <1>3, <1>7
<1> HIDE DEF H
<1>11. <<L>> \in Seq(Seq(C))
  BY <1>9
<1> DEFINE G == <<L>>
<1> HIDE DEF G
<1>12. G \o H \in Seq(Seq(C))
  BY <1>10, <1>11 DEF G
<1> QED
  BY <1>4, <1>12 DEF C, G

(* A script that restores goes on restoring as its cmdlets are run.        *)
LEMMA RestoresTail ==
    ASSUME NEW s, NEW q, Restores(q, s), q # <<>>
    PROVE  /\ Restores(Tail(q), s) /\ Head(q) \in RestoreCmds(s) /\ Head(q) \notin Range(Tail(q))
           /\ Head(q).op \notin ClearOps => \A c \in Range(Tail(q)) : c.op \notin ClearOps
           /\ Head(q).op \in DnsOps => Head(q) = LastDns(s) \/ LastDns(s) \in Range(Tail(q))
           /\ Range(q) = {Head(q)} \cup Range(Tail(q))
<1>1. q \in Seq(RestoreCmds(s)) /\ Orderly(q) /\ Delivers(q, s)
  BY DEF Restores
<1> DEFINE t == Tail(q)
<1>2. /\ Head(q) = q[1] /\ Head(q) \in RestoreCmds(s) /\ 1 \in DOMAIN q
      /\ t \in Seq(RestoreCmds(s))
      /\ \A i \in DOMAIN t : i \in Nat /\ i >= 1 /\ i + 1 \in DOMAIN q /\ t[i] = q[i + 1]
      /\ \A i \in DOMAIN q : i \in Nat /\ (i = 1 \/ (i - 1 \in DOMAIN t /\ t[i - 1] = q[i]))
      /\ Range(q) = {Head(q)} \cup Range(t)
  BY <1>1, HeadTail
<1> HIDE DEF t
<1>3. Orderly(t)
  <2> SUFFICES ASSUME NEW i \in DOMAIN t, NEW j \in DOMAIN t, i < j
               PROVE  t[i] # t[j] /\ (t[j].op \in ClearOps => t[i].op \in ClearOps)
    BY DEF Orderly
  <2>1. i + 1 \in DOMAIN q /\ j + 1 \in DOMAIN q /\ i + 1 < j + 1
    BY <1>2
  <2>2. t[i] = q[i + 1] /\ t[j] = q[j + 1]
    BY <1>2
  <2>3. q[i + 1] # q[j + 1] /\ (q[j + 1].op \in ClearOps => q[i + 1].op \in ClearOps)
    BY <1>1, <2>1 DEF Orderly
  <2> QED
    BY <2>2, <2>3
<1>4. Delivers(t, s)
  <2> SUFFICES ASSUME NEW i \in DOMAIN t, t[i].op \in DnsOps
               PROVE  \E j \in DOMAIN t : i <= j /\ t[j] = LastDns(s)
    BY DEF Delivers
  <2>1. PICK k \in DOMAIN q : i + 1 <= k /\ q[k] = LastDns(s)
    BY <1>1, <1>2 DEF Delivers
  <2>2. k # 1 /\ k - 1 \in DOMAIN t /\ i <= k - 1 /\ t[k - 1] = LastDns(s)
    BY <1>2, <2>1
  <2> QED
    BY <2>2
<1>5. \A i \in DOMAIN t : t[i] # q[1] /\ (q[1].op \notin ClearOps => t[i].op \notin ClearOps)
  <2> SUFFICES ASSUME NEW i \in DOMAIN t
               PROVE  t[i] # q[1] /\ (q[1].op \notin ClearOps => t[i].op \notin ClearOps)
    OBVIOUS
  <2>1. i + 1 \in DOMAIN q /\ 1 < i + 1 /\ t[i] = q[i + 1]
    BY <1>2
  <2> QED
    BY <1>1, <1>2, <2>1 DEF Orderly
<1>6. q[1].op \in DnsOps => q[1] = LastDns(s) \/ LastDns(s) \in Range(t)
  <2> SUFFICES ASSUME q[1].op \in DnsOps, q[1] # LastDns(s)
               PROVE  LastDns(s) \in Range(t)
    OBVIOUS
  <2>1. PICK k \in DOMAIN q : q[k] = LastDns(s)
    BY <1>1, <1>2 DEF Delivers
  <2>2. k - 1 \in DOMAIN t /\ t[k - 1] = LastDns(s)
    BY <1>2, <2>1
  <2> QED
    BY <2>2 DEF Range
<1> QED
  BY <1>2, <1>3, <1>4, <1>5, <1>6 DEF Restores, Range, t

(* An empty script restores nothing, and nothing else.                     *)
LEMMA EmptyRestores == ASSUME NEW s PROVE Restores(<<>>, s) /\ Range(<<>>) = {}
BY DEF Restores, Orderly, Delivers, Range

(* The cmdlets of the scripts, taken apart.                                *)
LEMMA CmdIs ==
    ASSUME NEW s, s \subseteq Items, NEW c \in DialCmds \cup RestoreCmds(s)
    PROVE  \/ \E op \in ClearOps \cup {"ResetDns", "DhcpOn", "AutoMetric"} : c = Cmdlet(op)
           \/ \E a \in Addresses : c = Cmd("AddAddress", a)
           \/ \E r \in Routes : c = Cmd("AddRoute", r) \/ c = Cmd("TryRoute", r)
           \/ \E d \in SUBSET Servers : c = Cmd("SetDns", d)
           \/ \E m \in Metrics : c = Cmd("SetMetric", m)
<1>1. CASE c \in DialCmds
  BY <1>1, WindowsAssumption DEF DialCmds, ClearCmds
<1>2. CASE c = LastDns(s)
  BY <1>2, LastDnsIs
<1>3. CASE c \in RestoreCmds(s) \ {LastDns(s)}
  BY <1>3 DEF RestoreCmds, ClearCmds, MetricCmds
<1> QED
  BY <1>1, <1>2, <1>3

(* What each of them does to the interface (Effect), ...                   *)
LEMMA EffectOfCmdlet ==
    /\ Effect(Cmdlet("DhcpOff")) = nic \ {Dhcp}
    /\ Effect(Cmdlet("DhcpOn")) = nic \cup {Dhcp}
    /\ Effect(Cmdlet("RemoveRoutes")) = nic \ Routes
    /\ Effect(Cmdlet("RemoveAddresses")) = nic \ Addresses
    /\ Effect(Cmdlet("ResetDns")) = nic \ Servers
    /\ Effect(Cmdlet("AutoMetric")) = nic \ Metrics
BY Fields DEF Effect

LEMMA EffectOfCmd ==
    ASSUME NEW x
    PROVE  /\ Effect(Cmd("AddAddress", x)) = nic \cup {x}
           /\ Effect(Cmd("AddRoute", x)) = nic \cup {x}
           /\ Effect(Cmd("TryRoute", x)) = nic \cup {x}
           /\ Effect(Cmd("SetDns", x)) = (nic \ Servers) \cup x
           /\ Effect(Cmd("SetMetric", x)) = (nic \ Metrics) \cup {x}
BY Fields DEF Effect

(* ... kind by kind.                                                       *)
LEMMA EffectOn ==
    ASSUME NEW s, s \subseteq Items, NEW c \in DialCmds \cup RestoreCmds(s), nic \subseteq Items
    PROVE  /\ Effect(c) \subseteq Items
           /\ Effect(c) \cap Addresses =
                IF c.op = "RemoveAddresses" THEN {}
                ELSE (nic \cap Addresses) \cup {x \in {c.arg} : c.op = "AddAddress"}
           /\ Effect(c) \cap Routes =
                IF c.op = "RemoveRoutes" THEN {}
                ELSE (nic \cap Routes) \cup {x \in {c.arg} : c.op \in {"AddRoute", "TryRoute"}}
           /\ Effect(c) \cap Servers =
                CASE c.op = "ResetDns" -> {} [] c.op = "SetDns" -> c.arg [] OTHER -> nic \cap Servers
           /\ Effect(c) \cap Metrics =
                CASE c.op = "AutoMetric" -> {} [] c.op = "SetMetric" -> {c.arg}
                  [] OTHER -> nic \cap Metrics
           /\ Dhcp \in Effect(c) <=> c.op = "DhcpOn" \/ (Dhcp \in nic /\ c.op # "DhcpOff")
<1>k. /\ Dhcp \notin Addresses \cup Routes \cup Servers \cup Metrics
      /\ Addresses \cap (Routes \cup Servers \cup Metrics) = {}
      /\ Routes \cap (Servers \cup Metrics) = {} /\ Servers \cap Metrics = {}
  BY KindsAssumption
<1>1. CASE c = Cmdlet("DhcpOff") \/ c = Cmdlet("DhcpOn")
  BY <1>1, <1>k, Fields, EffectOfCmdlet DEF Items
<1>2. CASE c = Cmdlet("RemoveRoutes") \/ c = Cmdlet("RemoveAddresses")
  BY <1>2, <1>k, Fields, EffectOfCmdlet DEF Items
<1>3. CASE c = Cmdlet("ResetDns") \/ c = Cmdlet("AutoMetric")
  BY <1>3, <1>k, Fields, EffectOfCmdlet DEF Items
<1>4. ASSUME NEW a \in Addresses, c = Cmd("AddAddress", a)
      PROVE  c.op = "AddAddress" /\ c.arg = a /\ Effect(c) = nic \cup {a}
  BY <1>4, Fields, EffectOfCmd
<1>5. ASSUME NEW r \in Routes, c = Cmd("AddRoute", r) \/ c = Cmd("TryRoute", r)
      PROVE  c.op \in {"AddRoute", "TryRoute"} /\ c.arg = r /\ Effect(c) = nic \cup {r}
  BY <1>5, Fields, EffectOfCmd
<1>6. ASSUME NEW d \in SUBSET Servers, c = Cmd("SetDns", d)
      PROVE  c.op = "SetDns" /\ c.arg = d /\ Effect(c) = (nic \ Servers) \cup d
  BY <1>6, Fields, EffectOfCmd
<1>7. ASSUME NEW m \in Metrics, c = Cmd("SetMetric", m)
      PROVE  c.op = "SetMetric" /\ c.arg = m /\ Effect(c) = (nic \ Metrics) \cup {m}
  BY <1>7, Fields, EffectOfCmd
<1>8. CASE \E a \in Addresses : c = Cmd("AddAddress", a)
  BY <1>8, <1>4, <1>k DEF Items
<1>9. CASE \E r \in Routes : c = Cmd("AddRoute", r) \/ c = Cmd("TryRoute", r)
  BY <1>9, <1>5, <1>k DEF Items
<1>10. CASE \E d \in SUBSET Servers : c = Cmd("SetDns", d)
  BY <1>10, <1>6, <1>k DEF Items
<1>11. CASE \E m \in Metrics : c = Cmd("SetMetric", m)
  BY <1>11, <1>7, <1>k DEF Items
<1> QED
  BY <1>1, <1>2, <1>3, <1>8, <1>9, <1>10, <1>11, CmdIs DEF ClearOps

(* A cmdlet adds an address or a route only from its argument.             *)
LEMMA AddsWanted ==
    ASSUME NEW s, NEW c \in RestoreCmds(s)
    PROVE  /\ c.op = "AddAddress" => c.arg \in Wanted(s) \cap Addresses /\ c = Cmd("AddAddress", c.arg)
           /\ c.op \in {"AddRoute", "TryRoute"} =>
                c.arg \in Wanted(s) \cap Routes /\ c = Cmd("TryRoute", c.arg)
           /\ c.op = "SetMetric" => c.arg \in s \cap Metrics /\ c = Cmd("SetMetric", c.arg)
           /\ c.op \notin {"AddAddress", "TryRoute", "SetMetric", "SetDns"} => c = Cmdlet(c.op)
           /\ c.op = "AutoMetric" => s \cap Metrics = {}
           /\ c.op = "DhcpOn" => Dhcp \in s
           /\ c.op = "SetDns" => c = LastDns(s)
<1>1. CASE c \in ClearCmds \cup {Cmdlet("ResetDns")} \cup {x \in {Cmdlet("DhcpOn")} : Dhcp \in s}
  BY <1>1, Fields DEF ClearCmds, ClearOps
<1>2. CASE c = LastDns(s)
  BY <1>2, Fields, LastDnsIs DEF DnsOps
<1>3. CASE \E a \in Wanted(s) \cap Addresses : c = Cmd("AddAddress", a)
  BY <1>3, Fields
<1>4. CASE \E r \in Wanted(s) \cap Routes : c = Cmd("TryRoute", r)
  BY <1>4, Fields
<1>5. CASE c \in MetricCmds(s)
  BY <1>5, Fields DEF MetricCmds
<1> QED
  BY <1>1, <1>2, <1>3, <1>4, <1>5 DEF RestoreCmds

-----------------------------------------------------------------------------
(* At first nothing runs.                                                  *)
LEMMA SoundAtFirst == Init => WInv
<1> SUFFICES ASSUME Init PROVE WInv
  OBVIOUS
<1>1. Begun /\ Tables
  BY WindowsAssumption DEF Init, Begun, Tables
<1>2. ASSUME NEW p \in Procs PROVE Sound(p)
  <2>1. phase[p] \in {"capture", "waiting"} /\ child[p] = "none" /\ snap = NoSnapshot
    BY DEF Init
  <2> QED
    BY <2>1 DEF Sound, Journaled, Written, Delivered
<1> QED
  BY <1>1, <1>2, InitInv DEF WInv

(* The process that takes a step is the only one that is neither waiting   *)
(* nor failed.                                                             *)
LEMMA Alone ==
    ASSUME IInv, \A q \in Procs : phase[q] # "dead", NEW p \in Procs,
           phase[p] \notin {"waiting", "failed"}
           \/ (phase[p] = "waiting" /\ phase[p - 1] \in {"failed", "dead"})
    PROVE  \A q \in Procs \ {p} : phase[q] \in {"waiting", "failed"}
<1> SUFFICES ASSUME NEW q \in Procs, q # p, phase[q] # "waiting"
             PROVE  phase[q] = "failed"
  OBVIOUS
<1>1. CASE q < p
  <2>1. CASE phase[p] # "waiting"
    BY <1>1, <2>1 DEF IInv, InTurn
  <2>2. CASE phase[p] = "waiting"
    <3>1. p - 1 \in Procs /\ (q = p - 1 \/ q < p - 1) /\ phase[p - 1] = "failed"
      BY <1>1, <2>2, WindowsAssumption DEF Procs
    <3> QED
      BY <3>1 DEF IInv, InTurn
  <2> QED
    BY <2>1, <2>2
<1>2. CASE p < q
  BY <1>2 DEF IInv, InTurn
<1> QED
  BY <1>1, <1>2 DEF Procs

(* A step that changes the entries of one process.                         *)
Turn(p) == Step(p) \/ Fail(p) \/ CaptureFails(p) \/ Timeout(p) \/ Kill(p)

LEMMA OneEntry ==
    ASSUME WInv, NEW p \in Procs, Turn(p)
    PROVE  /\ Tables'
           /\ \A q \in Procs \ {p} : /\ phase'[q] = phase[q] /\ child'[q] = child[q]
                                     /\ script'[q] = script[q] /\ jobs'[q] = jobs[q]
<1>1. phase \in [Procs -> Phases] /\ child \in [Procs -> {"none", "running", "error", "stopping"}]
  BY DEF WInv, IInv, Arrays
<1>2. /\ DOMAIN script = Procs /\ DOMAIN jobs = Procs
      /\ faults \in Nat /\ desyncs \in Nat /\ kills \in Nat
  BY DEF WInv, Tables
<1>3. phase' = phase \/ \E x : phase' = [phase EXCEPT ![p] = x]
  BY DEF Turn, Step, Launch, Run, Refused, Fail, Stumble, Return, ReturnError, Terminated, OrphanEnds,
         Capture, CaptureFails, BeginRestore, Converge, Timeout, Kill, Raise, Enter
<1>4. child' = child \/ \E x : child' = [child EXCEPT ![p] = x]
  BY DEF Turn, Step, Launch, Run, Refused, Fail, Stumble, Return, ReturnError, Terminated, OrphanEnds,
         Capture, CaptureFails, BeginRestore, Converge, Timeout, Kill, NoChild
<1>5. script' = script \/ \E x : script' = [script EXCEPT ![p] = x]
  BY DEF Turn, Step, Launch, Run, Refused, Fail, Stumble, Return, ReturnError, Terminated, OrphanEnds,
         Capture, CaptureFails, BeginRestore, Converge, Timeout, Kill, NoChild
<1>6. jobs' = jobs \/ \E x : jobs' = [jobs EXCEPT ![p] = x]
  BY DEF Turn, Step, Launch, Run, Refused, Fail, Stumble, Return, ReturnError, Terminated, OrphanEnds,
         Capture, CaptureFails, BeginRestore, Converge, Timeout, Kill, Raise, Enter
<1>7. /\ faults' \in {faults, faults + 1} /\ desyncs' \in {desyncs, desyncs + 1}
      /\ kills' \in {kills, kills + 1}
  BY DEF Turn, Step, Launch, Run, Refused, Fail, Stumble, Return, ReturnError, Terminated, OrphanEnds,
         Capture, CaptureFails, BeginRestore, Converge, Timeout, Kill, bounds
<1>8. Tables'
  BY <1>2, <1>5, <1>6, <1>7 DEF Tables
<1> QED
  BY <1>1, <1>2, <1>3, <1>4, <1>5, <1>6, <1>8

(* What an operation is entered with, and what is left of a child.         *)
LEMMA Entered ==
    ASSUME WInv, NEW p \in Procs, NEW ph, NEW scripts, Enter(p, ph, scripts)
    PROVE  phase'[p] = ph /\ jobs'[p] = scripts
BY DEF WInv, IInv, Arrays, Tables, Enter

LEMMA Childless ==
    ASSUME WInv, NEW p \in Procs, NoChild(p)
    PROVE  child'[p] = "none" /\ ~Busy(p)' /\ script'[p] = <<>>
BY DEF WInv, IInv, Arrays, Tables, NoChild, Busy

(* Without kills nobody is dead, no step is a kill, and an operation that  *)
(* is over has no child.                                                   *)
LEMMA Living ==
    ASSUME WInv, kills' = 0, NEW p \in Procs, Turn(p)
    PROVE  /\ kills = 0 /\ Begun /\ Sound(p) /\ ~Kill(p) /\ ~OrphanEnds(p)
           /\ phase[p] \in Phases \ {"dead"} /\ (Busy(p) => phase[p] \in {"prepare", "apply", "restore"})
           /\ phase[p] \notin {"failed", "verified"}
           /\ \A q \in Procs \ {p} : phase[q] \in {"waiting", "failed"}
           /\ phase[p] # "waiting" \/ BeginRestore(p)
           /\ child[p] \in {"none", "running", "error", "stopping"}
<1>1. kills \in Nat /\ kills' \in {kills, kills + 1} /\ (Kill(p) => kills' = kills + 1)
  BY DEF WInv, Tables, Turn, Step, Launch, Run, Refused, Fail, Stumble, Return, ReturnError,
         Terminated, OrphanEnds, Capture, CaptureFails, BeginRestore, Converge, Timeout, Kill, bounds
<1>2. kills = 0 /\ ~Kill(p)
  BY <1>1
<1>3. Begun /\ \A q \in Procs : Sound(q) /\ phase[q] # "dead"
  BY <1>2 DEF WInv, Sound
<1>4. /\ phase[p] \in Phases \ {"dead"} /\ (Busy(p) => phase[p] \in {"prepare", "apply", "restore"})
      /\ child[p] \in {"none", "running", "error", "stopping"}
  BY <1>3 DEF WInv, IInv, Arrays, ChildOfOperation
<1>5. ~OrphanEnds(p)
  BY <1>4 DEF OrphanEnds, Over, Busy
<1>6. phase[p] \notin {"failed", "verified"} /\ (phase[p] # "waiting" \/ BeginRestore(p))
  BY <1>2, <1>4, <1>5 DEF Turn, Step, Launch, Run, Refused, Fail, Return, ReturnError,
         Terminated, Capture, CaptureFails, BeginRestore, Converge, Timeout, Alive, Busy, Over
<1>7. \A q \in Procs \ {p} : phase[q] \in {"waiting", "failed"}
  <2>1. phase[p] # "waiting" \/ (phase[p] = "waiting" /\ phase[p - 1] \in {"failed", "dead"})
    BY <1>6 DEF BeginRestore
  <2> QED
    BY <1>3, <1>6, <2>1, Alone DEF WInv
<1> QED
  BY <1>2, <1>3, <1>4, <1>5, <1>6, <1>7

(* A step within an operation leaves the phase and the snapshot.           *)
LEMMA PhaseSame ==
    ASSUME NEW p, Journaled(p), phase'[p] = phase[p], snap' = snap
    PROVE  Journaled(p)'
BY DEF Journaled

(* What waits or has failed claims nothing.                                *)
LEMMA IdleSound == ASSUME NEW p, phase[p] \in {"waiting", "failed"} PROVE Sound(p)
BY DEF Sound, Journaled, Written, Delivered

(* Launch gives a child the first of the scripts.                          *)
LEMMA LaunchSound ==
    ASSUME WInv, kills' = 0, NEW p \in Procs, Turn(p), Launch(p)
    PROVE  Begun' /\ Sound(p)'
<1>1. Begun /\ Sound(p) /\ phase[p] \in {"prepare", "apply", "restore"} /\ jobs[p] # <<>>
  BY Living DEF Launch
<1>2. Begun'
  BY <1>1 DEF Begun, Launch
<1>3. CASE Restoring(p) /\ budget = 0
  <2>1. Enter(p, "failed", <<>>)
    BY <1>3 DEF Launch, Raise, Restoring
  <2>2. phase'[p] = "failed"
    BY <2>1, Entered
  <2> QED
    BY <1>2, <2>2 DEF Sound, Journaled, Written, Delivered
<1>4. CASE ~(Restoring(p) /\ budget = 0)
  <2>1. /\ phase' = phase /\ snap' = snap /\ nic' = nic /\ child'[p] = "running"
        /\ script'[p] = Head(jobs[p]) /\ jobs'[p] = Tail(jobs[p])
    BY <1>4 DEF Launch, WInv, IInv, Arrays, Tables
  <2>2. CASE phase[p] \in {"prepare", "apply"}
    <3>1. jobs[p] \in Seq(Seq(DialCmds))
      BY <1>1, <2>2 DEF Sound, Written
    <3>2. Head(jobs[p]) \in Seq(DialCmds) /\ Tail(jobs[p]) \in Seq(Seq(DialCmds))
      BY <1>1, <3>1, HeadTail
    <3>3. Written(p)' /\ Delivered(p)'
      BY <2>1, <2>2, <3>2 DEF Written, Delivered
    <3> QED
      BY <1>1, <1>2, <2>1, <2>2, <3>3, PhaseSame DEF Sound
  <2>3. CASE phase[p] = "restore"
    <3> DEFINE S == Seq(RestoreCmds(snap))
               j == jobs[p]
    <3>1. /\ j \in Seq(S)
          /\ \A i \in DOMAIN j : Restores(j[i], snap) /\ LastDns(snap) \in Range(j[i])
      BY <1>1, <2>3 DEF Sound, Written
    <3>2. /\ Head(j) = j[1] /\ 1 \in DOMAIN j /\ Tail(j) \in Seq(S)
          /\ \A i \in DOMAIN Tail(j) : i + 1 \in DOMAIN j /\ Tail(j)[i] = j[i + 1]
      BY <1>1, <3>1, HeadTail
    <3>3. /\ Restores(Head(j), snap) /\ LastDns(snap) \in Range(Head(j))
          /\ \A i \in DOMAIN Tail(j) :
                Restores(Tail(j)[i], snap) /\ LastDns(snap) \in Range(Tail(j)[i])
      BY <3>1, <3>2
    <3>4. Written(p)'
      BY <2>1, <2>3, <3>2, <3>3 DEF Written
    <3>5. Delivered(p)'
      BY <2>1, <2>3, <3>3 DEF Delivered
    <3> QED
      BY <1>1, <1>2, <2>1, <2>3, <3>4, <3>5, PhaseSame DEF Sound
  <2> QED
    BY <1>1, <2>2, <2>3
<1> QED
  BY <1>3, <1>4

(* A cmdlet changes the interface.                                         *)
LEMMA RunSound ==
    ASSUME WInv, kills' = 0, NEW p \in Procs, Turn(p), Run(p)
    PROVE  Begun' /\ Sound(p)'
<1> DEFINE c == Head(script[p])
<1>1. /\ Begun /\ Sound(p) /\ Busy(p) /\ script[p] # <<>>
      /\ phase[p] \in {"prepare", "apply", "restore"} /\ snap # NoSnapshot
  <2>1. Begun /\ Sound(p) /\ Busy(p) /\ script[p] # <<>> /\ phase[p] \in {"prepare", "apply", "restore"}
    BY Living DEF Run, Alive, Busy
  <2> QED
    BY <2>1 DEF Sound, Journaled
<1>2. /\ phase' = phase /\ snap' = snap /\ child' = child /\ jobs' = jobs
      /\ nic' = Effect(c) /\ script'[p] = Tail(script[p])
  BY DEF Run, WInv, Tables
<1>3. snap \in Originals /\ snap \subseteq Items /\ nic \subseteq Items
      /\ nic \cap Addresses \subseteq snap \cup {AppIp}
  BY <1>1, WindowsAssumption DEF Begun
<1> HIDE DEF c
<1>4. CASE phase[p] \in {"prepare", "apply"}
  <2>1. script[p] \in Seq(DialCmds)
    BY <1>1, <1>4 DEF Sound, Written
  <2>2. c \in DialCmds /\ Tail(script[p]) \in Seq(DialCmds)
    BY <1>1, <2>1, HeadTail DEF c
  <2>3. c.op = "AddAddress" => c.arg = AppIp
    BY <2>2, Fields DEF DialCmds, ClearCmds, ClearOps
  <2>4. Begun'
    <3>0. /\ Effect(c) \subseteq Items
          /\ Effect(c) \cap Addresses =
                IF c.op = "RemoveAddresses" THEN {}
                ELSE (nic \cap Addresses) \cup {x \in {c.arg} : c.op = "AddAddress"}
      BY <1>3, <2>2, EffectOn
    <3>1. /\ nic' \subseteq Items
          /\ \/ nic' \cap Addresses = {}
             \/ nic' \cap Addresses =
                    (nic \cap Addresses) \cup {x \in {c.arg} : c.op = "AddAddress"}
      BY <1>2, <3>0
    <3>2. nic' \cap Addresses \subseteq snap \cup {AppIp}
      BY <1>3, <2>3, <3>1
    <3> QED
      BY <1>1, <1>2, <1>3, <3>1, <3>2 DEF Begun
  <2>5. Written(p)' /\ Delivered(p)'
    BY <1>1, <1>2, <1>4, <2>2 DEF Sound, Written, Delivered
  <2> QED
    BY <1>1, <1>2, <1>4, <2>4, <2>5, PhaseSame DEF Sound
<1>5. CASE phase[p] = "restore"
  <2>1. Restores(script[p], snap)
    BY <1>1, <1>5 DEF Sound, Written
  <2>2. /\ Restores(Tail(script[p]), snap) /\ c \in RestoreCmds(snap)
        /\ c.op \in DnsOps => c = LastDns(snap) \/ LastDns(snap) \in Range(Tail(script[p]))
        /\ Range(script[p]) = {c} \cup Range(Tail(script[p]))
    BY <1>1, <2>1, RestoresTail DEF c
  <2>3. c.op = "AddAddress" => c.arg \in snap
    BY <1>3, <2>2, AddsWanted, WantedIs
  <2>4. Begun'
    <3>0. /\ Effect(c) \subseteq Items
          /\ Effect(c) \cap Addresses =
                IF c.op = "RemoveAddresses" THEN {}
                ELSE (nic \cap Addresses) \cup {x \in {c.arg} : c.op = "AddAddress"}
      BY <1>3, <2>2, EffectOn
    <3>1. /\ nic' \subseteq Items
          /\ \/ nic' \cap Addresses = {}
             \/ nic' \cap Addresses =
                    (nic \cap Addresses) \cup {x \in {c.arg} : c.op = "AddAddress"}
      BY <1>2, <3>0
    <3>2. nic' \cap Addresses \subseteq snap \cup {AppIp}
      BY <1>3, <2>3, <3>1
    <3> QED
      BY <1>1, <1>2, <1>3, <3>1, <3>2 DEF Begun
  <2>5. Written(p)'
    BY <1>1, <1>2, <1>5, <2>2 DEF Sound, Written, Busy
  <2>6. Delivered(p)'
    <3>1. CASE c = LastDns(snap)
      <4>1. nic' \cap Servers = Wanted(snap) \cap Servers
        <5>1. nic' \cap Servers =
                CASE c.op = "ResetDns" -> {} [] c.op = "SetDns" -> c.arg [] OTHER -> nic \cap Servers
          BY <1>2, <1>3, <2>2, EffectOn
        <5>2. CASE Wanted(snap) \cap Servers = {}
          <6>1. c.op = "ResetDns"
            BY <3>1, <5>2, LastDnsIs, Fields
          <6> QED
            BY <5>1, <5>2, <6>1
        <5>3. CASE Wanted(snap) \cap Servers # {}
          <6>1. c.op = "SetDns" /\ c.arg = Wanted(snap) \cap Servers
            <7> DEFINE d == Wanted(snap) \cap Servers
            <7>1. c = Cmd("SetDns", d)
              BY <3>1, <5>3, LastDnsIs
            <7> HIDE DEF d
            <7>2. c.op = "SetDns" /\ c.arg = d
              BY <7>1, Fields
            <7> QED
              BY <7>2 DEF d
          <6> QED
            BY <5>1, <6>1
        <5> QED
          BY <5>2, <5>3
      <4> QED
        BY <1>2, <1>5, <4>1 DEF Delivered
    <3>2. CASE LastDns(snap) \in Range(Tail(script[p]))
      BY <1>2, <1>5, <3>2 DEF Delivered
    <3>3. CASE c.op \notin DnsOps /\ LastDns(snap) \notin Range(script[p])
      <4>1. nic' \cap Servers = nic \cap Servers
        BY <1>2, <1>3, <2>2, <3>3, EffectOn DEF DnsOps
      <4> QED
        BY <1>1, <1>2, <1>5, <3>3, <4>1 DEF Sound, Delivered
    <3> QED
      BY <2>2, <3>1, <3>2, <3>3
  <2> QED
    BY <1>1, <1>2, <1>5, <2>4, <2>5, <2>6, PhaseSame DEF Sound
<1> QED
  BY <1>1, <1>4, <1>5

(* A cmdlet that fails ends the script, but for one whose errors are       *)
(* ignored.                                                                *)
LEMMA StumbleSound ==
    ASSUME WInv, kills' = 0, NEW p \in Procs, Turn(p), Alive(p), Stumble(p)
    PROVE  Begun' /\ Sound(p)'
<1> DEFINE c == Head(script[p])
<1>1. Begun /\ Sound(p) /\ Busy(p) /\ script[p] # <<>> /\ phase[p] \in {"prepare", "apply", "restore"}
  BY Living DEF Alive, Busy
<1>2. /\ phase' = phase /\ snap' = snap /\ nic' = nic /\ seen' = seen /\ jobs' = jobs
      /\ script'[p] = IF Silent(c) THEN Tail(script[p]) ELSE <<>>
      /\ child'[p] = IF child[p] = "running" /\ ~Silent(c) THEN "error" ELSE child[p]
  BY DEF Stumble, WInv, IInv, Arrays, Tables
<1> HIDE DEF c
<1>3. Begun'
  BY <1>1, <1>2 DEF Begun
<1>4. CASE phase[p] \in {"prepare", "apply"}
  <2>1. script[p] \in Seq(DialCmds)
    BY <1>1, <1>4 DEF Sound, Written
  <2>2. Tail(script[p]) \in Seq(DialCmds) /\ <<>> \in Seq(DialCmds)
    BY <1>1, <2>1, HeadTail
  <2>3. Written(p)' /\ Delivered(p)'
    BY <1>1, <1>2, <1>4, <2>2 DEF Sound, Written, Delivered
  <2> QED
    BY <1>1, <1>2, <1>3, <1>4, <2>3, PhaseSame DEF Sound
<1>5. CASE phase[p] = "restore"
  <2>1. Restores(script[p], snap)
    BY <1>1, <1>5 DEF Sound, Written
  <2>2. /\ Restores(Tail(script[p]), snap) /\ Range(script[p]) = {c} \cup Range(Tail(script[p]))
    BY <1>1, <2>1, RestoresTail DEF c
  <2>3. Restores(script'[p], snap)
    BY <1>2, <2>2, EmptyRestores
  <2>4. Written(p)'
    BY <1>1, <1>2, <1>5, <2>3 DEF Sound, Written
  <2>5. Delivered(p)'
    <3>1. CASE Silent(c)
      <4>1. c # LastDns(snap)
        BY <3>1, LastDnsIs DEF Silent, DnsOps
      <4> QED
        BY <1>1, <1>2, <1>5, <2>2, <3>1, <4>1 DEF Sound, Delivered
    <3>2. CASE ~Silent(c)
      BY <1>2, <1>5, <3>2 DEF Delivered
    <3> QED
      BY <3>1, <3>2
  <2> QED
    BY <1>1, <1>2, <1>3, <1>5, <2>4, <2>5, PhaseSame DEF Sound
<1> QED
  BY <1>1, <1>4, <1>5

(* The restore of a snapshot begins with its whole script.                 *)
LEMMA RestoreEntered ==
    ASSUME WInv, NEW p \in Procs, snap # NoSnapshot, snap \subseteq Items,
           Enter(p, "restore", <<RestoreScript(snap)>>), ~Busy(p)', snap' = snap
    PROVE  Sound(p)'
<1> DEFINE s == snap
           r == RestoreScript(s)
           j == <<r>>
<1>1. phase'[p] = "restore" /\ jobs'[p] = j /\ child'[p] = "none"
  BY Entered DEF Busy
<1>2. Restores(r, s) /\ LastDns(s) \in Range(r) /\ r \in Seq(RestoreCmds(s))
  BY RestoreScriptShape DEF ModeCmds, Restores
<1> HIDE DEF r
<1>3. j \in Seq(Seq(RestoreCmds(s))) /\ \A i \in DOMAIN j : j[i] = r
  BY <1>2
<1> HIDE DEF j
<1>4. Written(p)'
  BY <1>1, <1>2, <1>3 DEF Written
<1>5. Delivered(p)'
  BY <1>1 DEF Delivered
<1> QED
  BY <1>1, <1>4, <1>5 DEF Sound, Journaled

(* An operation raises.                                                    *)
LEMMA RaiseSound ==
    ASSUME WInv, kills' = 0, NEW p \in Procs, Turn(p), Raise(p), ~Busy(p)',
           snap' = snap, nic' = nic, seen' = seen
    PROVE  Begun' /\ Sound(p)'
<1>1. Begun /\ Sound(p)
  BY Living
<1>2. Begun'
  BY <1>1 DEF Begun
<1>3. CASE phase[p] \in {"prepare", "apply"}
  <2>1. snap # NoSnapshot /\ snap \subseteq Items
    BY <1>1, <1>3, WindowsAssumption DEF Sound, Journaled, Begun
  <2> QED
    BY <1>2, <1>3, <2>1, RestoreEntered DEF Raise
<1>4. CASE phase[p] \notin {"prepare", "apply"}
  <2>1. phase'[p] = "failed"
    BY <1>4, Entered DEF Raise
  <2> QED
    BY <1>2, <2>1 DEF Sound, Journaled, Written, Delivered
<1> QED
  BY <1>3, <1>4

(* A script has ended.                                                     *)
LEMMA ReturnSound ==
    ASSUME WInv, kills' = 0, NEW p \in Procs, Turn(p), Return(p)
    PROVE  Begun' /\ Sound(p)'
<1>1. Begun /\ Sound(p) /\ phase[p] \in {"prepare", "apply", "restore"}
  BY Living DEF Return, Busy
<1>2. /\ snap' = snap /\ nic' = nic /\ seen' = seen /\ child'[p] = "none" /\ ~Busy(p)'
      /\ child[p] = "running" /\ script[p] = <<>>
  BY Childless DEF Return
<1>3. Begun'
  BY <1>1, <1>2 DEF Begun
<1>4. CASE jobs[p] # <<>>
  <2>1. phase' = phase /\ jobs' = jobs
    BY <1>4 DEF Return
  <2>2. Written(p)' /\ Delivered(p)'
    BY <1>1, <1>2, <2>1 DEF Sound, Written, Delivered
  <2> QED
    BY <1>1, <1>2, <1>3, <2>1, <2>2, PhaseSame DEF Sound
<1>5. CASE jobs[p] = <<>> /\ phase[p] = "prepare"
  <2>1. phase'[p] = "apply" /\ jobs'[p] = ApplyScripts
    BY <1>5, Entered DEF Return
  <2>2. Written(p)' /\ Delivered(p)'
    BY <1>2, <2>1, ApplyScriptsShape DEF Written, Delivered
  <2> QED
    BY <1>1, <1>2, <1>3, <1>5, <2>1, <2>2 DEF Sound, Journaled
<1>6. CASE jobs[p] = <<>> /\ phase[p] = "apply"
  <2>1. phase'[p] = "bound"
    BY <1>6, Entered DEF Return
  <2> QED
    BY <1>1, <1>2, <1>3, <1>6, <2>1 DEF Sound, Journaled, Written, Delivered
<1>7. CASE jobs[p] = <<>> /\ phase[p] = "restore"
  <2>1. phase'[p] = "converge"
    BY <1>7, Entered DEF Return
  <2>2. nic \cap Servers = Wanted(snap) \cap Servers
    BY <1>1, <1>2, <1>7, EmptyRestores DEF Sound, Delivered
  <2> QED
    BY <1>1, <1>2, <1>3, <1>7, <2>1, <2>2 DEF Sound, Journaled, Written, Delivered
<1> QED
  BY <1>1, <1>4, <1>5, <1>6, <1>7

(* The snapshot is what the user's interface has.                          *)
LEMMA CaptureSound ==
    ASSUME WInv, kills' = 0, NEW p \in Procs, Turn(p), Capture(p)
    PROVE  Begun' /\ Sound(p)' /\ snap = NoSnapshot /\ snap' = nic /\ snap' # NoSnapshot
<1>1. Begun /\ Sound(p) /\ ~Busy(p) /\ phase[p] = "capture"
  BY Living DEF Capture
<1>2. snap = NoSnapshot /\ nic \in Originals /\ nic \subseteq Items /\ seen = nic \cap Servers
  BY <1>1, WindowsAssumption DEF Sound, Journaled, Begun
<1>3. snap' = nic /\ nic' = nic /\ nic # NoSnapshot /\ child' = child
  BY <1>2, WindowsAssumption DEF Capture
<1>4. phase'[p] = "prepare" /\ jobs'[p] = <<Clear>>
  BY Entered DEF Capture
<1>5. <<Clear>> \in Seq(Seq(DialCmds))
  <2>1. Clear \in Seq(DialCmds)
    BY ClearShape DEF DialCmds
  <2> QED
    BY <2>1
<1>6. Written(p)' /\ Delivered(p)'
  BY <1>1, <1>3, <1>4, <1>5 DEF Written, Delivered, Busy
<1> QED
  BY <1>2, <1>3, <1>4, <1>6 DEF Sound, Journaled, Begun

(* A restore begins, in the session that dialled or in a later process.    *)
LEMMA BeginSound ==
    ASSUME WInv, kills' = 0, NEW p \in Procs, Turn(p), BeginRestore(p)
    PROVE  Begun' /\ Sound(p)'
<1>1. Begun /\ Sound(p) /\ ~Busy(p) /\ phase[p] \in {"bound", "waiting"}
  BY Living DEF BeginRestore
<1>2. snap # NoSnapshot /\ snap \subseteq Items
  BY <1>1, WindowsAssumption DEF BeginRestore, Sound, Journaled, Begun
<1>3. Enter(p, "restore", <<RestoreScript(snap)>>) /\ ~Busy(p)' /\ snap' = snap
  BY <1>1 DEF BeginRestore, Busy
<1>4. Begun'
  BY <1>1 DEF Begun, BeginRestore
<1> QED
  BY <1>2, <1>3, <1>4, RestoreEntered

(* The verification, and the second delivery of the DNS servers.           *)
LEMMA ConvergeSound ==
    ASSUME WInv, kills' = 0, NEW p \in Procs, Turn(p), Converge(p)
    PROVE  Begun' /\ Sound(p)'
<1>1. /\ Begun /\ Sound(p) /\ ~Busy(p) /\ phase[p] = "converge" /\ snap # NoSnapshot
      /\ nic \cap Servers = Wanted(snap) \cap Servers
  <2>1. Begun /\ Sound(p) /\ ~Busy(p) /\ phase[p] = "converge"
    BY Living DEF Converge
  <2> QED
    BY <2>1 DEF Sound, Journaled, Delivered
<1>2. snap' = snap /\ nic' = nic /\ seen' = seen /\ ~Busy(p)' /\ child'[p] = "none"
  BY <1>1 DEF Converge, Busy
<1>3. Begun'
  BY <1>1, <1>2 DEF Begun
<1>4. CASE Raise(p)
  BY <1>2, <1>4, RaiseSound
<1>5. CASE Enter(p, "verified", <<>>)
  <2>1. phase'[p] = "verified"
    BY <1>5, Entered
  <2> QED
    BY <1>1, <1>2, <1>3, <2>1 DEF Sound, Journaled, Written, Delivered
<1>6. CASE Errors(snap) = {"servers"} /\ Enter(p, "restore", <<DnsScript(snap)>>)
  <2> DEFINE s == snap
             r == DnsScript(s)
             j == <<r>>
  <2>1. s \subseteq Items
    BY <1>1, WindowsAssumption DEF Begun
  <2>2. Wanted(s) \cap Servers # {}
    <3>1. "servers" \in SettingErrors(s) /\ "mode" \notin SettingErrors(s)
      BY <1>6 DEF Errors
    <3>2. s \cap Servers # {} /\ nic \cap Servers # {}
      BY <3>1 DEF SettingErrors
    <3> QED
      BY <1>1, <3>2
  <2>3. Restores(r, s) /\ LastDns(s) \in Range(r) /\ r \in Seq(RestoreCmds(s))
    BY <2>1, <2>2, DnsScriptShape DEF Restores
  <2>4. phase'[p] = "restore" /\ jobs'[p] = j
    BY <1>6, Entered
  <2> HIDE DEF r
  <2>5. j \in Seq(Seq(RestoreCmds(s))) /\ \A i \in DOMAIN j : j[i] = r
    BY <2>3
  <2> HIDE DEF j
  <2>6. Written(p)' /\ Delivered(p)'
    BY <1>2, <2>3, <2>4, <2>5 DEF Written, Delivered
  <2> QED
    BY <1>1, <1>2, <1>3, <2>4, <2>6 DEF Sound, Journaled
<1>7. CASE phase' = phase /\ jobs' = jobs
  <2>1. Written(p)' /\ Delivered(p)'
    BY <1>1, <1>2, <1>7 DEF Sound, Written, Delivered
  <2> QED
    BY <1>1, <1>2, <1>3, <1>7, <2>1, PhaseSame DEF Sound
<1> QED
  BY <1>4, <1>5, <1>6, <1>7 DEF Converge

(* A child that is told to stop goes on with its script.                   *)
LEMMA TimeoutSound ==
    ASSUME WInv, kills' = 0, NEW p \in Procs, Turn(p), Timeout(p)
    PROVE  Begun' /\ Sound(p)'
<1>1. Begun /\ Sound(p) /\ child[p] = "running"
      /\ phase[p] \in {"prepare", "apply", "restore"}
  BY Living DEF Timeout, Busy
<1>2. /\ phase' = phase /\ snap' = snap /\ nic' = nic /\ seen' = seen
      /\ script' = script /\ jobs' = jobs /\ child'[p] = "stopping"
  BY DEF Timeout, WInv, IInv, Arrays
<1>3. Begun'
  BY <1>1, <1>2 DEF Begun
<1>4. Written(p)' /\ Delivered(p)'
  BY <1>1, <1>2 DEF Sound, Written, Delivered, Busy
<1> QED
  BY <1>1, <1>2, <1>3, <1>4, PhaseSame DEF Sound

(* Every step keeps what holds as long as no process is killed.            *)
LEMMA SoundKeeps ==
    ASSUME WInv, NEW p \in Procs, Turn(p)
    PROVE  WInv'
<1>1. IInv'
  BY StepKeeps DEF WInv, Turn
<1>2. /\ Tables'
      /\ \A q \in Procs \ {p} : phase'[q] = phase[q]
  BY OneEntry
<1> SUFFICES ASSUME kills' = 0 PROVE Begun' /\ \A q \in Procs : Sound(q)'
  BY <1>1, <1>2 DEF WInv
<1>3. \A q \in Procs \ {p} : phase'[q] \in {"waiting", "failed"}
  BY <1>2, Living
<1>4. \A q \in Procs \ {p} : Sound(q)'
  BY <1>3 DEF Sound, Journaled, Written, Delivered
<1>5. Begun' /\ Sound(p)'
  <2>1. CASE Launch(p)
    BY <2>1, LaunchSound
  <2>2. CASE Run(p)
    BY <2>2, RunSound
  <2>3. CASE Refused(p) \/ Fail(p)
    BY <2>3, StumbleSound DEF Refused, Fail
  <2>4. CASE Return(p)
    BY <2>4, ReturnSound
  <2>5. CASE ReturnError(p) \/ Terminated(p)
    BY <2>5, RaiseSound, Childless DEF ReturnError, Terminated
  <2>6. CASE Capture(p)
    BY <2>6, CaptureSound
  <2>7. CASE CaptureFails(p)
    <3>1. ~Busy(p) /\ child' = child
      BY <2>7, Living DEF CaptureFails
    <3>2. ~Busy(p)'
      BY <3>1 DEF Busy
    <3> QED
      BY <2>7, <3>2, RaiseSound DEF CaptureFails
  <2>8. CASE BeginRestore(p)
    BY <2>8, BeginSound
  <2>9. CASE Converge(p)
    BY <2>9, ConvergeSound
  <2>10. CASE Timeout(p)
    BY <2>10, TimeoutSound
  <2> QED
    BY <2>1, <2>2, <2>3, <2>4, <2>5, <2>6, <2>7, <2>8, <2>9, <2>10, Living DEF Turn, Step
<1> QED
  BY <1>4, <1>5

LEMMA SoundAlways == Spec => []WInv
<1>1. WInv /\ [Next]_vars => WInv'
  <2> SUFFICES ASSUME WInv, [Next]_vars PROVE WInv'
    OBVIOUS
  <2>1. CASE Next
    BY <2>1, SoundKeeps DEF Next, Turn
  <2>2. CASE UNCHANGED vars
    <3>1. IInv'
      BY <2>2, Inductive DEF WInv
    <3>2. ASSUME NEW p \in Procs, Sound(p) PROVE Sound(p)'
      BY <2>2, <3>2 DEF vars, bounds, Sound, Journaled, Written, Delivered, Busy
    <3>3. (Begun => Begun') /\ Tables' /\ kills' = kills
      BY <2>2 DEF vars, bounds, WInv, Begun, Tables
    <3> QED
      BY <3>1, <3>2, <3>3 DEF WInv
  <2> QED
    BY <2>1, <2>2
<1> QED
  BY <1>1, SoundAtFirst, PTL DEF Spec

-----------------------------------------------------------------------------
(* A DHCP interface for which nothing but automatic settings is promised   *)
(* back: _restore_script gives it no address of its own, and no route to   *)
(* one of the program's hosts.                                             *)
DhcpAutomatic == \A o \in Originals : Dhcp \in o => o \cap (Addresses \cup AppRoutes) = {}

(* What the snapshot stands for as long as no restore is verified.         *)
LEMMA SavedIs ==
    ASSUME \A q \in Procs : phase[q] # "verified"
    PROVE  Saved = IF snap = NoSnapshot THEN NoSnapshot ELSE Compared(snap)
BY DEF Saved

(* When verify_restored finds no difference, what is compared is back.     *)
LEMMA VerifiedIsBack ==
    ASSUME DhcpAutomatic, Begun, snap # NoSnapshot, Errors(snap) = {},
           nic \cap Servers = Wanted(snap) \cap Servers
    PROVE  Compared(nic) = Compared(snap)
<1>1. snap \in Originals /\ snap \subseteq Items /\ nic \subseteq Items
  BY WindowsAssumption DEF Begun
<1>2. SettingErrors(snap) = {}
  BY DEF Errors
<1>3. /\ Dhcp \in snap <=> Dhcp \in nic
      /\ AppIp \notin nic \ snap
      /\ Dhcp \notin snap => snap \cap Addresses = nic \cap Addresses
      /\ snap \cap Servers = {} <=> nic \cap Servers = {}
      /\ snap \cap Metrics = nic \cap Metrics
  <2>1. /\ "dhcp" \notin SettingErrors(snap) /\ "app_ip" \notin SettingErrors(snap)
        /\ "addresses" \notin SettingErrors(snap) /\ "mode" \notin SettingErrors(snap)
        /\ "metric" \notin SettingErrors(snap)
    BY <1>2
  <2> QED
    BY <2>1 DEF SettingErrors
<1>4. (nic \cap AppRoutes) \ snap = {}
  <2>1. "app_routes" \notin Errors(snap)
    OBVIOUS
  <2> QED
    BY <2>1 DEF Errors
<1>5. Dhcp \notin snap => (snap \cap Routes) \ OnLink = (nic \cap Routes) \ OnLink
  <2>1. "routes" \notin Errors(snap)
    OBVIOUS
  <2> QED
    BY <1>2, <2>1 DEF Errors
<1>6. nic \cap Servers = snap \cap Servers
  BY <1>1, <1>3, WantedIs
<1>7. CASE Dhcp \in snap
  <2>1. snap \cap (Addresses \cup AppRoutes) = {} /\ nic \cap Addresses = {}
    BY <1>1, <1>3, <1>7 DEF DhcpAutomatic, Begun
  <2>2. /\ Compared(nic) = nic \ (Routes \ AppRoutes)
        /\ Compared(snap) = snap \ (Routes \ AppRoutes)
    BY <1>7 DEF Compared, Users
  <2> QED
    BY <1>1, <1>3, <1>4, <1>6, <1>7, <2>1, <2>2, WindowsAssumption DEF Items
<1>8. CASE Dhcp \notin snap
  <2>1. Compared(nic) = nic \ OnLink /\ Compared(snap) = snap \ OnLink
    BY <1>8 DEF Compared, Users
  <2> QED
    BY <1>1, <1>3, <1>5, <1>6, <1>8, <2>1, WindowsAssumption DEF Items
<1> QED
  BY <1>7, <1>8

LEMMA StepGuarded ==
    ASSUME DhcpAutomatic, WInv, NEW p \in Procs, Turn(p)
    PROVE  kills > 0 \/ Guard!GuardNext \/ UNCHANGED <<Compared(nic), Saved>>
<1> SUFFICES ASSUME kills = 0
             PROVE  Guard!GuardNext \/ UNCHANGED <<Compared(nic), Saved>>
  BY DEF WInv, Tables
<1>1. \A q \in Procs : phase'[q] = phase[q] \/ q = p
  BY OneEntry
<1>2. CASE Kill(p)
  <2>1. nic' = nic /\ snap' = snap /\ phase'[p] = "dead" /\ phase[p] # "verified"
    BY <1>2, Entered DEF Kill, Over
  <2> QED
    BY <1>1, <2>1 DEF Compared, Users, Saved
<1> SUFFICES ASSUME ~Kill(p)
             PROVE  Guard!GuardNext \/ UNCHANGED <<Compared(nic), Saved>>
  BY <1>2
<1>3. kills' = 0
  BY DEF Turn, Step, Launch, Run, Refused, Fail, Stumble, Return, ReturnError,
         Terminated, OrphanEnds, Capture, CaptureFails, BeginRestore, Converge, Timeout, bounds
<1>4. /\ Begun /\ Sound(p) /\ \A q \in Procs : phase[q] # "verified"
      /\ Saved = IF snap = NoSnapshot THEN NoSnapshot ELSE Compared(snap)
  <2>1. Begun /\ Sound(p) /\ \A q \in Procs : phase[q] # "verified"
    BY <1>3, Living
  <2> QED
    BY <2>1, SavedIs
<1>5. CASE Run(p)
  <2>1. snap # NoSnapshot /\ snap' = snap /\ phase' = phase
    BY <1>3, <1>4, <1>5, Living DEF Run, Alive, Busy, Sound, Journaled
  <2>2. Begun'
    BY <1>3, <1>5, RunSound
  <2>3. Compared(snap) \subseteq Items /\ Compared(nic') \subseteq Items
    BY <1>4, <2>1, <2>2, WindowsAssumption DEF Begun, Compared
  <2>4. Saved' = Saved /\ Saved # NoSnapshot /\ Compared(nic)' \in SUBSET Items
    BY <1>4, <2>1, <2>3, WindowsAssumption DEF Saved, Compared, Users
  <2> QED
    BY <2>4 DEF Guard!GuardNext, Guard!Change
<1>6. CASE Capture(p)
  <2>1. snap = NoSnapshot /\ snap' = nic /\ snap' # NoSnapshot /\ nic' = nic
    BY <1>3, <1>6, CaptureSound DEF Capture
  <2>2. phase'[p] = "prepare"
    BY <1>6, Entered DEF Capture
  <2>3. Saved = NoSnapshot /\ Compared(nic)' = Compared(nic) /\ Saved' = Compared(nic)
    BY <1>1, <1>4, <2>1, <2>2 DEF Saved, Compared, Users
  <2> QED
    BY <2>3 DEF Guard!GuardNext, Guard!Save
<1>7. CASE Converge(p) /\ Errors(snap) = {} /\ Enter(p, "verified", <<>>)
  <2>1. nic' = nic /\ snap' = snap /\ phase'[p] = "verified"
    BY <1>7, Entered DEF Converge
  <2>2. snap # NoSnapshot /\ nic \cap Servers = Wanted(snap) \cap Servers
    BY <1>4, <1>7 DEF Converge, Sound, Journaled, Delivered
  <2>3. Saved = Compared(nic)
    BY <1>4, <1>7, <2>2, VerifiedIsBack
  <2>4. Saved' = NoSnapshot /\ Compared(nic)' = Compared(nic)
    BY <2>1 DEF Saved, Compared, Users
  <2> QED
    BY <2>3, <2>4 DEF Guard!GuardNext, Guard!Forget
<1>8. CASE nic' = nic /\ snap' = snap /\ (phase' = phase \/ phase'[p] # "verified")
  BY <1>1, <1>4, <1>8 DEF Saved, Compared, Users
<1>9. CASE Converge(p) /\ ~(Errors(snap) = {} /\ Enter(p, "verified", <<>>))
  <2>1. nic' = nic /\ snap' = snap
    BY <1>9 DEF Converge
  <2>2. phase' = phase \/ \E ph \in {"failed", "restore"} : \E s : Enter(p, ph, s)
    BY <1>9 DEF Converge, Raise
  <2> QED
    BY <1>8, <2>1, <2>2, Entered
<1>10. CASE \/ Launch(p) \/ Refused(p) \/ Fail(p) \/ Return(p) \/ ReturnError(p) \/ Terminated(p)
            \/ CaptureFails(p) \/ BeginRestore(p) \/ Timeout(p) \/ OrphanEnds(p)
  <2>1. nic' = nic /\ snap' = snap
    BY <1>10 DEF Launch, Refused, Fail, Stumble, Return, ReturnError, Terminated, CaptureFails,
                 BeginRestore, Timeout, OrphanEnds
  <2>2. phase' = phase \/ \E ph \in {"apply", "bound", "converge", "failed", "restore"} : \E s : Enter(p, ph, s)
    BY <1>10 DEF Launch, Refused, Fail, Stumble, Return, ReturnError, Terminated, CaptureFails,
                 BeginRestore, Timeout, OrphanEnds, Raise
  <2> QED
    BY <1>8, <2>1, <2>2, Entered
<1> QED
  BY <1>5, <1>6, <1>7, <1>9, <1>10 DEF Turn, Step

(* As long as no process is killed, the scripts and the verification keep  *)
(* the promise of SnapshotGuard for every setting verify_restored          *)
(* compares, whatever fails: the interface changes only while a snapshot   *)
(* is saved, and that snapshot is given up only when the settings are back.*)
THEOREM SettingsGuarded == ASSUME DhcpAutomatic PROVE Spec => Guarded
<1>1. WInv /\ [Next]_vars => [kills > 0 \/ Guard!GuardNext]_<<Compared(nic), Saved>>
  <2> SUFFICES ASSUME WInv, [Next]_vars
               PROVE  kills > 0 \/ Guard!GuardNext \/ UNCHANGED <<Compared(nic), Saved>>
    OBVIOUS
  <2>1. CASE Next
    BY <2>1, StepGuarded DEF Next, Turn
  <2>2. CASE UNCHANGED vars
    BY <2>2 DEF vars, Compared, Users, Saved
  <2> QED
    BY <2>1, <2>2
<1> QED
  BY <1>1, SoundAlways, PTL DEF Spec, Guarded

-----------------------------------------------------------------------------
(* The interfaces a restore puts back completely, as far as                *)
(* verify_restored looks: one with DHCP has automatic DNS, and there is    *)
(* one metric.                                                             *)
Restorable ==
    \A o \in Originals :
        /\ Dhcp \in o => o \cap Servers = {}
        /\ \A m, n \in o \cap Metrics : m = n

(* The script of a restore has everything still to do.                     *)
LEMMA ReachedAtFirst ==
    ASSUME NEW s, s \subseteq Items, NEW n
    PROVE  Reached(n, s, Range(RestoreScript(s)))
<1> DEFINE R == Range(RestoreScript(s))
<1>1. R = ClearCmds \cup ModeCmds(s) \cup MetricCmds(s)
  BY RestoreScriptShape
<1>2. MetricCmds(s) # {}
  BY DEF MetricCmds
<1> HIDE DEF R
<1>3. ReachedOf(Addresses, "RemoveAddresses", "AddAddress", n, s, R)
  BY <1>1 DEF ReachedOf, ClearCmds, ClearOps, ModeCmds
<1>4. ReachedOf(Routes, "RemoveRoutes", "TryRoute", n, s, R)
  BY <1>1 DEF ReachedOf, ClearCmds, ClearOps, ModeCmds
<1>5. Cmdlet("DhcpOff") \in R /\ (Dhcp \in s => Cmdlet("DhcpOn") \in R)
  BY <1>1 DEF ClearCmds, ClearOps, ModeCmds
<1>6. MetricCmds(s) \cap R # {}
  BY <1>1, <1>2
<1> QED
  BY <1>3, <1>4, <1>5, <1>6 DEF Reached, R

(* What is left when only the DNS servers are delivered again.             *)
LEMMA ReachedDns ==
    ASSUME NEW s, NEW n, Reached(n, s, {}), NEW R, R = {Cmdlet("ResetDns"), LastDns(s)}
    PROVE  Reached(n, s, R)
<1>1. \A c \in R : c.op \in DnsOps
  BY LastDnsIs, Fields DEF DnsOps
<1>2. /\ Cmdlet("RemoveAddresses") \notin R /\ Cmdlet("RemoveRoutes") \notin R
      /\ Cmdlet("DhcpOff") \notin R /\ Cmdlet("DhcpOn") \notin R
  BY <1>1, Fields DEF DnsOps
<1>3. \A x : Cmd("AddAddress", x) \notin R /\ Cmd("TryRoute", x) \notin R
  BY <1>1, Fields DEF DnsOps
<1>4. n \cap Metrics = s \cap Metrics
  BY DEF Reached
<1>5. ReachedOf(Addresses, "RemoveAddresses", "AddAddress", n, s, R)
  BY <1>2, <1>3 DEF Reached, ReachedOf
<1>6. ReachedOf(Routes, "RemoveRoutes", "TryRoute", n, s, R)
  BY <1>2, <1>3 DEF Reached, ReachedOf
<1> QED
  BY <1>2, <1>4, <1>5, <1>6 DEF Reached

(* One cmdlet, one kind of setting that is cleared and set.                *)
LEMMA ReachedOfRun ==
    ASSUME NEW s, NEW n, NEW m, NEW R, NEW c, c \notin R, NEW kind, NEW remove, NEW add,
           remove # add, ReachedOf(kind, remove, add, n, s, {c} \cup R),
           c.op = remove => c = Cmdlet(remove),
           c.op = add => c.arg \in Wanted(s) \cap kind /\ c = Cmd(add, c.arg)
                         /\ Cmdlet(remove) \notin R,
           m \cap kind = IF c.op = remove THEN {}
                         ELSE (n \cap kind) \cup {x \in {c.arg} : c.op = add}
    PROVE  ReachedOf(kind, remove, add, m, s, R)
<1> DEFINE W == Wanted(s) \cap kind
           T == {c} \cup R
<1>1. CASE c.op = remove
  <2>1. Cmdlet(remove) \in T /\ Cmdlet(remove) \notin R
    BY <1>1
  <2>2. \A x \in W : Cmd(add, x) \in R
    <3>1. \A x \in W : Cmd(add, x) \in T
      BY <2>1 DEF ReachedOf
    <3>2. \A x \in W : Cmd(add, x) # c
      BY <1>1, Fields
    <3> QED
      BY <3>1, <3>2
  <2> QED
    BY <1>1, <2>1, <2>2 DEF ReachedOf
<1>2. CASE c.op = add
  <2>1. Cmdlet(remove) # c
    BY <1>2, Fields
  <2>2. Cmdlet(remove) \notin T
    BY <1>2, <2>1
  <2>3. n \cap kind = {x \in W : Cmd(add, x) \notin T}
    BY <2>2 DEF ReachedOf
  <2>4. \A x : x = c.arg <=> Cmd(add, x) = c
    BY <1>2, Fields
  <2>5. m \cap kind = (n \cap kind) \cup {c.arg} /\ c.arg \in W
    BY <1>2
  <2>6. m \cap kind = {x \in W : Cmd(add, x) \notin R}
    BY <2>3, <2>4, <2>5
  <2> QED
    BY <2>2, <2>6 DEF ReachedOf
<1>3. CASE c.op # remove /\ c.op # add
  <2>1. \A x : Cmd(add, x) # c /\ Cmdlet(remove) # c
    BY <1>3, Fields
  <2>2. m \cap kind = n \cap kind
    BY <1>3
  <2>3. /\ Cmdlet(remove) \in T <=> Cmdlet(remove) \in R
        /\ \A x : Cmd(add, x) \in T <=> Cmd(add, x) \in R
    BY <2>1
  <2> HIDE DEF W, T
  <2>4. ReachedOf(kind, remove, add, n, s, T)
    BY DEF T
  <2> QED
    BY <2>2, <2>3, <2>4 DEF ReachedOf
<1> QED
  BY <1>1, <1>2, <1>3

(* The next cmdlet of a restore takes it one further.                      *)
LEMMA ReachedRun ==
    ASSUME NEW s, s \subseteq Items, nic \subseteq Items, \A m, n \in s \cap Metrics : m = n,
           NEW q, Restores(q, s), q # <<>>, Reached(nic, s, Range(q))
    PROVE  Reached(Effect(Head(q)), s, Range(Tail(q)))
<1> DEFINE c == Head(q)
           R == Range(Tail(q))
           e == Effect(c)
<1>1. /\ c \in RestoreCmds(s) /\ c \notin R /\ Range(q) = {c} \cup R
      /\ c.op \notin ClearOps => \A d \in R : d.op \notin ClearOps
  BY RestoresTail
<1> HIDE DEF c, R
<1>2. /\ c.op = "AddAddress" => c.arg \in Wanted(s) \cap Addresses /\ c = Cmd("AddAddress", c.arg)
      /\ c.op \in {"AddRoute", "TryRoute"} =>
            c.arg \in Wanted(s) \cap Routes /\ c = Cmd("TryRoute", c.arg)
      /\ c.op = "SetMetric" => c.arg \in s \cap Metrics
      /\ c.op \in ClearOps \cup {"DhcpOn", "AutoMetric"} => c = Cmdlet(c.op)
      /\ c.op = "AutoMetric" => s \cap Metrics = {}
      /\ c.op = "DhcpOn" => Dhcp \in s
  BY <1>1, AddsWanted DEF ClearOps
<1>3. c.op # "AddRoute"
  BY <1>2, Fields
<1>4. \A op \in ClearOps : c.op \notin ClearOps => Cmdlet(op) \notin R
  BY <1>1, Fields
<1>5. /\ e \cap Addresses =
            IF c.op = "RemoveAddresses" THEN {}
            ELSE (nic \cap Addresses) \cup {x \in {c.arg} : c.op = "AddAddress"}
      /\ e \cap Routes =
            IF c.op = "RemoveRoutes" THEN {}
            ELSE (nic \cap Routes) \cup {x \in {c.arg} : c.op = "TryRoute"}
      /\ e \cap Metrics =
            CASE c.op = "AutoMetric" -> {} [] c.op = "SetMetric" -> {c.arg}
              [] OTHER -> nic \cap Metrics
      /\ Dhcp \in e <=> c.op = "DhcpOn" \/ (Dhcp \in nic /\ c.op # "DhcpOff")
  BY <1>1, <1>3, EffectOn
<1> HIDE DEF e
<1>6. ReachedOf(Addresses, "RemoveAddresses", "AddAddress", e, s, R)
  <2>1. ReachedOf(Addresses, "RemoveAddresses", "AddAddress", nic, s, {c} \cup R)
    BY <1>1 DEF Reached
  <2> QED
    BY <1>1, <1>2, <1>4, <1>5, <2>1, ReachedOfRun DEF ClearOps
<1>7. ReachedOf(Routes, "RemoveRoutes", "TryRoute", e, s, R)
  <2>1. ReachedOf(Routes, "RemoveRoutes", "TryRoute", nic, s, {c} \cup R)
    BY <1>1 DEF Reached
  <2> QED
    BY <1>1, <1>2, <1>4, <1>5, <2>1, ReachedOfRun DEF ClearOps
<1>8. IF Cmdlet("DhcpOff") \in R
      THEN Dhcp \in s => Cmdlet("DhcpOn") \in R
      ELSE Dhcp \in e <=> Dhcp \in s /\ Cmdlet("DhcpOn") \notin R
  <2>0. IF Cmdlet("DhcpOff") \in {c} \cup R
        THEN Dhcp \in s => Cmdlet("DhcpOn") \in {c} \cup R
        ELSE Dhcp \in nic <=> Dhcp \in s /\ Cmdlet("DhcpOn") \notin {c} \cup R
    BY <1>1 DEF Reached
  <2>1. CASE c.op = "DhcpOff"
    <3>1. c = Cmdlet("DhcpOff") /\ c # Cmdlet("DhcpOn") /\ Dhcp \notin e
      BY <1>2, <1>5, <2>1, Fields DEF ClearOps
    <3> QED
      BY <1>1, <2>0, <3>1
  <2>2. CASE c.op = "DhcpOn"
    <3>1. c = Cmdlet("DhcpOn") /\ Dhcp \in e /\ Dhcp \in s /\ Cmdlet("DhcpOff") \notin R
      BY <1>2, <1>4, <1>5, <2>2 DEF ClearOps
    <3> QED
      BY <1>1, <2>0, <3>1
  <2>3. CASE c.op # "DhcpOff" /\ c.op # "DhcpOn"
    <3>1. c # Cmdlet("DhcpOff") /\ c # Cmdlet("DhcpOn") /\ (Dhcp \in e <=> Dhcp \in nic)
      BY <1>5, <2>3, Fields
    <3> QED
      BY <2>0, <3>1
  <2> QED
    BY <2>1, <2>2, <2>3
<1>9. MetricCmds(s) \cap R # {} \/ e \cap Metrics = s \cap Metrics
  <2>1. CASE c.op = "AutoMetric"
    BY <1>2, <1>5, <2>1
  <2>2. CASE c.op = "SetMetric"
    <3>1. e \cap Metrics = {c.arg} /\ c.arg \in s \cap Metrics
      BY <1>2, <1>5, <2>2
    <3> QED
      BY <3>1
  <2>3. CASE c.op # "AutoMetric" /\ c.op # "SetMetric"
    <3>1. c \notin MetricCmds(s) /\ e \cap Metrics = nic \cap Metrics
      BY <1>5, <2>3, Fields DEF MetricCmds
    <3>2. MetricCmds(s) \cap ({c} \cup R) # {} \/ nic \cap Metrics = s \cap Metrics
      BY <1>1 DEF Reached
    <3> QED
      BY <3>1, <3>2
  <2> QED
    BY <2>1, <2>2, <2>3
<1> QED
  BY <1>6, <1>7, <1>8, <1>9 DEF Reached, c, R, e

(* The next cmdlet of a restore is not refused.                            *)
LEMMA NotRefused ==
    ASSUME NEW s, s \subseteq Items, NEW q, Restores(q, s), q # <<>>, Reached(nic, s, Range(q))
    PROVE  ~Exists(Head(q))
<1> DEFINE c == Head(q)
           R == Range(q)
<1>1. /\ c \in RestoreCmds(s) /\ c \in R
      /\ c.op \notin ClearOps => \A d \in R : d.op \notin ClearOps
  <2> DEFINE T == Range(Tail(q))
  <2>1. /\ c \in RestoreCmds(s) /\ R = {c} \cup T
        /\ c.op \notin ClearOps => \A d \in T : d.op \notin ClearOps
    BY RestoresTail
  <2> HIDE DEF c, R, T
  <2> QED
    BY <2>1
<1> HIDE DEF c, R
<1>2. ASSUME c.op = "AddAddress" PROVE c.arg \notin nic
  <2>1. c.arg \in Wanted(s) \cap Addresses /\ c = Cmd("AddAddress", c.arg)
    BY <1>1, <1>2, AddsWanted
  <2>2. Cmdlet("RemoveAddresses") \notin R
    BY <1>1, <1>2, Fields DEF ClearOps
  <2> QED
    BY <1>1, <2>1, <2>2 DEF Reached, ReachedOf, R
<1>3. ASSUME c.op \in {"AddRoute", "TryRoute"} PROVE c.arg \notin nic
  <2>1. c.arg \in Wanted(s) \cap Routes /\ c = Cmd("TryRoute", c.arg)
    BY <1>1, <1>3, AddsWanted
  <2>2. Cmdlet("RemoveRoutes") \notin R
    BY <1>1, <1>3, Fields DEF ClearOps
  <2> QED
    BY <1>1, <2>1, <2>2 DEF Reached, ReachedOf, R
<1> QED
  BY <1>2, <1>3 DEF Exists, c

(* A restore that has run completely leaves at most a difference in what   *)
(* Get-DnsClientServerAddress reports.                                     *)
LEMMA ReachedVerifies ==
    ASSUME Restorable, snap \in Originals, nic \subseteq Items, Reached(nic, snap, {}),
           nic \cap Servers = snap \cap Servers
    PROVE  Errors(snap) \subseteq {"servers"} /\ ("servers" \in Errors(snap) => seen # snap \cap Servers)
<1>1. snap \subseteq Items
  BY WindowsAssumption
<1>2. /\ nic \cap Addresses = Wanted(snap) \cap Addresses
      /\ nic \cap Routes = Wanted(snap) \cap Routes
      /\ Dhcp \in nic <=> Dhcp \in snap
      /\ nic \cap Metrics = snap \cap Metrics
  BY DEF Reached, ReachedOf
<1>3. SettingErrors(snap) \subseteq {"servers"}
  <2>1. AppIp \notin nic \ snap
    BY <1>1, <1>2, WantedIs, WindowsAssumption
  <2>2. Dhcp \notin snap => snap \cap Addresses = nic \cap Addresses
    BY <1>1, <1>2, WantedIs
  <2> QED
    BY <1>2, <2>1, <2>2 DEF SettingErrors
<1>4. Dhcp \notin snap => (snap \cap Routes) \ OnLink = (nic \cap Routes) \ OnLink
  BY <1>1, <1>2, WantedIs
<1>5. (nic \cap AppRoutes) \ snap = {}
  BY <1>1, <1>2, WantedIs, WindowsAssumption
<1>6. "servers" \in Errors(snap) => seen # snap \cap Servers
  BY DEF Errors, SettingErrors
<1> QED
  BY <1>3, <1>4, <1>5, <1>6 DEF Errors

(* A sequence of one script.                                               *)
LEMMA OnlyOne ==
    ASSUME NEW S, NEW j \in Seq(S), Len(j) = 1
    PROVE  Head(j) = j[1] /\ Tail(j) = <<>>
<1>1. j # <<>> /\ Head(j) = j[1]
  OBVIOUS
<1>2. Tail(j) \in Seq(S) /\ Len(Tail(j)) = Len(j) - 1
  BY <1>1
<1>3. \A t \in Seq(S) : Len(t) = 0 => t = <<>>
  OBVIOUS
<1>4. Len(Tail(j)) = 0
  BY <1>2
<1> QED
  BY <1>1, <1>2, <1>3, <1>4

(* Process 1 dials: it never waits.                                        *)
LEMMA FirstDials ==
    ASSUME WInv, phase[1] # "waiting", NEW p \in Procs, Turn(p)
    PROVE  phase'[1] # "waiting"
<1>1. phase \in [Procs -> Phases] /\ 1 \in Procs
  BY WindowsAssumption DEF WInv, IInv, Arrays, Procs
<1>2. phase' = phase \/ \E ph \in Phases \ {"waiting"} : phase' = [phase EXCEPT ![p] = ph]
  BY DEF Turn, Step, Launch, Run, Refused, Fail, Stumble, Return, ReturnError, Terminated, OrphanEnds,
         Capture, CaptureFails, BeginRestore, Converge, Timeout, Kill, Raise, Enter, Phases, Over
<1> QED
  BY <1>1, <1>2

(* What a restore without failures is entered with.                        *)
LEMMA RestoreSucceeds ==
    ASSUME WInv, NEW p \in Procs, snap \subseteq Items, snap' = snap, ~Busy(p)',
           Enter(p, "restore", <<RestoreScript(snap)>>),
           budget' = Rounds /\ redelivered' = FALSE, Rounds > 0
    PROVE  Succeeding(p)'
<1> DEFINE r == RestoreScript(snap)
           j == <<r>>
<1>1. phase'[p] = "restore" /\ jobs'[p] = j /\ child'[p] = "none"
  BY Entered DEF Busy
<1>2. LastDns(snap) \in Range(r)
  BY RestoreScriptShape DEF ModeCmds
<1> HIDE DEF r
<1>3. Len(j) = 1 /\ j[1] = r
  OBVIOUS
<1> HIDE DEF j
<1>4. Reached(nic', snap', Range(r))
  BY ReachedAtFirst DEF r
<1>5. Underway(Range(jobs[p][1]))'
  BY <1>1, <1>2, <1>3, <1>4 DEF Underway
<1> QED
  BY <1>1, <1>3, <1>5 DEF Succeeding

(* A cmdlet of a restore without failures.                                 *)
LEMMA RunSucceeds ==
    ASSUME Restorable, WInv, Smooth', NEW p \in Procs, Turn(p), Run(p), phase[p] = "restore",
           Succeeding(p)
    PROVE  Succeeding(p)'
<1> DEFINE q == script[p]
           c == Head(q)
           R == Range(Tail(q))
<1>1. /\ Begun /\ Sound(p) /\ q # <<>> /\ snap # NoSnapshot /\ desyncs \in Nat /\ desyncs' <= 1
      /\ child[p] = "running" /\ jobs[p] = <<>> /\ Underway(Range(q))
      /\ budget > 0 /\ (redelivered => desyncs = 1)
  <2>1. Begun /\ Sound(p) /\ q # <<>> /\ desyncs \in Nat /\ desyncs' <= 1 /\ child[p] # "none"
    BY Living DEF Run, Alive, WInv, Tables, Smooth
  <2> QED
    BY <2>1 DEF Succeeding, Sound, Journaled
<1>2. /\ snap \in Originals /\ snap \subseteq Items /\ nic \subseteq Items /\ Restores(q, snap)
      /\ \A m, n \in snap \cap Metrics : m = n
      /\ Wanted(snap) \cap Servers = snap \cap Servers
  <2>1. snap \in Originals /\ snap \subseteq Items /\ nic \subseteq Items /\ Restores(q, snap)
    BY <1>1, WindowsAssumption DEF Begun, Sound, Written, Busy
  <2> QED
    BY <2>1, WantedIs DEF Restorable
<1>3. /\ nic' = Effect(c) /\ script'[p] = Tail(q) /\ phase' = phase /\ jobs' = jobs /\ child' = child
      /\ snap' = snap /\ budget' = budget /\ redelivered' = redelivered
      /\ \/ /\ seen' = IF c.op \in DnsOps THEN nic' \cap Servers ELSE seen
            /\ desyncs' = desyncs
         \/ c.op = "SetDns" /\ desyncs' = desyncs + 1 /\ seen' = seen
  BY DEF Run, WInv, Tables, DnsOps
<1>4. Reached(nic', snap', R)
  BY <1>1, <1>2, <1>3, ReachedRun DEF Underway
<1>5. /\ c \in RestoreCmds(snap) /\ Range(q) = {c} \cup R /\ c \notin R
      /\ c.op \in DnsOps => c = LastDns(snap) \/ LastDns(snap) \in R
  BY <1>1, <1>2, RestoresTail
<1> HIDE DEF c, R
<1>6. \/ LastDns(snap) \in R
      \/ /\ nic' \cap Servers = snap \cap Servers
         /\ seen' = snap \cap Servers \/ (desyncs' = 1 /\ ~redelivered)
  <2>0. nic' \cap Servers =
            CASE c.op = "ResetDns" -> {} [] c.op = "SetDns" -> c.arg [] OTHER -> nic \cap Servers
    BY <1>2, <1>3, <1>5, EffectOn
  <2>1. CASE c = LastDns(snap)
    <3> DEFINE d == snap \cap Servers
    <3>1. c.op \in DnsOps
      BY <2>1, LastDnsIs
    <3>2. nic' \cap Servers = d
      <4>1. CASE d = {}
        <5>1. c.op = "ResetDns"
          BY <1>2, <2>1, <4>1, LastDnsIs, Fields
        <5> QED
          BY <2>0, <4>1, <5>1
      <4>2. CASE d # {}
        <5>1. c = Cmd("SetDns", d)
          BY <1>2, <2>1, <4>2, LastDnsIs
        <5> HIDE DEF d
        <5>2. c.op = "SetDns" /\ c.arg = d
          BY <5>1, Fields
        <5> QED
          BY <2>0, <5>2
      <4> QED
        BY <4>1, <4>2
    <3>3. CASE seen' = nic' \cap Servers
      BY <3>2, <3>3
    <3>4. CASE desyncs' = desyncs + 1
      <4>1. desyncs = 0 /\ desyncs' = 1
        BY <1>1, <3>4
      <4>2. ~redelivered
        BY <1>1, <4>1
      <4> QED
        BY <3>2, <4>1, <4>2
    <3> QED
      BY <1>3, <3>1, <3>3, <3>4
  <2>2. CASE c.op \notin DnsOps /\ LastDns(snap) \notin R
    <3>1. nic' \cap Servers = nic \cap Servers /\ seen' = seen /\ desyncs' = desyncs
      BY <1>3, <2>0, <2>2 DEF DnsOps
    <3>2. LastDns(snap) \notin Range(q)
      BY <1>5, <2>2, LastDnsIs
    <3> QED
      BY <1>1, <3>1, <3>2 DEF Underway
  <2> QED
    BY <1>5, <2>1, <2>2
<1>7. Underway(Range(script[p]))'
  BY <1>3, <1>4, <1>6 DEF Underway, R
<1>8. redelivered' => desyncs' = 1
  BY <1>1, <1>3
<1> QED
  BY <1>1, <1>3, <1>7, <1>8 DEF Succeeding

(* The verification after a restore without failures.                      *)
LEMMA ConvergeSucceeds ==
    ASSUME Restorable, WInv, Smooth', NEW p \in Procs, Turn(p), Converge(p), Succeeding(p)
    PROVE  Succeeding(p)'
<1>1. /\ Begun /\ Sound(p) /\ ~Busy(p) /\ phase[p] = "converge" /\ snap # NoSnapshot
      /\ budget > 0 /\ (redelivered => desyncs = 1) /\ Underway({})
  <2>1. Begun /\ Sound(p) /\ ~Busy(p) /\ phase[p] = "converge"
    BY Living DEF Converge, Smooth
  <2> QED
    BY <2>1 DEF Sound, Journaled, Succeeding
<1>2. /\ snap' = snap /\ nic' = nic /\ seen' = seen /\ desyncs' = desyncs /\ child'[p] = "none"
  BY <1>1 DEF Converge, Busy, bounds
<1>3. /\ snap \in Originals /\ snap \subseteq Items /\ nic \subseteq Items
      /\ Reached(nic, snap, {}) /\ nic \cap Servers = snap \cap Servers
      /\ seen = snap \cap Servers \/ (desyncs = 1 /\ ~redelivered)
  BY <1>1, WindowsAssumption DEF Begun, Underway
<1>4. /\ Errors(snap) \subseteq {"servers"}
      /\ "servers" \in Errors(snap) => seen # snap \cap Servers
  BY <1>3, ReachedVerifies
<1>5. CASE Errors(snap) = {}
  <2>1. Enter(p, "verified", <<>>)
    BY <1>1, <1>5 DEF Converge
  <2>2. phase'[p] = "verified"
    BY <2>1, Entered
  <2> QED
    BY <1>2, <2>2 DEF Succeeding
<1>6. CASE Errors(snap) = {"servers"}
  <2> DEFINE r == DnsScript(snap)
             j == <<r>>
  <2>1. ~redelivered /\ desyncs = 1
    BY <1>3, <1>4, <1>6
  <2>2. Enter(p, "restore", j) /\ redelivered' = TRUE /\ budget' = budget
    BY <1>1, <1>6, <2>1 DEF Converge
  <2>3. Wanted(snap) \cap Servers # {}
    <3>1. "servers" \in SettingErrors(snap)
      BY <1>6 DEF Errors
    <3>2. snap \cap Servers # {}
      BY <3>1 DEF SettingErrors
    <3> QED
      BY <1>1, <1>3, <3>2 DEF Sound, Delivered
  <2>4. Range(r) = {Cmdlet("ResetDns"), LastDns(snap)}
    BY <1>3, <2>3, DnsScriptShape
  <2>5. phase'[p] = "restore" /\ jobs'[p] = j
    BY <2>2, Entered
  <2> HIDE DEF r
  <2>6. Len(j) = 1 /\ j[1] = r
    OBVIOUS
  <2> HIDE DEF j
  <2>7. Reached(nic, snap, Range(r))
    <3>1. PICK R : R = Range(r)
      OBVIOUS
    <3>2. Reached(nic, snap, {Cmdlet("ResetDns"), LastDns(snap)})
      BY <1>3, ReachedDns
    <3> QED
      BY <2>4, <3>2
  <2>8. Underway(Range(jobs[p][1]))'
    BY <1>2, <2>4, <2>5, <2>6, <2>7 DEF Underway
  <2>9. budget' > 0 /\ desyncs' = 1
    BY <1>1, <1>2, <2>1, <2>2
  <2> QED
    BY <1>2, <2>5, <2>6, <2>8, <2>9 DEF Succeeding
<1> QED
  BY <1>4, <1>5, <1>6

(* Every step of a process that nothing has disturbed.                     *)
LEMMA TurnSucceeds ==
    ASSUME Restorable, Rounds > 0, SInv, Smooth', NEW p \in Procs, Turn(p),
           \A q \in Procs : Succeeding(q)
    PROVE  Succeeding(p)'
<1>1. /\ WInv /\ kills = 0 /\ kills' = 0 /\ Begun /\ Sound(p) /\ Succeeding(p) /\ ~Kill(p) /\ ~OrphanEnds(p)
      /\ (Busy(p) => phase[p] \in {"prepare", "apply", "restore"})
  BY Living DEF SInv, Smooth
<1>2. phase \in [Procs -> Phases] /\ child \in [Procs -> {"none", "running", "error", "stopping"}]
  BY <1>1 DEF WInv, IInv, Arrays
<1>3. faults' # faults + 1
  BY <1>1 DEF Smooth, WInv, Tables
<1>4. phase[p] \in {"prepare", "apply", "restore"} => snap # NoSnapshot /\ snap \subseteq Items
  BY <1>1, WindowsAssumption DEF Sound, Journaled, Begun
<1>5. CASE Launch(p)
  <2>1. CASE phase[p] = "restore"
    <3>1. /\ budget > 0 /\ (redelivered => desyncs = 1)
          /\ Len(jobs[p]) = 1 /\ Underway(Range(jobs[p][1]))
      BY <1>1, <1>5, <2>1 DEF Launch, Succeeding
    <3>2. /\ phase' = phase /\ child'[p] = "running" /\ script'[p] = Head(jobs[p])
          /\ jobs'[p] = Tail(jobs[p]) /\ budget' = budget /\ redelivered' = redelivered
          /\ nic' = nic /\ seen' = seen /\ snap' = snap /\ desyncs' = desyncs
      BY <1>1, <1>2, <1>5, <2>1, <3>1 DEF Launch, WInv, Tables, bounds
    <3>3. Head(jobs[p]) = jobs[p][1] /\ Tail(jobs[p]) = <<>>
      <4> DEFINE S == Seq(RestoreCmds(snap))
                 j == jobs[p]
      <4>1. j \in Seq(S) /\ Len(j) = 1
        BY <1>1, <2>1, <3>1 DEF Sound, Written
      <4> HIDE DEF S, j
      <4>2. Head(j) = j[1] /\ Tail(j) = <<>>
        BY <4>1, OnlyOne
      <4> QED
        BY <4>2 DEF j
    <3>4. Underway(Range(script[p]))'
      BY <3>1, <3>2, <3>3 DEF Underway
    <3> QED
      BY <2>1, <3>1, <3>2, <3>3, <3>4 DEF Succeeding
  <2>2. CASE phase[p] \in {"prepare", "apply"}
    <3>1. phase' = phase /\ child'[p] = "running"
      BY <1>2, <1>5, <2>2 DEF Launch, Restoring
    <3> QED
      BY <2>2, <3>1 DEF Succeeding
  <2> QED
    BY <1>5, <2>1, <2>2 DEF Launch
<1>6. CASE Run(p)
  <2>1. phase' = phase /\ child' = child
    BY <1>6 DEF Run
  <2>2. CASE phase[p] = "restore"
    BY <1>1, <1>6, <2>2, RunSucceeds
  <2>3. CASE phase[p] \in {"prepare", "apply"}
    BY <1>1, <2>1, <2>3 DEF Succeeding
  <2> QED
    BY <1>1, <1>6, <2>2, <2>3 DEF Run, Alive, Busy
<1>7. CASE Refused(p)
  <2>1. script[p] # <<>> /\ Exists(Head(script[p])) /\ Busy(p)
    BY <1>7 DEF Refused, Alive, Busy
  <2>2. phase[p] # "restore"
    <3> SUFFICES ASSUME phase[p] = "restore" PROVE FALSE
      OBVIOUS
    <3>1. Restores(script[p], snap) /\ Underway(Range(script[p]))
      BY <1>1, <2>1 DEF Sound, Written, Succeeding, Busy
    <3> QED
      BY <1>4, <2>1, <3>1, NotRefused DEF Underway
  <2>3. phase' = phase /\ child'[p] \in {child[p], "error"}
    BY <1>2, <1>7 DEF Refused, Stumble
  <2>4. phase[p] \in {"prepare", "apply"}
    BY <1>1, <2>1, <2>2
  <2> QED
    BY <1>1, <2>3, <2>4 DEF Succeeding
<1>8. CASE Return(p)
  <2>1. /\ child[p] = "running" /\ child'[p] = "none" /\ Busy(p) /\ script[p] = <<>>
        /\ nic' = nic /\ seen' = seen /\ snap' = snap /\ desyncs' = desyncs
        /\ budget' = budget /\ redelivered' = redelivered
    BY <1>1, <1>8, Childless DEF Return, Busy, bounds
  <2>2. CASE phase[p] = "restore"
    <3>1. /\ jobs[p] = <<>> /\ Underway(Range(script[p]))
          /\ budget > 0 /\ (redelivered => desyncs = 1)
      BY <1>1, <2>1, <2>2 DEF Succeeding
    <3>2. Enter(p, "converge", <<>>)
      BY <1>8, <2>2, <3>1 DEF Return
    <3>3. phase'[p] = "converge"
      BY <1>1, <3>2, Entered
    <3>4. Underway({})
      BY <2>1, <3>1, EmptyRestores
    <3>5. Underway({})'
      BY <2>1, <3>4 DEF Underway
    <3> QED
      BY <2>1, <3>1, <3>3, <3>5 DEF Succeeding
  <2>3. CASE phase[p] \in {"prepare", "apply"}
    <3>1. phase' = phase \/ \E ph \in {"apply", "bound"} : \E s : Enter(p, ph, s)
      BY <1>8, <2>3 DEF Return
    <3>2. phase'[p] \in {"prepare", "apply", "bound"}
      BY <1>1, <2>3, <3>1, Entered
    <3> QED
      BY <2>1, <3>2 DEF Succeeding
  <2> QED
    BY <1>1, <2>1, <2>2, <2>3
<1>9. CASE ReturnError(p)
  <2>1. child[p] = "error" /\ Busy(p) /\ NoChild(p) /\ Raise(p) /\ snap' = snap
    BY <1>9 DEF ReturnError, Busy
  <2>2. phase[p] \in {"prepare", "apply"}
    BY <1>1, <2>1 DEF Succeeding
  <2>3. /\ Enter(p, "restore", <<RestoreScript(snap)>>)
        /\ budget' = Rounds /\ redelivered' = FALSE
    BY <2>1, <2>2 DEF Raise
  <2>4. ~Busy(p)'
    BY <1>1, <2>1, Childless
  <2> QED
    BY <1>1, <1>4, <2>1, <2>2, <2>3, <2>4, RestoreSucceeds
<1>10. CASE Capture(p)
  <2>1. phase'[p] = "prepare" /\ child' = child
    BY <1>1, <1>10, Entered DEF Capture
  <2> QED
    BY <1>1, <2>1 DEF Succeeding
<1>11. CASE BeginRestore(p)
  <2>1. phase[p] = "bound"
    <3> SUFFICES ASSUME phase[p] = "waiting", phase[p - 1] \in {"failed", "dead"} PROVE FALSE
      BY <1>11 DEF BeginRestore
    <3>1. p - 1 \in Procs
      BY WindowsAssumption DEF Procs, SInv
    <3> QED
      BY <1>1, <3>1 DEF Succeeding, WInv, Sound
  <2>2. snap # NoSnapshot /\ snap \subseteq Items
    BY <1>1, <2>1, WindowsAssumption DEF Sound, Journaled, Begun
  <2>3. ~Busy(p)' /\ snap' = snap
    BY <1>1, <1>11, <2>1 DEF BeginRestore, Busy
  <2>4. /\ Enter(p, "restore", <<RestoreScript(snap)>>)
        /\ budget' = Rounds /\ redelivered' = FALSE
    BY <1>11 DEF BeginRestore
  <2> QED
    BY <1>1, <2>2, <2>3, <2>4, RestoreSucceeds
<1>12. CASE Converge(p)
  BY <1>1, <1>12, ConvergeSucceeds
<1>13. ~Terminated(p) /\ ~Fail(p) /\ ~CaptureFails(p) /\ ~Timeout(p)
  BY <1>1, <1>3 DEF Terminated, Succeeding, Fail, CaptureFails, Timeout
<1> QED
  BY <1>1, <1>5, <1>6, <1>7, <1>8, <1>9, <1>10, <1>11, <1>12, <1>13 DEF Turn, Step

(* The disturbances are only counted up.                                   *)
LEMMA SmoothBefore ==
    ASSUME WInv, NEW p \in Procs, Turn(p), Smooth'
    PROVE  Smooth
<1>1. faults \in Nat /\ desyncs \in Nat /\ kills \in Nat
  BY DEF WInv, Tables
<1>2. /\ faults' \in {faults, faults + 1} /\ desyncs' \in {desyncs, desyncs + 1}
      /\ kills' \in {kills, kills + 1}
  BY DEF Turn, Step, Launch, Run, Refused, Fail, Stumble, Return, ReturnError, Terminated, OrphanEnds,
         Capture, CaptureFails, BeginRestore, Converge, Timeout, Kill, bounds
<1> QED
  BY <1>1, <1>2 DEF Smooth

LEMMA SucceedingAlways == ASSUME Restorable, Rounds > 0 PROVE Spec => []SInv
<1>1. Init => SInv
  <2> SUFFICES ASSUME Init PROVE SInv
    OBVIOUS
  <2>1. \A p \in Procs : phase[p] \in {"capture", "waiting"} /\ child[p] = "none"
    BY DEF Init
  <2>2. phase[1] = "capture"
    BY WindowsAssumption DEF Init, Procs
  <2> QED
    BY <2>1, <2>2, SoundAtFirst DEF SInv, Succeeding
<1>2. SInv /\ [Next]_vars /\ WInv' => SInv'
  <2> SUFFICES ASSUME SInv, [Next]_vars, WInv' PROVE SInv'
    OBVIOUS
  <2>1. CASE UNCHANGED vars
    <3>1. ASSUME NEW p \in Procs, Succeeding(p) PROVE Succeeding(p)'
      BY <2>1, <3>1 DEF vars, bounds, Succeeding, Underway
    <3>2. Smooth' <=> Smooth
      BY <2>1 DEF vars, bounds, Smooth
    <3>3. phase' = phase
      BY <2>1 DEF vars
    <3> QED
      BY <3>1, <3>2, <3>3 DEF SInv
  <2>2. ASSUME NEW p \in Procs, Turn(p) PROVE SInv'
    <3>1. phase'[1] # "waiting"
      BY <2>2, FirstDials DEF SInv
    <3> SUFFICES ASSUME Smooth', NEW q \in Procs PROVE Succeeding(q)'
      BY <3>1 DEF SInv
    <3>2. WInv /\ \A r \in Procs : Succeeding(r)
      BY <2>2, SmoothBefore DEF SInv
    <3>3. CASE q = p
      BY <2>2, <3>2, <3>3, TurnSucceeds
    <3>4. CASE q # p
      <4>1. phase[q] \in {"waiting", "failed"}
        BY <2>2, <3>2, <3>4, Living DEF Smooth
      <4>2. phase'[q] = phase[q] /\ child'[q] = child[q]
        BY <2>2, <3>2, <3>4, OneEntry
      <4> QED
        BY <3>2, <4>1, <4>2 DEF Succeeding
    <3> QED
      BY <3>3, <3>4
  <2> QED
    BY <2>1, <2>2 DEF Next, Turn
<1> QED
  BY <1>1, <1>2, SoundAlways, PTL DEF Spec

(* A restore of an interface the scripts can put back fails only when      *)
(* something went wrong that one more delivery of the DNS servers does not *)
(* repair: the order of the script, the verification and the loop around   *)
(* them meet nothing that they do not expect.                              *)
THEOREM FailureHasCause ==
    ASSUME Restorable, Rounds > 0
    PROVE  Spec => []FailsForCause
<1>1. SInv => FailsForCause
  <2> SUFFICES ASSUME SInv, NEW p \in Procs, phase[p] = "failed", ~(faults > 0 \/ desyncs > 1 \/ kills > 0)
               PROVE  FALSE
    BY DEF FailsForCause
  <2>1. Smooth
    BY DEF SInv, WInv, Tables, Smooth
  <2> QED
    BY <2>1 DEF SInv, Succeeding
<1> QED
  BY <1>1, SucceedingAlways, PTL
=============================================================================
