------------------------ MODULE NetworkBackendProofs ------------------------
(***************************************************************************)
(* The Linux and the macOS backend keep the promise of SnapshotGuard, for  *)
(* any hosts, settings, failures, kills and retries, where no query of     *)
(* networksetup fails without saying so.                                   *)
(***************************************************************************)
EXTENDS NetworkBackend, TLAPS

(* The snapshots that may be taken on a host.                              *)
Snapshots(h) == Captures(h, Start(h)) \cup Misreads(h, Start(h))

(* What verify_restored relies on though it does not look: no command      *)
(* takes the network manager away.                                         *)
ManagerStays(h, n) == OnLinux(h) => Start(h) \cap Linux!Managers \subseteq n

DriverInv ==
    /\ host \in Hosts
    /\ phase = "capture" => nic = Start(host) /\ snap = NoSnapshot
    /\ snap = NoSnapshot => phase \in {"capture", "failed", "dead"}
    /\ phase \notin {"prepare", "apply", "restore"} => todo = <<>>
    /\ snap # NoSnapshot => snap \in Snapshots(host)
    /\ orphans # <<>> => snap # NoSnapshot
    /\ ManagerStays(host, nic)

(* A snapshot has the settings that decide, even one that was taken for    *)
(* that of a host without a manager.                                       *)
LEMMA SnapshotDecides ==
    ASSUME NEW h \in Hosts, \A m \in MacosHosts : ~m.silent, NEW s \in Snapshots(h)
    PROVE  Compared(h, s) = Compared(h, Start(h)) /\ NoSnapshot \notin {s, Compared(h, s)}
<1>1. NoSnapshot \notin {s, Compared(h, s)}
    BY SnapshotAssumption DEF Snapshots
<1>2. CASE OnLinux(h)
  <2>1. s \in {Start(h), Start(h) \ {Local, Plain}, Start(h) \ Linux!Managers,
               (Start(h) \ {Local, Plain}) \ Linux!Managers}
    BY <1>2 DEF Snapshots, Captures, Misreads, Start, Linux!Captures, Linux!Misreads
  <2>2. {Local, Plain} \cup Linux!Managers \subseteq Linux!Undecided(h)
    BY DEF Linux!Undecided
  <2> QED
    BY <1>1, <1>2, <2>1, <2>2 DEF Compared, Linux!Compared
<1>3. CASE ~OnLinux(h)
  <2>1. h \in MacosHosts /\ ~h.silent
    BY <1>3 DEF Hosts, OnLinux
  <2>2. s = Start(h)
    BY <1>3, <2>1 DEF Snapshots, Captures, Misreads, Start, Macos!Captures, Macos!Misreads
  <2> QED
    BY <1>1, <2>2
<1> QED
    BY <1>2, <1>3

(* verify_restored of linux_network.py decides on what it compares.        *)
LEMMA LinuxVerifies ==
    ASSUME NEW h \in LinuxHosts, NEW s \in Linux!Captures(h, Linux!Start(h))
                                         \cup Linux!Misreads(h, Linux!Start(h)),
           NEW n, Linux!Start(h) \cap Linux!Managers \subseteq n, Linux!Errors(h, s, n) = {}
    PROVE  Linux!Compared(h, s) = Linux!Compared(h, n)
<1> DEFINE o == Linux!Start(h)
<1>c. Linux!ConstantsOK
    BY BackendAssumption
<1>1. /\ s \in {o, o \ {Local, Plain}, o \ Linux!Managers, (o \ {Local, Plain}) \ Linux!Managers}
      /\ s \notin {o, o \ {Local, Plain}} => Lease \notin o
    BY DEF Linux!Captures, Linux!Misreads
<1>2. Linux!Dynamic(s) <=> Linux!Dynamic(o)
    BY <1>c, <1>1 DEF Linux!Dynamic, Linux!ConstantsOK
<1>3. s \subseteq o
    BY <1>1
<1>4. Linux!Automatic(s) => Linux!Automatic(o)
    BY <1>3 DEF Linux!Automatic, Linux!Dynamic, Linux!Managed
<1>e. \A e \in {"app_ip", "addresses", "routes", "dns", "up"} : e \notin Linux!SettingErrors(h, s, n)
    BY DEF Linux!Errors
<1>f. /\ ~Linux!Dynamic(s) => s \cap Linux!AllAddresses = n \cap Linux!AllAddresses
      /\ ~Linux!Dynamic(s) => s \cap Linux!Routes = n \cap Linux!Routes
      /\ ~Linux!Automatic(s) => s \cap Resolvers = n \cap Resolvers
      /\ Up \in s <=> Up \in n
    BY <1>e DEF Linux!SettingErrors
<1>g. /\ s \cap Linux!Managers = n \cap Linux!Managers
      /\ s \cap {NetworkManager, Networkd} # {} =>
            s \cap {Active, Override} = n \cap {Active, Override}
      /\ Linux!Dynamic(s) => Lease \in n
      /\ (n \cap AppRoutes) \ s = {}
    BY DEF Linux!Errors
<1>h. o \cap {NetworkManager, Networkd} # {} => s \cap {NetworkManager, Networkd} # {}
    BY <1>g DEF Linux!Managers
<1> SUFFICES ASSUME NEW x \in Linux!Items \ Linux!Undecided(h) PROVE x \in s <=> x \in n
    BY DEF Linux!Compared
<1>5. CASE x \in Linux!Managers \cup {Local, Plain}
    BY <1>5 DEF Linux!Undecided
<1>6. CASE x \in {Active, Override}
    BY <1>6, <1>g, <1>h DEF Linux!Undecided
<1>7. CASE x = Up
    BY <1>7, <1>f
<1>8. CASE x \in Linux!AllAddresses
    BY <1>8, <1>2, <1>f, <1>g DEF Linux!Undecided, Linux!AllAddresses, Linux!Dynamic
<1>9. CASE x \in Linux!Routes
  <2>1. CASE Linux!Dynamic(o)
    BY <1>9, <1>3, <1>g, <2>1 DEF Linux!Undecided
  <2>2. CASE ~Linux!Dynamic(o)
    BY <1>9, <1>2, <1>f, <2>2
  <2> QED
    BY <2>1, <2>2
<1>10. CASE x \in Resolvers
    BY <1>10, <1>4, <1>f DEF Linux!Undecided
<1> QED
    BY <1>5, <1>6, <1>7, <1>8, <1>9, <1>10 DEF Linux!Items, Linux!AllRoutes

(* verify_restored of macos_network.py decides on what it compares.        *)
LEMMA MacosVerifies ==
    ASSUME NEW h, NEW n, Macos!Errors(h, Macos!Start(h), n) = {}
    PROVE  Macos!Compared(h, Macos!Start(h)) = Macos!Compared(h, n)
<1> DEFINE s == Macos!Start(h)
<1>1. /\ Enabled \in s <=> Enabled \in n
      /\ s \cap Macos!Settings = n \cap Macos!Settings
      /\ Dhcp \notin s => s \cap Macos!ServiceAddresses = n \cap Macos!ServiceAddresses
      /\ s \cap Resolvers = n \cap Resolvers
      /\ s \cap RouteLists = n \cap RouteLists
    BY DEF Macos!Errors
<1> QED
    BY <1>1 DEF Macos!Compared, Macos!Items

(* No command of linux_network.py takes the manager away.                  *)
LEMMA LinuxManagerStays ==
    ASSUME NEW h, NEW n, NEW c, NEW M \in SUBSET Linux!Managers, M \subseteq n
    PROVE  M \subseteq Linux!Effect(h, n, c)
<1>1. Linux!Managers \cap ({Active, Override, Up} \cup Linux!AllAddresses
                           \cup Linux!AllRoutes \cup Resolvers) = {}
    BY BackendAssumption DEF Linux!ConstantsOK
<1>2. \A k, d : M \subseteq k => M \subseteq Linux!SetDns(k, d)
    BY <1>1 DEF Linux!SetDns
<1>3. M \subseteq Linux!Activated(h, n)
  <2>1. M \subseteq (n \ (Linux!AllAddresses \cup Linux!AllRoutes)) \cup (h.profile \ Resolvers)
    BY <1>1
  <2> QED
    BY <1>2, <2>1 DEF Linux!Activated
<1>4. M \subseteq Linux!Deactivated(h, n)
  <2>1. M \subseteq n \ ((h.profile \ ({Up} \cup Linux!Managers)) \cup {Active})
    BY <1>1
  <2> QED
    BY <1>2, <2>1 DEF Linux!Deactivated
<1>5. M \cap Linux!Pending(h) = {}
    BY <1>1 DEF Linux!Pending
<1>6. M \subseteq Linux!Routes \cup n /\ M \cap Linux!Routes = {} /\ M \cap {Local, Up, Override} = {}
    BY <1>1 DEF Linux!AllRoutes
<1>7. M \subseteq Linux!SetDns(n, {c[2]})
    BY <1>2
<1> QED
    BY <1>1, <1>3, <1>4, <1>5, <1>6, <1>7 DEF Linux!Effect
-----------------------------------------------------------------------------
(* What a difference that is not reported says about the settings.         *)
LEMMA Verifies ==
    ASSUME NEW h \in Hosts, \A m \in MacosHosts : ~m.silent, NEW s \in Snapshots(h),
           NEW n, ManagerStays(h, n), Errors(h, s, n) = {}
    PROVE  Compared(h, s) = Compared(h, n)
<1>1. CASE OnLinux(h)
    BY <1>1, LinuxVerifies
        DEF OnLinux, Snapshots, Captures, Misreads, Start, Compared, Errors, ManagerStays
<1>2. CASE ~OnLinux(h)
  <2>1. h \in MacosHosts /\ ~h.silent
    BY <1>2 DEF Hosts, OnLinux
  <2>2. s = Macos!Start(h)
    BY <1>2, <2>1 DEF Snapshots, Captures, Misreads, Start, Macos!Captures, Macos!Misreads
  <2> QED
    BY <1>2, <2>2, MacosVerifies DEF Compared, Errors
<1> QED
    BY <1>1, <1>2

(* No command of either backend takes the manager away.                    *)
LEMMA EffectKeepsManager ==
    ASSUME NEW h, NEW n, NEW c, ManagerStays(h, n)
    PROVE  ManagerStays(h, Effect(h, n, c))
BY LinuxManagerStays DEF ManagerStays, Effect

(* The driver's invariant holds when the first process starts.             *)
LEMMA DriverInit == Init => DriverInv
BY DEF Init, DriverInv, ManagerStays, Start, OnLinux

(* Every step keeps it.                                                    *)
LEMMA DriverStep == DriverInv /\ [Next]_vars => DriverInv'
<1> SUFFICES ASSUME DriverInv, [Next]_vars PROVE DriverInv'
    OBVIOUS
<1> USE DEF DriverInv, Enter
<1>1. CASE Capture
  <2>1. /\ phase = "capture" /\ UNCHANGED <<host, nic, orphans>>
        /\ \/ snap' \in Snapshots(host) /\ phase' = "prepare"
           \/ snap' = snap /\ phase' = "failed" /\ todo' = <<>>
    BY <1>1 DEF Capture, Raise, Snapshots
  <2>2. snap' \in Snapshots(host) => snap' # NoSnapshot
    BY SnapshotAssumption DEF Snapshots
  <2> QED
    BY <2>1, <2>2 DEF ManagerStays
<1>2. CASE Run
  <2>1. ManagerStays(host, nic')
    BY <1>2, EffectKeepsManager DEF Run
  <2> QED
    BY <1>2, <2>1 DEF Run, ManagerStays
<1>3. CASE Fail
  <2>1. ManagerStays(host, nic')
    BY <1>3, EffectKeepsManager DEF Fail
  <2>2. /\ UNCHANGED <<host, snap, orphans>> /\ phase \in {"prepare", "apply", "restore"}
        /\ phase' = phase \/ phase' = "restore" \/ (phase' = "failed" /\ todo' = <<>>)
    BY <1>3 DEF Fail, Raise
  <2> QED
    BY <2>1, <2>2 DEF ManagerStays
<1>4. CASE Return
    BY <1>4 DEF Return, ManagerStays
<1>5. CASE Verify
    BY <1>5 DEF Verify, Raise, ManagerStays
<1>6. CASE Kill
    BY <1>6 DEF Kill, Ended, ManagerStays
<1>7. CASE Retry
    BY <1>7 DEF Retry, ManagerStays
<1>9. CASE OrphanEnds
  <2>1. ManagerStays(host, nic')
    BY <1>9, EffectKeepsManager DEF OrphanEnds
  <2>2. UNCHANGED <<host, snap, phase, todo>> /\ orphans # <<>>
    BY <1>9 DEF OrphanEnds
  <2> QED
    BY <2>1, <2>2 DEF ManagerStays
<1>8. CASE UNCHANGED vars
    BY <1>8 DEF vars, ManagerStays
<1> QED
    BY <1>1, <1>2, <1>3, <1>4, <1>5, <1>6, <1>7, <1>8, <1>9 DEF Next

(* The backends implement SnapshotGuard for the settings that              *)
(* verify_restored decides on: an operation that fails half-way, a kill    *)
(* between two commands or during one, a command that outlives its killed  *)
(* process and a retry never give up the snapshot before the interface is  *)
(* back, and never change it without one. The one exception is Orphaned:   *)
(* the step of such a command after another process has restored, verified *)
(* and removed the journal. Where a query of networksetup fails silently,  *)
(* the snapshot is not that of the interface.                              *)
THEOREM BackendsGuarded ==
    ASSUME \A m \in MacosHosts : ~m.silent
    PROVE  Spec => Guarded
<1>1. DriverInv /\ [Next]_vars => [Guard!GuardNext \/ Orphaned]_<<Compared(host, nic), Saved>>
  <2> SUFFICES ASSUME DriverInv, [Next]_vars
               PROVE  Guard!GuardNext \/ Orphaned \/ UNCHANGED <<Compared(host, nic), Saved>>
    OBVIOUS
  <2> USE DEF DriverInv, Enter
  <2>1. snap # NoSnapshot => Compared(host, snap) # NoSnapshot
    BY SnapshotDecides
  <2>2. CASE Capture
    <3>1. phase = "capture" /\ host' = host /\ nic' = nic /\ nic = Start(host)
      BY <2>2 DEF Capture
    <3>2. Compared(host, nic)' = Compared(host, nic)
      BY <3>1
    <3>3. Saved = NoSnapshot
      BY <3>1 DEF Saved
    <3>4. CASE snap' \in Snapshots(host) /\ phase' = "prepare"
      <4>1. Saved' = Compared(host, snap')
        BY <3>1, <3>4, SnapshotDecides DEF Saved
      <4> QED
        BY <3>1, <3>2, <3>3, <3>4, <4>1, SnapshotDecides DEF Guard!GuardNext, Guard!Save
    <3>5. CASE snap' = snap /\ phase' = "failed"
      <4>1. Saved' = NoSnapshot
        BY <3>1, <3>5 DEF Saved
      <4> QED
        BY <3>2, <3>3, <4>1
    <3> QED
      BY <2>2, <3>1, <3>4, <3>5 DEF Capture, Raise, Snapshots
  <2>3. CASE Run \/ Fail \/ (OrphanEnds /\ phase # "verified")
    <3>1. /\ UNCHANGED <<host, snap>> /\ snap # NoSnapshot
          /\ phase # "verified" /\ phase' # "verified"
      <4>1. CASE Run \/ Fail
        BY <4>1 DEF Run, Fail, Raise
      <4>2. CASE OrphanEnds /\ phase # "verified"
        BY <4>2 DEF OrphanEnds
      <4> QED
        BY <2>3, <4>1, <4>2
    <3>2. Saved' = Saved /\ Saved # NoSnapshot
      BY <2>1, <3>1 DEF Saved
    <3>3. Compared(host, nic)' \in SUBSET Items
      BY DEF Compared, Linux!Compared, Macos!Compared, Items
    <3> QED
      BY <3>2, <3>3 DEF Guard!GuardNext, Guard!Change
  <2>4. CASE Verify
    <3>1. phase = "verify" /\ UNCHANGED <<host, nic, snap>>
      BY <2>4 DEF Verify
    <3>2. Compared(host, nic)' = Compared(host, nic) /\ Saved = Compared(host, snap)
      BY <3>1 DEF Saved
    <3>3. CASE phase' = "verified" /\ Errors(host, snap, nic) = {}
      <4>1. Compared(host, snap) = Compared(host, nic)
        BY <3>1, <3>3, Verifies
      <4>2. Saved' = NoSnapshot
        BY <3>3 DEF Saved
      <4> QED
        BY <3>2, <4>1, <4>2 DEF Guard!GuardNext, Guard!Forget
    <3>4. CASE phase' = "failed"
      <4>1. Saved' = Saved
        BY <3>1, <3>4 DEF Saved
      <4> QED
        BY <3>2, <4>1
    <3> QED
      BY <2>4, <3>3, <3>4 DEF Verify, Raise
  <2>5. CASE Return \/ Kill \/ Retry
    <3>1. UNCHANGED <<host, nic, snap>> /\ phase # "verified" /\ phase' # "verified"
      BY <2>5 DEF Return, Kill, Retry, Ended
    <3>2. Saved' = Saved /\ Compared(host, nic)' = Compared(host, nic)
      BY <3>1 DEF Saved
    <3> QED
      BY <3>2
  <2>6. CASE UNCHANGED vars
    <3>1. UNCHANGED <<host, nic, snap, phase>>
      BY <2>6 DEF vars
    <3>2. Saved' = Saved /\ Compared(host, nic)' = Compared(host, nic)
      BY <3>1 DEF Saved
    <3> QED
      BY <3>2
  <2> QED
    BY <2>2, <2>3, <2>4, <2>5, <2>6 DEF Next, Orphaned
<1> QED
    BY <1>1, DriverInit, DriverStep, PTL DEF Spec, Guarded
=============================================================================
