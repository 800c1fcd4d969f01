--------------------------- MODULE NetworkBackend ---------------------------
(***************************************************************************)
(* The backends that work by single commands behind their common interface *)
(* (platform_network.py, network_backend.py): the host decides which one   *)
(* get_backend() returns, and BackendDriver runs its commands.             *)
(***************************************************************************)
EXTENDS Naturals

CONSTANTS
    LinuxHosts, MacosHosts,
    (* LinuxNetwork *)
    NetworkManager, Networkd, Ifupdown, Active, Override, Up, Lease, Addresses,
    RouteOrder, Via, Local, Plain, AppIp, AppRoutes, Gateway,
    (* MacosNetwork *)
    Enabled, Dhcp, Dummy, AppSetting, Manual, AddressOf, Aliases, RouteLists, AppList,
    (* both *)
    Resolvers, AppDns, NoSnapshot,
    MaxFaults, MaxKills, MaxProcs   \* bounds

Linux == INSTANCE LinuxNetwork WITH Hosts <- LinuxHosts
Macos == INSTANCE MacosNetwork WITH Hosts <- MacosHosts, AppRoutes <- AppList

ASSUME BackendAssumption ==
    /\ Linux!ConstantsOK /\ Macos!ConstantsOK
    /\ {MaxFaults, MaxKills, MaxProcs} \subseteq Nat

VARIABLES host, nic, snap, phase, todo, orphans, procs, faults, kills

Hosts == LinuxHosts \cup MacosHosts
Items == Linux!Items \cup Macos!Items

(* get_backend()                                                           *)
OnLinux(h) == h \in LinuxHosts

Start(h) == IF OnLinux(h) THEN Linux!Start(h) ELSE Macos!Start(h)
Captures(h, n) == IF OnLinux(h) THEN Linux!Captures(h, n) ELSE Macos!Captures(h, n)
Misreads(h, n) == IF OnLinux(h) THEN Linux!Misreads(h, n) ELSE Macos!Misreads(h, n)
PrepareOps(h, s) == IF OnLinux(h) THEN Linux!PrepareOps(h, s) ELSE Macos!PrepareOps(h, s)
ApplyOps(h, s) == IF OnLinux(h) THEN Linux!ApplyOps(h, s) ELSE Macos!ApplyOps(h, s)
RestoreOps(h, s) == IF OnLinux(h) THEN Linux!RestoreOps(h, s) ELSE Macos!RestoreOps(h, s)
Effect(h, n, c) == IF OnLinux(h) THEN Linux!Effect(h, n, c) ELSE Macos!Effect(h, n, c)
Accepted(h, n, c) == OnLinux(h) => Linux!Accepted(h, n, c)
Spawned(h, c) == OnLinux(h) => Linux!Spawned(h, c)
Caught(h, c) == IF OnLinux(h) THEN Linux!Caught(c) ELSE Macos!Caught(c)
Instead(h, c) == IF OnLinux(h) THEN Linux!Instead(c) ELSE <<>>
Errors(h, s, n) == IF OnLinux(h) THEN Linux!Errors(h, s, n) ELSE Macos!Errors(h, s, n)
Compared(h, n) == IF OnLinux(h) THEN Linux!Compared(h, n) ELSE Macos!Compared(h, n)
Stuck(h, s, n) == OnLinux(h) /\ Linux!Stuck(h, s, n)

(* No snapshot is taken for the absence of one.                            *)
ASSUME SnapshotAssumption ==
    \A h \in Hosts : \A s \in Captures(h, Start(h)) \cup Misreads(h, Start(h)) :
        NoSnapshot # s /\ NoSnapshot # Compared(h, s)

INSTANCE BackendDriver
=============================================================================
