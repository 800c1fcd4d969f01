---------------------------- MODULE LinuxNetwork ----------------------------
(***************************************************************************)
(* The Linux backend (linux_network.py) on a host with its network manager *)
(* and DNS service: the commands of each operation, what they do, and what *)
(* verify_restored compares. NetworkBackend has them run.                  *)
(***************************************************************************)
EXTENDS Naturals, SequencesExt

CONSTANTS
    NetworkManager, Networkd, Ifupdown, \* what detect_network_manager finds
    Active,         \* the manager has its configuration on the interface
    Override,       \* the temporary networkd file exists
    Up,             \* the link is up
    Lease,          \* the manager's own DHCP address
    Addresses,      \* the other addresses
    RouteOrder,     \* routes with a gateway or of the user, as "ip route" lists them
    Via,            \* settings one of which a route needs to be accepted
    Local, Plain,   \* an address's entry in table local, and one of type unicast
    Resolvers,      \* DNS servers of the link, or contents of resolv.conf
    Hosts,          \* the hosts: see HostType
    AppIp, AppRoutes, Gateway, AppDns,
    NoSnapshot

Managers == {NetworkManager, Networkd, Ifupdown}
Routes == {RouteOrder[i] : i \in DOMAIN RouteOrder}
AllRoutes == Routes \cup {Local, Plain}
AllAddresses == Addresses \cup {Lease}
Items == Managers \cup {Active, Override, Up} \cup AllAddresses \cup AllRoutes \cup Resolvers

HostType ==
    [ resolved : BOOLEAN,           \* resolvectl works; else a plain resolv.conf
      json : BOOLEAN,               \* ip -j works, and lists all tables
      strict : BOOLEAN,             \* nmcli does not disconnect an inactive device
      profile : SUBSET Items,       \* what the manager configures, and the manager
      own : SUBSET Items ]          \* what the user has added by hand

ConstantsOK ==
    /\ Hosts \subseteq HostType
    /\ Via \in [Routes -> SUBSET Items]
    /\ Managers \cap ({Active, Override, Up} \cup AllAddresses \cup AllRoutes \cup Resolvers) = {}
    /\ Lease \notin {Local, Plain}
    /\ AppIp \in Addresses /\ AppRoutes \cup {Gateway} \subseteq Routes /\ AppDns \in Resolvers

Start(h) == h.profile \cup h.own

-----------------------------------------------------------------------------
(* capture_snapshot                                                        *)

(* Only ip -j is asked for the routes of all tables.                       *)
Captures(h, n) == {IF h.json THEN n ELSE n \ {Local, Plain}}

(* detect_network_manager takes a command that fails for a manager that is *)
(* not there; with a dynamic address it refuses to go on without one.      *)
Misreads(h, n) ==
    IF n \cap Managers # {} /\ Lease \notin n THEN {s \ Managers : s \in Captures(h, n)} ELSE {}

(* "unmanaged-static" is the absence of a manager.                         *)
Dynamic(s) == Lease \in s
Managed(s) == s \cap Managers # {}
Automatic(s) == Dynamic(s) /\ Managed(s)

-----------------------------------------------------------------------------
(* The commands of each operation.                                         *)
Cmd(op) == << <<op, NoSnapshot>> >>
ForEach(op, seq) == [i \in DOMAIN seq |-> <<op, seq[i]>>]
Flush == Cmd("flush addresses") \o Cmd("flush routes")

(* _manager_prepare, prepare *)
PrepareOps(h, s) ==
    Cmd("identity")
    \o (CASE NetworkManager \in s -> Cmd("managed no")
          [] Networkd \in s -> Cmd("write override") \o Cmd("reload") \o Cmd("reconfigure")
          [] Ifupdown \in s -> Cmd("ifdown")
          [] OTHER -> <<>>)
    \o Cmd("up") \o Flush

(* apply_lease, _apply_dns *)
ApplyOps(h, s) ==
    Cmd("identity") \o << <<"address", AppIp>>, <<"route", Gateway>> >>
    \o ForEach("route", SetToSeq(AppRoutes)) \o << <<"dns", AppDns>> >>

(* NetworkManager has the connection again that was active, or none.       *)
Reconnect(s) == IF Active \in s THEN Cmd("connection up") ELSE Cmd("disconnect")

(* Mutant of ManagerRestore: networkd reloads with the override in place.  *)
KeepOverride(s) ==
    CASE NetworkManager \in s -> Cmd("managed yes") \o Reconnect(s)
      [] Networkd \in s -> Cmd("reload") \o Cmd("reconfigure") \o Cmd("wait")
      [] Ifupdown \in s /\ Up \in s -> Cmd("ifup")
      [] OTHER -> <<>>

(* _manager_restore *)
ManagerRestore(s) ==
    CASE NetworkManager \in s -> Cmd("managed yes") \o Reconnect(s)
      [] Networkd \in s ->
            Cmd("unlink override") \o Cmd("reload") \o Cmd("reconfigure") \o Cmd("wait")
      [] Ifupdown \in s /\ Up \in s -> Cmd("ifup")
      [] OTHER -> <<>>

(* _restore_static_ipv4: routes in the order in which they were listed.    *)
RestoreStatic(s) ==
    Flush \o ForEach("address", SetToSeq(s \cap Addresses))
    \o ForEach("route", SelectSeq(RouteOrder, LAMBDA r : r \in s))
    \o (IF s \cap {Local, Plain} # {} THEN Cmd("local route") ELSE <<>>)

(* _restore_dns *)
RestoreDns(h, s) ==
    CASE Automatic(s) -> IF h.resolved THEN Cmd("revert dns") ELSE <<>>
      [] ~Automatic(s) /\ s \cap Resolvers = {} -> Cmd("revert dns")
      [] OTHER -> ForEach("dns", SetToSeq(s \cap Resolvers))

(* restore *)
RestoreOps(h, s) ==
    Cmd("identity") \o Flush \o ManagerRestore(s)
    \o (IF Managed(s) /\ Dynamic(s) THEN <<>> ELSE RestoreStatic(s))
    \o RestoreDns(h, s)
    \o (IF Up \in s THEN <<>> ELSE Cmd("down"))

-----------------------------------------------------------------------------
(* What the commands do.                                                   *)
SetDns(n, d) == (n \ Resolvers) \cup d

(* networkd alone leaves a plain resolv.conf to the user.                  *)
Pushed(h) ==
    IF h.resolved \/ Networkd \notin h.profile THEN h.profile \cap Resolvers ELSE {}

(* The manager puts its configuration on the interface, or takes it off.   *)
Activated(h, n) ==
    SetDns((n \ (AllAddresses \cup AllRoutes)) \cup (h.profile \ Resolvers),
           IF Pushed(h) = {} THEN n \cap Resolvers ELSE Pushed(h))
Deactivated(h, n) ==
    SetDns(n \ ((h.profile \ ({Up} \cup Managers)) \cup {Active}),
           IF h.resolved THEN {} ELSE n \cap Resolvers)

(* networkd asks for a lease in its own time.                              *)
Pending(h) == IF Dynamic(h.profile) THEN AllAddresses \cup AllRoutes ELSE {}

Effect(h, n, c) ==
    CASE c[1] = "flush addresses" -> n \ (AllAddresses \cup AllRoutes)
      [] c[1] = "flush routes" -> n \ Routes
      [] c[1] = "up" -> n \cup {Up}
      [] c[1] = "down" -> n \ {Up}
      [] c[1] = "address" -> n \cup {c[2], Local}
      [] c[1] = "route" -> n \cup {c[2]}
      [] c[1] = "local route" -> (n \ {Local}) \cup {Plain}  \* no type: unicast
      [] c[1] = "dns" -> SetDns(n, {c[2]})
      [] c[1] = "revert dns" -> n \ Resolvers
      [] c[1] = "write override" -> n \cup {Override}
      [] c[1] = "unlink override" -> n \ {Override}
      [] c[1] = "reconfigure" ->
            IF Override \in n THEN Deactivated(h, n) ELSE Activated(h, n) \ Pending(h)
      [] c[1] = "wait" -> IF Active \in n THEN n \cup (h.profile \cap Pending(h)) ELSE n
      [] c[1] \in {"managed no", "disconnect"} -> Deactivated(h, n)
      [] c[1] = "connection up" -> Activated(h, n)
      [] c[1] = "ifdown" -> Deactivated(h, n) \ {Up}
      [] c[1] = "ifup" -> IF Active \in n THEN n ELSE Activated(h, n)  \* already up
      [] OTHER -> n      \* identity, reload, managed yes

(* A route needs a way to its gateway; an address must be new; the file    *)
(* for networkd is not overwritten. A device that is not active is not     *)
(* disconnected (a code that neither prepare nor restore allows).          *)
Accepted(h, n, c) ==
    /\ c[1] = "disconnect" /\ h.strict => Active \in n
    /\ c[1] = "route" => Via[c[2]] \cap n # {}
    /\ c[1] = "address" => c[2] \notin n
    /\ c[1] = "write override" => Override \notin n

(* Files are written by the process itself, resolv.conf among them.        *)
Spawned(h, c) ==
    /\ c[1] \notin {"write override", "unlink override"}
    /\ c[1] \in {"dns", "revert dns"} => h.resolved

(* What the code does about a command that fails.                          *)
Caught(c) ==
    CASE c[1] \in {"managed no", "managed yes"} -> "always"
      [] c[1] \in {"flush addresses", "flush routes", "ifdown", "wait"} -> "sometimes"
      [] OTHER -> "never"
Instead(c) == IF c[1] = "managed no" THEN Cmd("disconnect") ELSE <<>>

-----------------------------------------------------------------------------
(* verify_restored                                                         *)
(* Mutant of Errors: the manager and what it configures are trusted.       *)
SettingErrors(h, s, n) ==
    {e \in {"app_ip", "addresses", "routes", "dns", "up"} :
        CASE e = "app_ip" -> ~Dynamic(s) /\ AppIp \in n \ s
          [] e = "addresses" -> ~Dynamic(s) /\ s \cap AllAddresses # n \cap AllAddresses
          [] e = "routes" -> ~Dynamic(s) /\ s \cap Routes # n \cap Routes
          [] e = "dns" -> ~Automatic(s) /\ s \cap Resolvers # n \cap Resolvers
          [] OTHER -> (Up \in s) # (Up \in n)}

Errors(h, s, n) ==
    SettingErrors(h, s, n)
    \cup {e \in {"manager", "connection", "dynamic", "app_routes"} :
        CASE e = "manager" -> s \cap Managers # n \cap Managers
          [] e = "connection" -> /\ s \cap {NetworkManager, Networkd} # {}
                                 /\ s \cap {Active, Override} # n \cap {Active, Override}
          [] e = "dynamic" -> Dynamic(s) /\ Lease \notin n
          [] OTHER -> (n \cap AppRoutes) \ s # {}}

(* Interfaces from which no restore gets back, however often it is tried:  *)
(* ifup does nothing for one ifupdown holds for configured, and what is    *)
(* not active is not disconnected.                                         *)
Stuck(h, s, n) ==
    \/ Ifupdown \in s /\ Dynamic(s) /\ Active \in n
    \/ NetworkManager \in s /\ Active \notin s /\ h.strict

(* No command changes the manager, and table local never decides; nor do,  *)
(* when the original is dynamic, other addresses, other routes than those  *)
(* the program adds, and automatic DNS.                                    *)
Undecided(h) ==
    Managers \cup {Local, Plain}
    \cup (IF Dynamic(Start(h)) THEN Addresses \cup (Routes \ (AppRoutes \ Start(h))) ELSE {})
    \cup (IF Automatic(Start(h)) THEN Resolvers ELSE {})
    \cup (IF Start(h) \cap {NetworkManager, Networkd} = {} THEN {Active, Override} ELSE {})
Compared(h, n) == n \cap (Items \ Undecided(h))
=============================================================================
