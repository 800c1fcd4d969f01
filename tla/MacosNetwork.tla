---------------------------- MODULE MacosNetwork ----------------------------
(***************************************************************************)
(* The macOS backend (macos_network.py): the commands of each operation,   *)
(* what they make of the network service and of its interface, and what    *)
(* verify_restored compares. NetworkBackend has them run. A command of     *)
(* networksetup is taken to have configured the interface when it returns; *)
(* lists (DNS servers, additional routes) are replaced as a whole, so one  *)
(* item stands for a list that is not empty.                               *)
(***************************************************************************)
EXTENDS Naturals, SequencesExt

CONSTANTS
    Enabled,        \* the network service is on
    Dhcp, Dummy, AppSetting,    \* its IPv4 setting: DHCP, or manual with the
    Manual,                     \* program's addresses or one of the user's
    AddressOf,      \* the address a setting brings
    Aliases,        \* addresses added by hand with ifconfig
    Resolvers, AppDns,  \* lists of DNS servers
    RouteLists, AppRoutes,  \* lists of additional routes
    Hosts,          \* the hosts: see HostType
    NoSnapshot

Settings == {Dhcp, Dummy, AppSetting} \cup Manual
ServiceAddresses == {AddressOf[s] : s \in Settings} \cup Aliases
Items == {Enabled} \cup Settings \cup ServiceAddresses \cup Resolvers \cup RouteLists

HostType ==
    [ service : SUBSET Items,   \* what the user has configured
      silent : BOOLEAN ]        \* a query may fail with code 1 and no output

ConstantsOK ==
    /\ Hosts \subseteq HostType /\ DOMAIN AddressOf = Settings
    /\ AppDns \in Resolvers /\ AppRoutes \in RouteLists

Start(h) == h.service

-----------------------------------------------------------------------------
(* capture_snapshot. The code 1 of -getdnsservers or -getadditionalroutes  *)
(* is allowed: without output, they are taken to be empty.                 *)
Captures(h, n) == {n}
Misreads(h, n) == IF h.silent THEN {n \ Resolvers, n \ RouteLists} ELSE {}

Cmd(op) == << <<op, NoSnapshot>> >>
ForEach(op, set) == LET s == SetToSeq(set) IN [i \in DOMAIN s |-> <<op, s[i]>>]

(* _clear_runtime: the service has to be on for the rest.                  *)
ClearRuntime(s) ==
    (IF Enabled \in s THEN <<>> ELSE Cmd("on"))
    \o << <<"set", Dummy>>, <<"delete", AddressOf[Dummy]>> >>
    \o ForEach("delete", s \cap ServiceAddresses)
    \o ForEach("delete route", s \cap RouteLists) \o Cmd("no routes")

PrepareOps(h, s) == Cmd("identity") \o ClearRuntime(s)

ApplyOps(h, s) ==
    Cmd("identity")
    \o << <<"set", AppSetting>>, <<"dns", AppDns>>, <<"routes", AppRoutes>> >>

(* The IPv4 setting comes back with the addresses that are not its own.    *)
RestoreSetting(s) ==
    IF Dhcp \in s THEN << <<"set", Dhcp>> >>
    ELSE ForEach("set", s \cap Manual) \o ForEach("alias", s \cap Aliases)

(* Mutant of RestoreOps: DNS servers are set only if there were some.      *)
RestoreKeepsDns(h, s) ==
    Cmd("identity") \o ClearRuntime(s) \o RestoreSetting(s)
    \o ForEach("dns", s \cap Resolvers) \o ForEach("routes", s \cap RouteLists)
    \o (IF Enabled \in s THEN <<>> ELSE Cmd("off"))

RestoreOps(h, s) ==
    Cmd("identity") \o ClearRuntime(s) \o RestoreSetting(s)
    \o (IF s \cap Resolvers = {} THEN Cmd("no dns") ELSE ForEach("dns", s \cap Resolvers))
    \o (IF s \cap RouteLists = {} THEN Cmd("no routes") ELSE ForEach("routes", s \cap RouteLists))
    \o (IF Enabled \in s THEN <<>> ELSE Cmd("off"))

-----------------------------------------------------------------------------
(* What the commands do.                                                   *)
(* The addresses that the settings in force have brought go with them.     *)
Set(n, c) ==
    (n \ (Settings \cup {AddressOf[s] : s \in n \cap Settings})) \cup {c}
    \cup (IF Enabled \in n THEN {AddressOf[c]} ELSE {})

Effect(h, n, c) ==
    CASE c[1] = "on" -> n \cup {Enabled} \cup {AddressOf[s] : s \in n \cap Settings}
      [] c[1] = "off" -> n \ ({Enabled} \cup ServiceAddresses)
      [] c[1] = "set" -> Set(n, c[2])
      [] c[1] = "delete" -> n \ {c[2]}
      [] c[1] = "alias" -> n \cup {c[2]}
      [] c[1] = "dns" -> (n \ Resolvers) \cup {c[2]}
      [] c[1] = "no dns" -> n \ Resolvers
      [] c[1] = "routes" -> (n \ RouteLists) \cup {c[2]}
      [] c[1] = "no routes" -> n \ RouteLists
      [] OTHER -> n      \* identity; the kernel's copy of a configured route

Accepted(n, c) == TRUE
Caught(c) == IF c[1] \in {"delete", "delete route"} THEN "sometimes" ELSE "never"
Instead(c) == <<>>

-----------------------------------------------------------------------------
(* verify_restored *)
Errors(h, s, n) ==
    {e \in {"enabled", "mode", "addresses", "dns", "routes", "app_routes", "app_ip"} :
        CASE e = "enabled" -> (Enabled \in s) # (Enabled \in n)
          [] e = "mode" -> s \cap Settings # n \cap Settings
          [] e = "addresses" -> Dhcp \notin s /\ s \cap ServiceAddresses # n \cap ServiceAddresses
          [] e = "dns" -> s \cap Resolvers # n \cap Resolvers
          [] e = "routes" -> s \cap RouteLists # n \cap RouteLists
          [] e = "app_routes" -> AppRoutes \in n \ s
          [] OTHER -> Dhcp \notin s /\ AddressOf[AppSetting] \in n \ s}

(* With DHCP the addresses on the interface do not decide.                 *)
Compared(h, n) ==
    n \cap (Items \ (IF Dhcp \in Start(h) THEN ServiceAddresses ELSE {}))
=============================================================================
