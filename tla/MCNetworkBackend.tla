------------------------- MODULE MCNetworkBackend -------------------------
(* Instances of NetworkBackend for TLC. *)
EXTENDS NetworkBackend

CONSTANTS home, leased, gw, homeGw, host1, link, dhcpGw, isp, dns, pushed,
          fixed, dummyIp, alias, routes, unicast

(* "ip route" lists the default routes first.                              *)
MCRouteOrder == <<gw, homeGw, dhcpGw, host1, link>>
MCVia == [r \in {gw, homeGw, dhcpGw, host1, link} |->
    CASE r = gw -> {leased} [] r = homeGw -> {home} [] r = dhcpGw -> {Lease}
      [] r = host1 -> {leased, home} [] OTHER -> {home, leased, Lease}]

LinuxHost(r, j, p, o) ==
    [resolved |-> r, json |-> j, strict |-> FALSE, profile |-> p, own |-> o]
DhcpProfile(m) == {m, Active, Up, Lease, Local, dhcpGw, pushed}
StaticProfile(m) == {m, Active, Up, home, Local, homeGw, dns}

(* NetworkManager has the device, and no connection on it.                 *)
NoConnection(o) == LinuxHost(FALSE, TRUE, {NetworkManager, Up}, o)

(* DHCP or manual settings of a manager, manual settings without one.      *)
MCLinuxHosts ==
    { LinuxHost(r, TRUE, p, {}) : r \in BOOLEAN,
        p \in {DhcpProfile(NetworkManager), StaticProfile(NetworkManager),
               DhcpProfile(Networkd), StaticProfile(Networkd)} }
    \cup { LinuxHost(r, FALSE, {}, o) : r \in BOOLEAN,
            o \in {{Up, home, Local, homeGw, host1, dns}, {home, Local, dns}} }
    \cup { LinuxHost(FALSE, TRUE, p, {}) : p \in {StaticProfile(Ifupdown), DhcpProfile(Ifupdown)} }
    \cup { NoConnection({}), NoConnection({dns}), [NoConnection({dns}) EXCEPT !.strict = TRUE] }

MCAddressOf ==
    [s \in {Dhcp, Dummy, AppSetting, fixed} |->
        CASE s = Dhcp -> Lease [] s = Dummy -> dummyIp
          [] s = AppSetting -> leased [] OTHER -> home]

MacosHost(on, setting, own) ==
    [ service |-> {setting} \cup own \cup (IF on THEN {Enabled, MCAddressOf[setting]} ELSE {}),
      silent |-> FALSE ]

(* DHCP or manual, on or off, with and without lists and an alias.         *)
MCMacosHosts ==
    { MacosHost(on, setting, own) :
        on \in BOOLEAN, setting \in {Dhcp, fixed}, own \in {{}, {dns, routes}} }
    \cup { MacosHost(TRUE, fixed, {alias, dns}) }
=============================================================================
