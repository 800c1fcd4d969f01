-------------------------- MODULE MCWindowsNetwork --------------------------
(* Instances of WindowsNetwork for TLC. *)
EXTENDS WindowsNetwork

CONSTANTS dhcp, home, leased, gw, homeGw, link, host, isp, dns, m

(* Interfaces the restore script was written for: DHCP with everything     *)
(* automatic but the metric, or manual settings. The routes of a DHCP      *)
(* interface come with its lease.                                          *)
MCSupported ==
    { {dhcp}, {dhcp, homeGw, link, m}, {home, homeGw, dns}, {home, homeGw, host, dns, m}, {home} }
=============================================================================
