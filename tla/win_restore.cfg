CONSTANTS
    dhcp = dhcp  home = home  leased = leased  gw = gw  homeGw = homeGw
    link = link  host = host  isp = isp  dns = dns  m = m
    NProcs = 3
    Dhcp = dhcp
    Addresses = {home, leased}
    Routes = {gw, homeGw, link, host}
    OnLink = {link}
    Servers = {dns, isp}
    Metrics = {m}
    Originals <- MCSupported
    AppIp = leased  Gateway = gw
    AppDns = {isp}
    AppRoutes = {host}
    NoSnapshot = NoSnapshot
    Rounds = 2
    MaxFaults = 2
    MaxDesyncs = 1
    MaxKills = 1
SPECIFICATION Spec
CHECK_DEADLOCK FALSE
INVARIANTS OneWriter FailsForCause
PROPERTIES Guarded RetrySucceeds
