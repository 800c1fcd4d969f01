CONSTANTS
    home = home  leased = leased  gw = gw  homeGw = homeGw  host1 = host1
    link = link  dhcpGw = dhcpGw  isp = isp  dns = dns  pushed = pushed
    fixed = fixed  dummyIp = dummyIp  alias = alias  routes = routes  unicast = unicast
    NetworkManager = NetworkManager  Networkd = Networkd  Ifupdown = Ifupdown
    Active = Active  Override = Override  Up = Up  Lease = Lease
    Local = Local  Plain = Plain
    Addresses = {home, leased}
    RouteOrder <- MCRouteOrder
    Via <- MCVia
    AppIp = leased  Gateway = gw
    AppRoutes = {host1}
    LinuxHosts <- MCLinuxHosts
    Enabled = Enabled  Dhcp = Dhcp  Dummy = Dummy  AppSetting = AppSetting
    Manual = {fixed}  Aliases = {alias}
    AddressOf <- MCAddressOf
    RouteLists = {routes, unicast}  AppList = unicast
    MacosHosts <- MCMacosHosts
    Resolvers = {isp, dns, pushed}
    AppDns = isp
    NoSnapshot = NoSnapshot
    MaxFaults = 2
    MaxKills = 1
    MaxProcs = 3
SPECIFICATION Spec
CHECK_DEADLOCK FALSE
PROPERTIES Guarded RetrySucceeds
