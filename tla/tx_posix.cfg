CONSTANTS
    s1 = s1  s2 = s2  w1 = w1  w2 = w2  r1 = r1  r2 = r2
    manual = manual  own = own  leased = leased  route = route
    Sessions = {s1}
    Watchdogs = {w1}
    Restorers = {r1}
    Procs = {s1, w1, r1}
    ParentOf <- MCParentOf1
    Items = {manual, leased, route}
    Compared = {manual}
    LeaseAddrs = {leased}
    LeaseRoutes = {route}
    Original = {manual}
    NoAddr = NoAddr
    NoJournal = NoJournal
    Inodes = {i1, i2, i3}
    NoInode = NoInode
    Posix = TRUE
    MaxFaults = 1
    MaxCrashes = 2
SPECIFICATION FairSpec
INVARIANTS Recoverable
PROPERTIES GuardSpec CrashRecovered RetrySucceeds
