CONSTANTS
    s1 = s1  s2 = s2  w1 = w1  w2 = w2  r1 = r1  r2 = r2
    manual = manual  own = own  leased = leased  route = route
    Sessions = {s1, s2}
    Watchdogs = {w1, w2}
    Restorers = {}
    Procs = {s1, s2, w1, w2}
    ParentOf <- MCParentOf2
    Items = {manual, own, leased}
    Compared = {manual}
    LeaseAddrs = {leased}
    LeaseRoutes = {}
    Original = {manual, own}
    NoAddr = NoAddr
    NoJournal = NoJournal
    Inodes = {i1}
    NoInode = NoInode
    Posix = FALSE
    MaxFaults = 2
    MaxCrashes = 1
SPECIFICATION Spec
INVARIANTS TypeOK OneTransaction Recoverable ProgressHonest CleanExit
PROPERTIES GuardSpec
