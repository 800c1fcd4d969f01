CONSTANTS
    s1 = s1  s2 = s2  w1 = w1  w2 = w2  r1 = r1  r2 = r2
    manual = manual  own = own  leased = leased  route = route
    Sessions = {s1, s2}
    Watchdogs = {w1, w2}
    Restorers = {r1}
    Procs = {s1, s2, w1, w2, r1}
    ParentOf <- MCParentOf2
    Items = {manual, leased}
    Compared = {manual}
    LeaseAddrs = {leased}
    LeaseRoutes = {}
    Original = {manual}
    NoAddr = NoAddr
    NoJournal = NoJournal
    Inodes = {i1, i2, i3}
    NoInode = NoInode
    Posix = TRUE
    MaxFaults = 0
    MaxCrashes = 1
SPECIFICATION Spec
INVARIANTS SavedWhileChanged
