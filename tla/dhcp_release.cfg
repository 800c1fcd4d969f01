CONSTANTS
    Servers = {a}
    NoServer = NoServer
    Addrs = {x}
    NoAddr = NoAddr
    Terms <- OneTerm
    NoReply = NoReply
    NoLease = NoLease
    AutoRenew <- BothModes
    Timeout = 3
    StartupTimeout = 1
    RetryInterval = 1
    RetryWait = 1
    ConfigTime = 1
    MaxTime = 60
    MaxAnswers = 2
    MaxFaults = 0
SPECIFICATION Spec
INVARIANTS FailureReleases
