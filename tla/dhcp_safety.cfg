CONSTANTS
    Servers = {a, b}
    NoServer = NoServer
    Addrs = {x}
    NoAddr = NoAddr
    Terms <- OneTerm
    NoReply = NoReply
    NoLease = NoLease
    AutoRenew <- BothModes
    Timeout = 8
    StartupTimeout = 1
    RetryInterval = 1
    RetryWait = 1
    ConfigTime = 1
    MaxTime = 60
    MaxAnswers = 3
    MaxFaults = 1
SPECIFICATION Spec
INVARIANTS TypeOK LeaseGranted RetryBudget StopQuiet HonestCode
