CONSTANTS
    Servers = {a}
    NoServer = NoServer
    Addrs = {x}
    NoAddr = NoAddr
    Terms <- OddTerms
    NoReply = NoReply
    NoLease = NoLease
    AutoRenew <- BothModes
    Timeout = 4
    StartupTimeout = 1
    RetryInterval = 1
    RetryWait = 1
    ConfigTime = 1
    MaxTime = 60
    MaxAnswers = 3
    MaxFaults = 1
SPECIFICATION FairSpec
INVARIANTS TimersOrdered OverrunBounded
PROPERTIES StopObeyed GivesUp
