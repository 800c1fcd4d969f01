CONSTANTS
    Launchers = {l1, l2, l3}
    MaxLive = 2
    MaxFaults = 1
    MaxKills = 1
SPECIFICATION Spec
CHECK_DEADLOCK FALSE
INVARIANTS TypeOK OkHonest RuntimeComplete
PROPERTIES Installs
