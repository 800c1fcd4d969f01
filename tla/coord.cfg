CONSTANTS
    MaxRuns = 3
    MaxSignals = 2
    MaxKills = 1
    MaxOthers = 1
SPECIFICATION Spec
CHECK_DEADLOCK FALSE
INVARIANTS TypeOK ToldTrue DialsExtracted
PROPERTIES ExitHonest OneChild
