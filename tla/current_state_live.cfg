CONSTANTS
    Domains = {d1}
    Getters = {"backend","initial"}
    Delayed = TRUE
    MaxVersion = 3
    MaxDuplicates = 0
    MaxCommands = 1
    StateFaults = {}
SPECIFICATION FairSpecState
PROPERTIES GetReturns QuietChangeReported CommandGetsThrough
CHECK_DEADLOCK FALSE
