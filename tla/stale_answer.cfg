CONSTANTS
    Domains = {d1}
    Getters = {"backend"}
    Delayed = TRUE
    MaxVersion = 2
    MaxDuplicates = 0
    MaxCommands = 0
    StateFaults = {}
SPECIFICATION SpecState
INVARIANTS AnswersAreCurrent
CHECK_DEADLOCK FALSE
