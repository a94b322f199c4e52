CONSTANTS
    Domains = {d1,d2}
    Getters = {"apply"}
    Delayed = FALSE
    MaxVersion = 2
    MaxDuplicates = 1
    MaxCommands = 0
    StateFaults = {"publish", "terminate"}
SPECIFICATION SpecState
INVARIANTS TypeOKState ChannelOutlivesSender AnswersAreCurrent
PROPERTIES KnownNeverGoesBack
SYMMETRY StateSymmetry
CHECK_DEADLOCK FALSE
