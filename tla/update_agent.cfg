CONSTANTS
    Activities = {a1,a2,a3}
    MaxProgress = 2
    Interval = TRUE
    LateReports = FALSE
    MayStop = TRUE
SPECIFICATION FairSpecAgent
INVARIANTS TypeOKAgent OwnProgress HeldBackHasTimer EndsBeforeDisconnect
PROPERTIES QuietAfterEnd EveryRequestApplied
CHECK_DEADLOCK FALSE
