CONSTANTS
    Things = {t1, t2}
    MaxResponses = 2
    MaxActivities = 2
    MaxConsents = 2
    MaxMessages = 1
    MayStop = TRUE
    MaxFaults = 1
SPECIFICATION SpecThings
INVARIANTS TypeOKThings AnswerOfRequest OneAnswerPerRequest OwnerIsHeard ConfigurationApplied
PROPERTIES OperationsOfTheThing
SYMMETRY ThingsSymmetry
CHECK_DEADLOCK FALSE
