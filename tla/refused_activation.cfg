CONSTANTS
    Domains = {d1}
    RebootRequired = {}
    OwnerConsentCommands = {"ACTIVATE"}
    MaxActivities = 1
    Faults = {"phaseTimeout"}
    MaxDuplicates = 0
    Prompt = TRUE
SPECIFICATION SpecActivity
INVARIANTS FinalFeedbackIsFinal
CHECK_DEADLOCK FALSE
