CONSTANTS
    Domains = {d1}
    RebootRequired = {}
    OwnerConsentCommands = {}
    MaxActivities = 1
    Faults = {"phaseTimeout", "publish"}
    MaxDuplicates = 0
    Prompt = TRUE
SPECIFICATION FairSpecActivity
PROPERTIES EndsAfterCommandFailure
CHECK_DEADLOCK FALSE
