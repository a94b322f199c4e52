CONSTANTS
    Domains = {d1,d2}
    RebootRequired = {}
    OwnerConsentCommands = {"ACTIVATE"}
    MaxActivities = 1
    Faults = {"phaseTimeout", "consentTimeout"}
    MaxDuplicates = 0
    Prompt = FALSE
SPECIFICATION FairSpecActivity
PROPERTIES Terminates
CHECK_DEADLOCK FALSE
