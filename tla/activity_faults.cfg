CONSTANTS
    Domains = {d1,d2}
    RebootRequired = {}
    OwnerConsentCommands = {"UPDATE"}
    MaxActivities = 1
    Faults = {"phaseTimeout", "consentTimeout", "publish", "terminate"}
    MaxDuplicates = 1
    Prompt = FALSE
SPECIFICATION SpecActivity
INVARIANTS NoProgressAfterRefusal CommandsInOrder
PROPERTIES CompletedStands
SYMMETRY Symmetry
CHECK_DEADLOCK FALSE
