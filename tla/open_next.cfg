CONSTANTS
    Domains = {d1}
    RebootRequired = {d1}
    OwnerConsentCommands = {"UPDATE"}
    MaxActivities = 2
    Faults = {"publish", "terminate"}
SPECIFICATION Spec
INVARIANTS RebootOnlyWhenFinished
CHECK_DEADLOCK FALSE
