CONSTANTS
    Domains = {d1,d2}
    RebootRequired = {d1,d2}
    OwnerConsentCommands = {"DOWNLOAD", "UPDATE"}
    MaxActivities = 2
    Faults = {"phaseTimeout", "consentTimeout"}
    MaxDuplicates = 0
    Prompt = TRUE
SPECIFICATION SpecActivity
INVARIANTS TypeOKActivity FinalFeedbackIsFinal CompletedOnlyIfNoneFailed SuccessCompletes HeardRefusalRollsBack SenderNeverBlocked NoCommandAfterFinal Undisturbed CommandsInOrder ConsentBeforeCommand
PROPERTIES FinalReportStands
SYMMETRY Symmetry
CHECK_DEADLOCK FALSE
