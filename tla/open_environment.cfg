CONSTANTS
    Domains = {d1,d2}
    RebootRequired = {d1,d2}
    OwnerConsentCommands = {}
    MaxActivities = 1
    Faults = {"phaseTimeout"}
SPECIFICATION Spec
INVARIANTS TypeOK BarrierInv PhaseBarrier RebootOnlyWhenFinished
PROPERTIES ImplementsLifecycle
SYMMETRY Symmetry
CHECK_DEADLOCK FALSE
