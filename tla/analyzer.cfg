SPECIFICATION FairSpec
CONSTANTS
    Templates = {t1, t2}
    MaxEvents = 4
    MaxFaults = 2
INVARIANTS
    IInv
PROPERTIES
    UploadsAdvance
    EventuallyReported
    ImplementsReportPublisher
    RoundsGoOn
