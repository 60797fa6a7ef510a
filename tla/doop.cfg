SPECIFICATION FairSpec
CONSTANTS
    Cluster = n1
    Callers = {c1}
    Scrapers = {c1}
    NoCaller = NoCaller
    NoCluster = NoCluster
    Templates = {t1}
    MaxEvents = 2
    MaxFaults = 1
    Spare = 6
INVARIANTS
    IInv
PROPERTIES
    AnswersAdvance
    TruthIsTold
