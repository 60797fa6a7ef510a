SPECIFICATION FairSpec
CONSTANTS
    Clusters = {n1, n2}
    Callers = {c1, c2}
    Scrapers = {c1}
    NoCaller = NoCaller
    NoCluster = NoCluster
    MaxUploads = 2
    MaxFaults = 1
INVARIANTS
    IInv
    AnswerFresh
PROPERTIES
    PayloadNeverRegresses
    ImplementsReportSource
    CallReturns
    Converges
