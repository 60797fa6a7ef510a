SPECIFICATION Spec
CONSTANTS
    Clusters = {n1, n2}
    Callers = {c1, c2}
    Scrapers = {}
    NoCaller = NoCaller
    NoCluster = NoCluster
    MaxUploads = 2
    MaxFaults = 1
INVARIANTS
    AnswerMostRecent
