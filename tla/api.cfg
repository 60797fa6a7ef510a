SPECIFICATION MetricsSpec
CONSTANTS
    Clusters = {1, 2}
    Identities <- MCIdentities
    Reports <- MCReports
    Filters <- MCFilters
    ObjectIdentityKeys <- TeamLabel
    Now = 2
    Garbled = 3
INVARIANTS
    TypeOK
    ReportsExactlyTheAsked
    IdentitiesOfMatchingClusters
    MergedCompletely
    MetricsTypeOK
    NoDuplicateLabels
    EveryViolationCounted
    GroupsCountedOnce
CHECK_DEADLOCK FALSE
