SPECIFICATION MetricsSpec
CONSTANTS
    Clusters = {1, 2}
    Identities <- MCIdentities
    Reports <- MCReports
    Filters <- NoFilter
    ObjectIdentityKeys <- NoLabels
    Now = 2
    Garbled = 3
INVARIANTS
    ScrapeDoesNotPanic
CHECK_DEADLOCK FALSE
