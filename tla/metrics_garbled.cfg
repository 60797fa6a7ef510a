SPECIFICATION MetricsSpec
CONSTANTS
    Clusters = {1, 2}
    Identities <- MCIdentities
    Reports <- MCReports
    Filters <- NoFilter
    ObjectIdentityKeys <- TeamLabel
    Now = 2
    Garbled = 3
INVARIANTS
    GarbledLooksOld
CHECK_DEADLOCK FALSE
