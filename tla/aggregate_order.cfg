SPECIFICATION Spec
CONSTANTS
    Clusters = {1, 2}
    Identities <- MCIdentities
    Reports <- MCReports
    Filters <- MCFilters
INVARIANTS
    CanonicalOrder
CHECK_DEADLOCK FALSE
