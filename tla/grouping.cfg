SPECIFICATION Spec
CONSTANTS
    Violation <- MCViolation
    Reported <- MCReported
    process <- MCprocess
    merge <- MCmerge
    MaxViolations = 4
    JsonObjects <- MCJsonObjects
    Separators <- MCSeparators
    Messages <- MCMessages
    Decimal <- MCDecimal
    TextPieces <- MCTextPieces
    Matches <- MCMatches
    MaxPieces = 3
INVARIANTS
    TypeOK
    DistinctPatterns
    GroupsListAllViolations
    InstancesAreComplete
    IdentityIsExtracted
    PlaceholdersAreReplaced
CHECK_DEADLOCK FALSE
