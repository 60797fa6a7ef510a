SPECIFICATION FairSpec
CONSTANTS
    Requests = {1, 2, 3}
    Slots = 2
    Limit = 1
    Bodies <- MCBodies
    parse <- MCParse
    Failed <- Failure
    EqualFold <- MCEqualFold
INVARIANTS
    ChannelInv
    InFlightBounded
    AnswersWholeBody
    OwnerInfoIsRepeated
    GeneratorReversesParser
PROPERTIES
    EveryRequestAnswered
CHECK_DEADLOCK FALSE
