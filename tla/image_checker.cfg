SPECIFICATION FairSpec
CONSTANTS
    image = image
    noReference = noReference
    index = index
    child = child
    Callers = {c1, c2}
    Images = {image, noReference}
    Malformed = {noReference}
    Manifests = {index, child}
    path <- MCPath
    Statuses = {"Clean", "Critical"}
    Configs <- MCConfigs
    TTL = 2
    MaxLatency = 1
INVARIANTS
    IInv
PROPERTIES
    AnswersAreRecent
    SettlesOnTruth
