SPECIFICATION Spec
CONSTANTS
    Clusters = {1, 2}
    Requests = {r1, r2}
    Texts <- MCTexts
    First <- MCFirst
    ChunkSize = 2
    Spare = 1
    MaxLoads = 1
    Arrays = {1, 2, 3, 4, 5, 6}
SYMMETRY Symmetry
INVARIANTS
    IInv
    CacheUnaltered
    AnswersAreTrue
