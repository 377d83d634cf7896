SPECIFICATION Spec
CONSTANTS
    Topics <- AllTopics
    Lossy = TRUE
    Hashes <- AllHashes
    Matches <- AllMatches
    MaxLoads = 2
INVARIANTS
    TypeOK
    PageIsConsistent
    OneGroupPerChapter
    ArrowsAreInverse
PROPERTY NewestAnswerIsCurrent
