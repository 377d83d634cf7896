SPECIFICATION Spec
CONSTANTS
    Topics <- FewTopics
    Lossy = FALSE
    Hashes <- FewHashes
    Matches <- FewMatches
    MaxLoads = 3
INVARIANT ShowsCurrent
