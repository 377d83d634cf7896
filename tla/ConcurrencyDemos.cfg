SPECIFICATION FairSpec
CONSTANTS
    Programs <- AllPrograms
    Workers = 4
    Items = 3
    Permits = 2
    Readers = 3
INVARIANTS
    TypeOK
    NoPanicNoRace
    ResultsAsPromised
PROPERTY NothingElseLeaks
