SPECIFICATION FairSpec
CONSTANTS
    Lock <- AllLocks
    MainScopes <- MainNested
INVARIANTS
    ModeHasOneHolder
    FlagTellsFrequency
PROPERTIES
    StaleLowIsRestored
