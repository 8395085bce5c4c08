SPECIFICATION FairSpec
CONSTANTS
    Remote = {r1}
    Worker = {w1, w2}
    NULL = NULL
INVARIANTS
    RadioOnWhileWorking
    JobHasOneWorker
    GuardCoversWork
    GuardMatchesWork
    NoAutomaticAfterCrash
PROPERTIES
    LostIsRetried
    ReconnectGuard
