SPECIFICATION FairSpec
CONSTANTS
    a1 = a1
    a2 = a2
    sleep = sleep
    NULL = NULL
    Activity <- SmallHeap
    SleepScreen <- sleep
INVARIANTS
    RenderedIsCurrent
    PendingIsLaunchable
    HandlerGetsItsChild
    WaitShowsState
    UpdateNotLost
PROPERTIES
    KeepsStack
    WaiterWakes
    UpdateRendered
