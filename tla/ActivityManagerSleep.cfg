SPECIFICATION Spec
CONSTANTS
    a1 = a1
    a2 = a2
    sleep = sleep
    NULL = NULL
    Activity <- SmallHeap
    SleepScreen <- sleep
INVARIANT SleepScreenShown
