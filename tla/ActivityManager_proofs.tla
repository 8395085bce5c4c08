----------------------- MODULE ActivityManager_proofs -----------------------
(***************************************************************************)
(* Invariance proofs for ActivityManager, for any heap of activities.      *)
(*                                                                         *)
(* The inductive invariant is made of: who holds the mutex, by the place   *)
(* of each task (LockInv); what the three owners of an activity and the    *)
(* result handlers look like between two navigations (NavInv); what a      *)
(* blocked main task can still expect of the render task (WaitInv). The    *)
(* last part proves that the manager implements ScreenStack.               *)
(***************************************************************************)
EXTENDS ActivityManager, SequenceTheorems, TLAPS

\* The mutex is held exactly where the code is inside a RenderLock.
LockInv ==
    /\ mutex = "render" <=> rpc \in {"check", "render", "done", "release"}
    /\ mutex = "main" <=> mpc \in {"mutate", "switch", "release"}

\* There is no current activity only after the last one was popped, until
\* goHome() has made one, and nothing else happens on the main task then.
GoingHome == mpc = "goHome" \/ ctx = "home"
NoneOnlyGoingHome ==
    /\ GoingHome => current = NULL
    /\ current = NULL =>
         /\ mpc \in {"release", "goHome"} /\ ctx = "home"
         /\ stack = <<>> /\ action = "None"

OnStack(a) == \E i \in 1..Len(stack) : stack[i] = a

\* An activity has one owner (the unique_ptr), in one place.
OwnedOnce ==
    /\ \A i, j \in 1..Len(stack) : stack[i] = stack[j] => i = j
    /\ ~OnStack(current)
    /\ pending # NULL => pending # current /\ ~OnStack(pending)

\* The sleep screen is made once, and the main loop ends with it.
SleepScreenOnce ==
    /\ sleeping => mpc # "top"
    /\ ctx = "top" => ~sleeping /\ mpc \in {"lock", "mutate"}
    /\ ~sleeping => SleepScreen # current /\ SleepScreen # pending
                    /\ ~OnStack(SleepScreen)

\* Handlers are set on live activities; each one below the top of the stack
\* is for the activity above it, the top one's for the current activity,
\* and the current activity's for the activity about to be pushed.
HandlerChain ==
    /\ \A a \in Activity : expects[a] # NULL => a = current \/ OnStack(a)
    /\ \A i \in 1..Len(stack) :
         expects[stack[i]] \in
           {NULL, IF i = Len(stack) THEN current ELSE stack[i + 1]}
    /\ current # NULL /\ action = "None" => expects[current] = NULL
    /\ current # NULL /\ action = "Push" => expects[current] \in {NULL, pending}

NavInv ==
    /\ PendingIsLaunchable
    /\ NoneOnlyGoingHome
    /\ OwnedOnce
    /\ SleepScreenOnce
    /\ HandlerChain

\* From the state change to the end of requestUpdateAndWait(), a render that
\* has begun shows the new state, so whoever wakes the main task did as well.
\* Before the crash report asks for its frame, no render has been asked for.
WaitPlaces == {"callWait", "ping", "waiting"}
FirstFrame ==
    report =>
      /\ rpc = "wait" /\ ~notified["render"]
      /\ \/ mpc \in {"dispatch", "acquire", "switch"} /\ action = "Replace"
         \/ mpc \in {"release", "run"} /\ ctx = "enter"
WaitInv ==
    /\ WaiterIsBlocked
    /\ FirstFrame
    /\ notified["main"] => waiter = NULL /\ mpc \in {"ping", "waiting"} /\ ~dirty
    /\ mpc \in WaitPlaces /\ rpc \in {"render", "done"} => ~dirty

IInv ==
    /\ TypeOK
    /\ LockInv
    /\ NavInv
    /\ RenderedIsCurrent
    /\ WaitInv
    /\ UpdateNotLost

-----------------------------------------------------------------------------

(* The invariant holds at the start.                                            *)
LEMMA InitIInv == Init => IInv
<1> SUFFICES ASSUME Init PROVE IInv
  OBVIOUS
<1> USE HeapAssumption DEF Init, Task
<1>1. TypeOK
  <2>1. stack \in Seq(Activity)
    OBVIOUS
  <2>2. /\ requestedUpdate \in BOOLEAN /\ thenWait \in BOOLEAN
        /\ sleeping \in BOOLEAN /\ report \in BOOLEAN /\ dirty \in BOOLEAN /\ owed \in BOOLEAN
    OBVIOUS
  <2>3. /\ expects \in [Activity -> Activity \cup {NULL}]
        /\ notified \in [Task -> BOOLEAN]
    OBVIOUS
  <2> QED
    BY <2>1, <2>2, <2>3 DEF TypeOK, MainPlaces, Callbacks
<1>2. LockInv /\ RenderedIsCurrent /\ UpdateNotLost
  BY DEF LockInv, RenderedIsCurrent, UpdateNotLost
<1>3. NavInv
  BY DEF NavInv, PendingIsLaunchable, NoneOnlyGoingHome, GoingHome, OwnedOnce,
         OnStack, SleepScreenOnce, HandlerChain
<1>4. WaitInv
  BY DEF WaitInv, WaitPlaces, WaiterIsBlocked, FirstFrame
<1> QED
  BY <1>1, <1>2, <1>3, <1>4 DEF IInv

(* Every step keeps the types.                                                  *)
LEMMA NextType == IInv /\ [Next]_vars => TypeOK'
<1> SUFFICES ASSUME IInv, [Next]_vars PROVE TypeOK'
  OBVIOUS
<1> USE HeapAssumption
    DEF IInv, TypeOK, Task, MainPlaces, Callbacks, navVars, lockVars, mainVars,
        renderVars, drawVars
<1>1. CASE RenderWake
  BY <1>1 DEF RenderWake
<1>2. CASE RenderAcquire
  BY <1>2 DEF RenderAcquire
<1>3. CASE RenderStart
  <2>1. rpc' \in {"render", "done"} /\ dirty' \in BOOLEAN /\ owed' \in BOOLEAN
    BY <1>3 DEF RenderStart
  <2>2. rendering' \in Activity \cup {NULL}
    BY <1>3 DEF RenderStart
  <2> QED
    BY <1>3, <2>1, <2>2 DEF RenderStart
<1>4. CASE RenderRequest
  BY <1>4 DEF RenderRequest
<1>5. CASE RenderEnd
  BY <1>5 DEF RenderEnd
<1>6. CASE WakeWaiter
  <2>1. notified' \in [Task -> BOOLEAN]
    BY <1>6 DEF WakeWaiter, Notify
  <2> QED
    BY <1>6, <2>1 DEF WakeWaiter
<1>7. CASE RenderRelease
  BY <1>7 DEF RenderRelease
<1>8. ASSUME NEW immediate \in BOOLEAN, RequestUpdate(immediate) PROVE TypeOK'
  <2>1. notified' \in [Task -> BOOLEAN] /\ requestedUpdate' \in BOOLEAN
    BY <1>8 DEF RequestUpdate, InCallback, Notify
  <2> QED
    BY <1>8, <2>1 DEF RequestUpdate
<1>9. ASSUME NEW child \in Fresh, StartActivityForResult(child) PROVE TypeOK'
  <2>1. child \in Activity /\ expects' \in [Activity -> Activity \cup {NULL}]
    BY <1>9 DEF StartActivityForResult, Fresh
  <2> QED
    BY <1>9, <2>1 DEF StartActivityForResult
<1>10. ASSUME NEW child \in Fresh, PushActivity(child) PROVE TypeOK'
  BY <1>10 DEF PushActivity, Fresh
<1>11. ASSUME NEW new \in Fresh, ReplaceActivity(new) PROVE TypeOK'
  BY <1>11 DEF ReplaceActivity, Fresh
<1>12. CASE PopActivity
  BY <1>12 DEF PopActivity
<1>13. CASE EnterInitialises
  BY <1>13 DEF EnterInitialises
<1>14. ASSUME NEW wait \in BOOLEAN, TakeLock(wait) PROVE TypeOK'
  BY <1>14 DEF TakeLock
<1>15. CASE LockTaken
  BY <1>15 DEF LockTaken
<1>16. CASE ChangeState
  <2>1. dirty' \in BOOLEAN /\ thenWait' \in BOOLEAN
    BY <1>16 DEF ChangeState
  <2>2. mpc' \in MainPlaces /\ ctx' \in Callbacks \cup {"top", "home", "popped"}
    BY <1>16 DEF ChangeState
  <2> QED
    BY <1>16, <2>1, <2>2 DEF ChangeState
<1>17. CASE CallWait
  BY <1>17 DEF CallWait
<1>35. CASE ReportCrash
  <2>1. report' \in BOOLEAN /\ dirty' \in BOOLEAN
    BY <1>35 DEF ReportCrash
  <2> QED
    BY <1>35, <2>1 DEF ReportCrash
<1>18. CASE PingRender
  BY <1>18 DEF PingRender, Notify
<1>19. CASE WaitOver
  BY <1>19 DEF WaitOver
<1>20. CASE Return
  <2>1. requestedUpdate' \in BOOLEAN /\ owed' \in BOOLEAN
    BY <1>20 DEF Return
  <2> QED
    BY <1>20, <2>1 DEF Return
<1>21. CASE LoopBegin
  BY <1>21 DEF LoopBegin
<1>22. CASE GoToSleep
  BY <1>22 DEF GoToSleep
<1>23. CASE Dispatch
  BY <1>23 DEF Dispatch
<1>24. CASE DispatchAcquire
  BY <1>24 DEF DispatchAcquire
<1>25. CASE SwitchPop
  <2>1. stack # <<>> => Top \in Activity /\ Below \in Seq(Activity)
    BY DEF Top, Below
  <2> QED
    BY <1>25, <2>1 DEF SwitchPop, HandlerTaken
<1>26. CASE SwitchLaunch
  <2>1. Append(stack, current) \in Seq(Activity)
    BY <1>26 DEF SwitchLaunch, NavInv, NoneOnlyGoingHome
  <2>2. stack' \in Seq(Activity) /\ expects' \in [Activity -> Activity \cup {NULL}]
    <3>1. CASE action = "Replace"
      BY <1>26, <3>1 DEF SwitchLaunch
    <3>2. CASE action = "Push"
      BY <1>26, <2>1, <3>2 DEF SwitchLaunch
    <3> QED
      BY <1>26, <3>1, <3>2 DEF SwitchLaunch
  <2> QED
    BY <1>26, <2>2 DEF SwitchLaunch
<1>27. CASE DispatchRelease
  <2>1. requestedUpdate' \in BOOLEAN /\ owed' \in BOOLEAN
    BY <1>27 DEF DispatchRelease
  <2>2. mpc' \in MainPlaces /\ ctx' \in Callbacks \cup {"top", "home", "popped"}
    BY <1>27 DEF DispatchRelease
  <2> QED
    BY <1>27, <2>1, <2>2 DEF DispatchRelease
<1>28. ASSUME NEW home \in Fresh, GoHome(home) PROVE TypeOK'
  BY <1>28 DEF GoHome, Fresh
<1>29. CASE FlushTest
  BY <1>29 DEF FlushTest
<1>30. CASE FlushClear
  <2>1. requestedUpdate' \in BOOLEAN
    BY <1>30 DEF FlushClear
  <2> QED
    BY <1>30, <2>1 DEF FlushClear
<1>31. CASE FlushNotify
  BY <1>31 DEF FlushNotify, Notify
<1>32. CASE LoopEnd
  BY <1>32 DEF LoopEnd
<1>33. CASE PoweredDown
  BY <1>33 DEF PoweredDown, vars
<1>34. CASE UNCHANGED vars
  BY <1>34 DEF vars
<1> QED
  BY <1>1, <1>2, <1>3, <1>4, <1>5, <1>6, <1>7, <1>8, <1>9, <1>10, <1>11,
     <1>12, <1>13, <1>14, <1>15, <1>16, <1>17, <1>18, <1>19, <1>20, <1>21,
     <1>22, <1>23, <1>24, <1>25, <1>26, <1>27, <1>28, <1>29, <1>30, <1>31,
     <1>32, <1>33, <1>34, <1>35
  DEF Next, RenderTask, Callback, MainLoop

(* Every step keeps the order of the mutex.                                     *)
LEMMA NextLock == IInv /\ [Next]_vars => LockInv'
<1> SUFFICES ASSUME IInv, [Next]_vars PROVE LockInv'
  OBVIOUS
<1> USE HeapAssumption
    DEF IInv, LockInv, LockFree, Task, vars, lockVars, mainVars, renderVars
<1>1. CASE RenderTask
  BY <1>1
  DEF RenderTask, RenderWake, RenderAcquire, RenderStart, RenderRequest,
      RenderEnd, WakeWaiter, RenderRelease
<1>2. CASE Callback
  BY <1>2
  DEF Callback, RequestUpdate, InCallback, StartActivityForResult, PushActivity,
      ReplaceActivity, PopActivity, EnterInitialises, TakeLock, LockTaken,
      ChangeState, ReportCrash, CallWait, PingRender, WaitOver, Return
<1>3. CASE MainLoop
  BY <1>3
  DEF MainLoop, LoopBegin, GoToSleep, Dispatch, DispatchAcquire, SwitchPop,
      SwitchLaunch, DispatchRelease, GoHome, FlushTest, FlushClear,
      FlushNotify, LoopEnd, PoweredDown
<1>4. CASE UNCHANGED vars
  BY <1>4
<1> QED
  BY <1>1, <1>2, <1>3, <1>4 DEF Next

\* Off the release of the lock and goHome(), there is a current activity.
LEMMA SomeCurrent ==
    ASSUME NavInv, mpc \notin {"release", "goHome"}
    PROVE  current # NULL /\ ctx # "home"
  BY DEF NavInv, NoneOnlyGoingHome, GoingHome

\* What a step that does not navigate leaves alone.
LEMMA NavFrame ==
    NavInv /\ UNCHANGED navVars =>
        PendingIsLaunchable' /\ OwnedOnce' /\ HandlerChain'
  BY DEF NavInv, navVars, PendingIsLaunchable, OwnedOnce, OnStack, HandlerChain

(* A new activity is owned by nobody else.                                      *)
LEMMA FreshIsFree ==
    ASSUME NEW a \in Fresh
    PROVE  /\ a \in Activity /\ a # NULL /\ a # SleepScreen
           /\ a # current /\ a # pending /\ ~OnStack(a)
  BY HeapAssumption DEF Fresh, Owned, OnStack

\* Steps of the main task that do not navigate.
LEMMA NavQuiet ==
    ASSUME IInv,
           \/ \E immediate \in BOOLEAN : RequestUpdate(immediate)
           \/ \E wait \in BOOLEAN : TakeLock(wait)
           \/ EnterInitialises \/ LockTaken \/ ChangeState \/ ReportCrash \/ CallWait
           \/ PingRender \/ WaitOver \/ Return \/ LoopBegin \/ Dispatch
           \/ DispatchAcquire \/ FlushTest \/ FlushClear \/ FlushNotify
           \/ LoopEnd
    PROVE  NavInv'
<1> USE DEF RequestUpdate, InCallback, TakeLock, EnterInitialises, LockTaken, ChangeState,
            ReportCrash, CallWait, PingRender, WaitOver, Return, LoopBegin, Dispatch,
            DispatchAcquire, FlushTest, FlushClear, FlushNotify, LoopEnd
<1>1. UNCHANGED navVars
  OBVIOUS
<1>2. mpc \notin {"release", "goHome"}
  OBVIOUS
<1>3. current # NULL /\ ctx # "home"
  BY <1>2, SomeCurrent DEF IInv
<1>4. mpc' # "goHome" /\ ctx' # "home"
  BY <1>2, <1>3 DEF mainVars
<1>5. NoneOnlyGoingHome'
  BY <1>1, <1>3, <1>4 DEF NoneOnlyGoingHome, GoingHome, navVars
<1>6. SleepScreenOnce'
  <2>1. UNCHANGED sleeping
    BY DEF mainVars
  <2>2. /\ sleeping => mpc' # "top"
        /\ ctx' = "top" => ~sleeping /\ mpc' \in {"lock", "mutate"}
    BY DEF mainVars, IInv, NavInv, SleepScreenOnce
  <2> QED
    BY <1>1, <2>1, <2>2 DEF IInv, NavInv, SleepScreenOnce, OnStack, navVars
<1> QED
  BY <1>1, <1>5, <1>6, NavFrame DEF NavInv, IInv

\* What a callback asks for: only the pending navigation changes.
LEMMA NavAsk ==
    ASSUME IInv,
           \/ \E child \in Fresh : \/ StartActivityForResult(child)
                                  \/ PushActivity(child)
                                  \/ ReplaceActivity(child)
           \/ PopActivity
    PROVE  NavInv'
<1> USE HeapAssumption
<1>1. mpc = "run" /\ UNCHANGED <<current, stack, mpc, ctx, sleeping>>
  BY DEF InCallback, StartActivityForResult, PushActivity, ReplaceActivity, PopActivity,
         mainVars
<1>2. current # NULL /\ ctx # "home" /\ current \in Activity /\ ~OnStack(current)
  BY <1>1, SomeCurrent DEF IInv, TypeOK, NavInv, OwnedOnce
<1>3. NoneOnlyGoingHome'
  BY <1>1, <1>2 DEF NoneOnlyGoingHome, GoingHome
<1>4. \/ pending' = NULL /\ action' = "Pop"
      \/ pending' \in Fresh /\ action' \in {"Push", "Replace"}
  BY DEF StartActivityForResult, PushActivity, ReplaceActivity, PopActivity
<1>5. pending' # NULL => /\ pending' # current /\ pending' # SleepScreen
                         /\ ~OnStack(pending')
  BY <1>4, FreshIsFree
<1>6. PendingIsLaunchable'
  BY <1>4, FreshIsFree DEF PendingIsLaunchable
<1>7. OwnedOnce'
  BY <1>1, <1>5 DEF IInv, NavInv, OwnedOnce, OnStack
<1>8. SleepScreenOnce'
  BY <1>1, <1>4, <1>5 DEF IInv, NavInv, SleepScreenOnce, OnStack
<1>9. HandlerChain'
  <2>1. CASE \E child \in Fresh : StartActivityForResult(child)
    <3>1. PICK child \in Fresh : StartActivityForResult(child)
      BY <2>1
    <3>2. /\ expects' = [expects EXCEPT ![current] = child]
          /\ action' = "Push" /\ pending' = child
      BY <3>1 DEF StartActivityForResult
    <3>3. /\ expects'[current] = child
          /\ \A a \in Activity \ {current} : expects'[a] = expects[a]
      BY <1>2, <3>2 DEF IInv, TypeOK
    <3>4. \A i \in 1..Len(stack) : stack[i] \in Activity \ {current}
      BY <1>2 DEF IInv, TypeOK, OnStack
    <3> QED
      BY <1>1, <1>2, <3>2, <3>3, <3>4 DEF IInv, NavInv, HandlerChain, OnStack
  <2>2. CASE \E child \in Fresh : PushActivity(child) \/ ReplaceActivity(child)
    <3>1. UNCHANGED expects /\ action' # "None"
      BY <2>2 DEF PushActivity, ReplaceActivity
    <3>2. action' = "Push" => action = "None"
      BY <2>2 DEF PushActivity, ReplaceActivity
    <3> QED
      BY <1>1, <1>2, <3>1, <3>2 DEF IInv, NavInv, HandlerChain, OnStack
  <2>3. CASE PopActivity
    <3>1. UNCHANGED expects /\ action' = "Pop"
      BY <2>3 DEF PopActivity
    <3> QED
      BY <1>1, <1>2, <3>1 DEF IInv, NavInv, HandlerChain, OnStack
  <2> QED
    BY <2>1, <2>2, <2>3
<1> QED
  BY <1>3, <1>6, <1>7, <1>8, <1>9 DEF NavInv

(* Going to sleep keeps the state of the navigation.                            *)
LEMMA NavSleep == IInv /\ GoToSleep => NavInv'
<1> SUFFICES ASSUME IInv, GoToSleep PROVE NavInv'
  OBVIOUS
<1> USE HeapAssumption DEF GoToSleep
<1>1. current # NULL /\ ctx # "home" /\ ~sleeping
  BY SomeCurrent DEF IInv, NavInv, SleepScreenOnce
<1>2. PendingIsLaunchable' /\ NoneOnlyGoingHome'
  BY <1>1 DEF PendingIsLaunchable, NoneOnlyGoingHome, GoingHome
<1>3. OwnedOnce' /\ SleepScreenOnce'
  BY <1>1 DEF IInv, NavInv, OwnedOnce, SleepScreenOnce, OnStack
<1>4. HandlerChain'
  BY <1>1 DEF IInv, NavInv, HandlerChain, OnStack
<1> QED
  BY <1>2, <1>3, <1>4 DEF NavInv

(* Going home finds nothing current and nothing on the stack.                   *)
LEMMA NavHome == ASSUME IInv, NEW home \in Fresh, GoHome(home) PROVE NavInv'
<1> USE HeapAssumption DEF GoHome
<1>1. current = NULL /\ stack = <<>> /\ action = "None" /\ ~OnStack(home)
  BY FreshIsFree DEF IInv, NavInv, NoneOnlyGoingHome, GoingHome
<1>2. /\ home \in Activity /\ home # NULL /\ home # SleepScreen
      /\ home # pending
  BY FreshIsFree
<1>3. PendingIsLaunchable' /\ NoneOnlyGoingHome'
  BY <1>1, <1>2
  DEF IInv, NavInv, PendingIsLaunchable, NoneOnlyGoingHome, GoingHome
<1>4. OwnedOnce' /\ SleepScreenOnce'
  BY <1>1, <1>2 DEF IInv, NavInv, OwnedOnce, SleepScreenOnce, OnStack
<1>5. expects[home] = NULL
  BY <1>1, <1>2 DEF IInv, NavInv, HandlerChain
<1>6. HandlerChain'
  BY <1>1, <1>2, <1>5 DEF IInv, NavInv, HandlerChain, OnStack
<1> QED
  BY <1>3, <1>4, <1>6 DEF NavInv

(* The release of the mutex leaves the navigation where it was.                 *)
LEMMA NavRelease == IInv /\ DispatchRelease => NavInv'
<1> SUFFICES ASSUME IInv, DispatchRelease PROVE NavInv'
  OBVIOUS
<1>1. UNCHANGED navVars /\ UNCHANGED sleeping
  BY DEF DispatchRelease
<1>2. /\ mpc' \in {"goHome", "dispatch", "run"}
      /\ mpc' = "goHome" <=> ctx = "home"
      /\ ctx' = "home" <=> ctx = "home"
      /\ ctx' # "top"
  BY DEF DispatchRelease, IInv, NavInv, SleepScreenOnce
<1>3. NoneOnlyGoingHome'
  BY <1>1, <1>2 DEF IInv, NavInv, NoneOnlyGoingHome, GoingHome, navVars
<1>4. SleepScreenOnce'
  BY <1>1, <1>2 DEF IInv, NavInv, SleepScreenOnce, OnStack, navVars
<1> QED
  BY <1>1, <1>3, <1>4, NavFrame DEF IInv, NavInv

\* A pop uncovers the parent, which then has no handler left.
LEMMA NavPop == IInv /\ SwitchPop => NavInv'
<1> SUFFICES ASSUME IInv, SwitchPop PROVE NavInv'
  OBVIOUS
<1> USE HeapAssumption DEF SwitchPop
<1> DEFINE n == Len(stack)
<1>1. /\ current \in Activity /\ pending = NULL /\ pending' = NULL
      /\ action' = "None" /\ mpc' = "release" /\ sleeping' = sleeping
      /\ stack \in Seq(Activity) /\ n \in Nat
  BY DEF IInv, TypeOK, NavInv, PendingIsLaunchable
<1>2. PendingIsLaunchable'
  BY <1>1 DEF PendingIsLaunchable
<1>3. CASE stack = <<>>
  <2>1. /\ current' = NULL /\ ctx' = "home" /\ stack' = stack
        /\ expects' = [expects EXCEPT ![current] = NULL]
    BY <1>3
  <2>2. NoneOnlyGoingHome' /\ OwnedOnce' /\ SleepScreenOnce'
    BY <1>1, <1>3, <2>1
    DEF NoneOnlyGoingHome, GoingHome, OwnedOnce, SleepScreenOnce, OnStack,
        IInv, NavInv
  <2>3. HandlerChain'
    BY <1>1, <1>3, <2>1 DEF HandlerChain, OnStack, IInv, TypeOK, NavInv
  <2> QED
    BY <1>2, <2>2, <2>3 DEF NavInv
<1>4. CASE stack # <<>>
  <2>1. /\ current' = stack[n] /\ ctx' \in {"popped", "handler"}
        /\ stack' = SubSeq(stack, 1, n - 1)
        /\ expects' = [expects EXCEPT ![current] = NULL, ![stack[n]] = NULL]
    BY <1>4 DEF Top, Below, HandlerTaken
  <2>2. n \in 1..n /\ n - 1 \in Nat /\ n - 1 <= n
    BY <1>1, <1>4
  <2>3. Len(stack') = n - 1 /\ \A i \in 1..(n - 1) : stack'[i] = stack[i]
    <3>1. \A i \in 1..(n - 1) : stack[i] \in Activity
      BY <1>1
    <3>2. /\ Len(stack') = IF 1 <= n - 1 THEN (n - 1) - 1 + 1 ELSE 0
          /\ \A i \in 1..((n - 1) - 1 + 1) : stack'[i] = stack[1 + i - 1]
      BY <1>1, <2>1, <2>2, <3>1, SubSeqProperties
    <3>3. \A m \in Nat : m - 1 + 1 = m /\ (1 <= m \/ m = 0)
      OBVIOUS
    <3>4. \A i \in 1..(n - 1) : 1 + i - 1 = i
      OBVIOUS
    <3> QED
      BY <2>2, <3>2, <3>3, <3>4
  <2>4. \A i \in 1..n : stack[i] \in Activity
    BY <1>1
  <2>5. current' \in Activity /\ current' # NULL /\ OnStack(current')
    BY <2>1, <2>2, <2>4 DEF OnStack
  <2>6. \A a : OnStack(a)' => OnStack(a) /\ a # stack[n]
    BY <2>2, <2>3 DEF OnStack, IInv, NavInv, OwnedOnce
  <2>7. \A a : OnStack(a) /\ a # stack[n] => OnStack(a)'
    BY <1>1, <2>2, <2>3 DEF OnStack
  <2>8. NoneOnlyGoingHome'
    BY <1>1, <2>1, <2>5 DEF NoneOnlyGoingHome, GoingHome
  <2>9. OwnedOnce'
    <3>1. \A i, j \in 1..Len(stack') : stack'[i] = stack'[j] => i = j
      BY <2>2, <2>3 DEF IInv, NavInv, OwnedOnce
    <3>2. ~OnStack(current)'
      BY <2>1, <2>6
    <3> QED
      BY <1>1, <3>1, <3>2 DEF OwnedOnce
  <2>10. SleepScreenOnce'
    BY <1>1, <2>1, <2>5, <2>6 DEF IInv, NavInv, SleepScreenOnce
  <2>11. HandlerChain'
    <3>1. /\ expects'[current] = NULL /\ expects'[stack[n]] = NULL
          /\ \A a \in Activity \ {current, stack[n]} : expects'[a] = expects[a]
      BY <1>1, <2>1, <2>2, <2>4 DEF IInv, TypeOK
    <3>2. \A a \in Activity : expects'[a] # NULL => OnStack(a)'
      BY <2>7, <3>1 DEF IInv, NavInv, HandlerChain
    <3>3. ASSUME NEW i \in 1..(n - 1)
          PROVE  expects'[stack'[i]] \in
                   {NULL, IF i = n - 1 THEN stack[n] ELSE stack'[i + 1]}
      <4>1. i \in 1..n /\ i # n /\ i + 1 \in 1..n
        BY <1>1, <3>3
      <4>2. stack[i] \in Activity /\ stack[i] # current /\ stack[i] # stack[n]
        BY <2>2, <2>4, <4>1 DEF IInv, NavInv, OwnedOnce, OnStack
      <4>3. expects'[stack'[i]] = expects[stack[i]]
        BY <2>3, <3>1, <4>2
      <4>4. expects[stack[i]] \in {NULL, stack[i + 1]}
        BY <4>1 DEF IInv, NavInv, HandlerChain
      <4>5. i # n - 1 => i + 1 \in 1..(n - 1)
        BY <1>1, <3>3
      <4> QED
        BY <1>1, <2>3, <3>3, <4>3, <4>4, <4>5
    <3>4. expects'[current'] = NULL
      BY <2>1, <3>1
    <3> QED
      BY <1>1, <2>1, <2>3, <3>2, <3>3, <3>4 DEF HandlerChain
  <2> QED
    BY <1>2, <2>8, <2>9, <2>10, <2>11 DEF NavInv
<1> QED
  BY <1>3, <1>4

\* A launch pushes the current activity, or drops it with the whole stack.
LEMMA NavLaunch == IInv /\ SwitchLaunch => NavInv'
<1> SUFFICES ASSUME IInv, SwitchLaunch PROVE NavInv'
  OBVIOUS
<1> USE HeapAssumption DEF SwitchLaunch
<1> DEFINE n == Len(stack)
<1>1. /\ current \in Activity /\ current # NULL
      /\ pending \in Activity /\ pending # current /\ ~OnStack(pending)
      /\ stack \in Seq(Activity) /\ n \in Nat
  BY SomeCurrent DEF IInv, TypeOK, NavInv, OwnedOnce
<1>2. /\ current' = pending /\ pending' = NULL /\ action' = "None"
      /\ ctx' = "enter" /\ mpc' = "release" /\ sleeping' = sleeping
  OBVIOUS
<1>3. PendingIsLaunchable' /\ NoneOnlyGoingHome'
  BY <1>1, <1>2 DEF PendingIsLaunchable, NoneOnlyGoingHome, GoingHome
<1>4. CASE action = "Replace"
  <2>1. stack' = <<>> /\ expects' = [a \in Activity |-> NULL]
    BY <1>4
  <2>2. OwnedOnce' /\ SleepScreenOnce' /\ HandlerChain'
    BY <1>1, <1>2, <2>1
    DEF IInv, NavInv, OwnedOnce, SleepScreenOnce, HandlerChain, OnStack
  <2> QED
    BY <1>3, <2>2 DEF NavInv
<1>5. CASE action = "Push"
  <2>1. stack' = Append(stack, current) /\ expects' = expects
    BY <1>5
  <2>2. /\ Len(stack') = n + 1 /\ stack'[n + 1] = current
        /\ \A i \in 1..n : stack'[i] = stack[i]
    BY <1>1, <2>1
  <2>3. \A a : OnStack(a)' <=> OnStack(a) \/ a = current
    BY <1>1, <2>2 DEF OnStack
  <2>4. OwnedOnce'
    <3>1. \A i, j \in 1..(n + 1) : stack'[i] = stack'[j] => i = j
      BY <1>1, <2>2 DEF IInv, NavInv, OwnedOnce, OnStack
    <3>2. ~OnStack(current)'
      BY <1>1, <1>2, <2>3
    <3> QED
      BY <1>2, <2>2, <3>1, <3>2 DEF OwnedOnce
  <2>5. SleepScreenOnce'
    BY <1>2, <2>3 DEF IInv, NavInv, SleepScreenOnce
  <2>6. HandlerChain'
    <3>1. \A a \in Activity : expects'[a] # NULL => OnStack(a)'
      BY <2>1, <2>3 DEF IInv, NavInv, HandlerChain
    <3>2. ASSUME NEW i \in 1..n
          PROVE  expects'[stack'[i]] \in {NULL, stack'[i + 1]}
      <4>1. i + 1 \in 1..(n + 1) /\ (i # n => i + 1 \in 1..n)
        BY <1>1, <3>2
      <4> QED
        BY <2>1, <2>2, <3>2, <4>1 DEF IInv, NavInv, HandlerChain
    <3>3. expects'[stack'[n + 1]] \in {NULL, current'}
      BY <1>1, <1>2, <1>5, <2>1, <2>2 DEF IInv, NavInv, HandlerChain
    <3>4. expects'[current'] = NULL
      BY <1>1, <1>2, <2>1 DEF IInv, NavInv, HandlerChain
    <3>5. \A i \in 1..(n + 1) : i # n + 1 => i \in 1..n
      BY <1>1
    <3> QED
      BY <1>1, <1>2, <2>2, <3>1, <3>2, <3>3, <3>4, <3>5 DEF HandlerChain
  <2> QED
    BY <1>3, <2>4, <2>5, <2>6 DEF NavInv
<1> QED
  BY <1>4, <1>5

(* Every step keeps the state of the navigation.                                *)
LEMMA NextNav == IInv /\ [Next]_vars => NavInv'
<1> SUFFICES ASSUME IInv, [Next]_vars PROVE NavInv'
  OBVIOUS
<1>1. CASE RenderTask \/ PoweredDown \/ UNCHANGED vars
  <2>1. UNCHANGED <<navVars, mpc, ctx, sleeping>>
    BY <1>1
    DEF RenderTask, RenderWake, RenderAcquire, RenderStart, RenderRequest,
        RenderEnd, WakeWaiter, RenderRelease, PoweredDown, vars, mainVars
  <2>2. NoneOnlyGoingHome' /\ SleepScreenOnce'
    BY <2>1 DEF IInv, NavInv, NoneOnlyGoingHome, GoingHome, SleepScreenOnce,
                OnStack, navVars
  <2> QED
    BY <2>1, <2>2, NavFrame DEF IInv, NavInv
<1>2. CASE Callback
  BY <1>2, NavQuiet, NavAsk DEF Callback
<1>3. CASE MainLoop
  BY <1>1, <1>3, NavQuiet, NavSleep, NavPop, NavLaunch, NavRelease, NavHome
  DEF MainLoop
<1> QED
  BY <1>1, <1>2, <1>3 DEF Next

-----------------------------------------------------------------------------

\* While render() runs, the mutex keeps every navigation out but goHome(),
\* which finds no current activity.
LEMMA NextRendered == IInv /\ [Next]_vars => RenderedIsCurrent'
<1> SUFFICES ASSUME IInv, [Next]_vars, rpc' = "render"
             PROVE  rendering' = current' /\ current' # NULL
  BY DEF RenderedIsCurrent
<1>1. CASE RenderTask
  BY <1>1
  DEF RenderTask, RenderWake, RenderAcquire, RenderStart, RenderRequest,
      RenderEnd, WakeWaiter, RenderRelease, navVars, renderVars,
      IInv, RenderedIsCurrent
<1>2. CASE Callback \/ MainLoop \/ UNCHANGED vars
  <2>1. rpc = "render" /\ rendering' = rendering
    BY <1>2
    DEF Callback, RequestUpdate, InCallback, StartActivityForResult, PushActivity,
        ReplaceActivity, PopActivity, EnterInitialises, TakeLock, LockTaken,
        ChangeState, ReportCrash, CallWait, PingRender, WaitOver, Return, MainLoop,
        LoopBegin, GoToSleep, Dispatch, DispatchAcquire, SwitchPop,
        SwitchLaunch, DispatchRelease, GoHome, FlushTest, FlushClear,
        FlushNotify, LoopEnd, PoweredDown, vars, renderVars
  <2>2. rendering = current /\ current # NULL
    BY <2>1 DEF IInv, RenderedIsCurrent
  <2>3. mpc # "switch" /\ mpc # "goHome"
    BY <2>1, <2>2 DEF IInv, LockInv, NavInv, NoneOnlyGoingHome, GoingHome
  <2>4. current' = current
    BY <1>2, <2>3
    DEF Callback, RequestUpdate, InCallback, StartActivityForResult, PushActivity,
        ReplaceActivity, PopActivity, EnterInitialises, TakeLock, LockTaken,
        ChangeState, ReportCrash, CallWait, PingRender, WaitOver, Return, MainLoop,
        LoopBegin, GoToSleep, Dispatch, DispatchAcquire, SwitchPop,
        SwitchLaunch, DispatchRelease, GoHome, FlushTest, FlushClear,
        FlushNotify, LoopEnd, PoweredDown, vars, navVars
  <2> QED
    BY <2>1, <2>2, <2>4
<1> QED
  BY <1>1, <1>2 DEF Next

(* Every step keeps track of the updates that are owed.                         *)
LEMMA NextUpdate == IInv /\ [Next]_vars => UpdateNotLost'
<1> SUFFICES ASSUME IInv, [Next]_vars PROVE UpdateNotLost'
  OBVIOUS
<1> USE DEF IInv, TypeOK, Task, UpdateNotLost, lockVars, mainVars, renderVars,
            drawVars
<1>1. CASE RenderTask
  BY <1>1
  DEF RenderTask, RenderWake, RenderAcquire, RenderStart, RenderRequest,
      RenderEnd, WakeWaiter, RenderRelease, Notify
<1>2. CASE Callback
  BY <1>2
  DEF Callback, RequestUpdate, InCallback, StartActivityForResult, PushActivity,
      ReplaceActivity, PopActivity, EnterInitialises, TakeLock, LockTaken,
      ChangeState, ReportCrash, CallWait, PingRender, WaitOver, Return, Notify
<1>3. CASE MainLoop
  BY <1>3
  DEF MainLoop, LoopBegin, GoToSleep, Dispatch, DispatchAcquire, SwitchPop,
      SwitchLaunch, DispatchRelease, GoHome, FlushTest, FlushClear,
      FlushNotify, LoopEnd, PoweredDown, Notify, vars
<1>4. CASE UNCHANGED vars
  BY <1>4 DEF vars
<1> QED
  BY <1>1, <1>2, <1>3, <1>4 DEF Next

\* Until the crash report has asked for its frame, the render task sleeps.
LEMMA NextFirst == IInv /\ [Next]_vars => FirstFrame'
<1> SUFFICES ASSUME IInv, [Next]_vars, report' PROVE FirstFrame'
  BY DEF FirstFrame
<1> USE DEF FirstFrame, lockVars, mainVars, renderVars, navVars
<1>1. report
  BY DEF Next, RenderTask, RenderWake, RenderAcquire, RenderStart, RenderRequest,
         RenderEnd, WakeWaiter, RenderRelease, Callback, RequestUpdate,
         StartActivityForResult, PushActivity, ReplaceActivity, PopActivity,
         EnterInitialises, TakeLock, LockTaken, ChangeState, ReportCrash, CallWait,
         PingRender, WaitOver, Return, MainLoop, LoopBegin, GoToSleep, Dispatch,
         DispatchAcquire, SwitchPop, SwitchLaunch, DispatchRelease, GoHome,
         FlushTest, FlushClear, FlushNotify, LoopEnd, PoweredDown, vars
<1>2. /\ rpc = "wait" /\ ~notified["render"]
      /\ \/ mpc \in {"dispatch", "acquire", "switch"} /\ action = "Replace"
         \/ mpc \in {"release", "run"} /\ ctx = "enter"
  BY <1>1 DEF IInv, WaitInv
<1>3. CASE RenderTask
  BY <1>2, <1>3
  DEF RenderTask, RenderWake, RenderAcquire, RenderStart, RenderRequest,
      RenderEnd, WakeWaiter, RenderRelease
<1>4. CASE Callback
  BY <1>1, <1>2, <1>4
  DEF Callback, RequestUpdate, InCallback, StartActivityForResult, PushActivity,
      ReplaceActivity, PopActivity, EnterInitialises, TakeLock, LockTaken,
      ChangeState, ReportCrash, CallWait, PingRender, WaitOver, Return
<1>5. CASE MainLoop
  BY <1>2, <1>5
  DEF MainLoop, LoopBegin, GoToSleep, Dispatch, DispatchAcquire, SwitchPop,
      SwitchLaunch, DispatchRelease, GoHome, FlushTest, FlushClear,
      FlushNotify, LoopEnd, PoweredDown, vars
<1>6. CASE UNCHANGED vars
  BY <1>2, <1>6 DEF vars
<1> QED
  BY <1>3, <1>4, <1>5, <1>6 DEF Next

(* Every step keeps the stages of a wait.                                       *)
LEMMA NextWait == IInv /\ [Next]_vars => WaitInv'
<1> SUFFICES ASSUME IInv, [Next]_vars PROVE WaitInv'
  OBVIOUS
<1>5. FirstFrame'
  BY NextFirst
<1>6. ReportCrash => rpc = "wait"
  BY DEF ReportCrash, IInv, WaitInv, FirstFrame
<1> USE HeapAssumption, <1>5
    DEF IInv, TypeOK, Task, WaitInv, WaitPlaces, WaiterIsBlocked,
        InCallback, lockVars, mainVars, renderVars, drawVars
<1>1. CASE RenderTask
  <2>1. mpc \in WaitPlaces => current # NULL
    BY SomeCurrent
  <2> QED
    BY <1>1, <2>1
    DEF RenderTask, RenderWake, RenderAcquire, RenderStart, RenderRequest,
        RenderEnd, WakeWaiter, RenderRelease, Notify, navVars
<1>2. CASE Callback
  BY <1>2, <1>6
  DEF LockInv, Callback, RequestUpdate, InCallback, StartActivityForResult, PushActivity,
      ReplaceActivity, PopActivity, EnterInitialises, TakeLock, LockTaken,
      ChangeState, ReportCrash, CallWait, PingRender, WaitOver, Return, Notify
<1>3. CASE MainLoop
  BY <1>3
  DEF MainLoop, LoopBegin, GoToSleep, Dispatch, DispatchAcquire, SwitchPop,
      SwitchLaunch, DispatchRelease, GoHome, FlushTest, FlushClear,
      FlushNotify, LoopEnd, PoweredDown, Notify, vars
<1>4. CASE UNCHANGED vars
  BY <1>4 DEF vars
<1> QED
  BY <1>1, <1>2, <1>3, <1>4 DEF Next

-----------------------------------------------------------------------------

\* Every reachable state satisfies the inductive invariant.
THEOREM Invariance == Spec => []IInv
<1>1. IInv /\ [Next]_vars => IInv'
  BY NextType, NextLock, NextNav, NextRendered, NextWait, NextUpdate DEF IInv
<1> QED
  BY InitIInv, <1>1, PTL DEF Spec

\* The variables of ActivityManager and of its two tasks keep their types.
THEOREM TypeCorrect == Spec => []TypeOK
<1>1. IInv => TypeOK
  BY DEF IInv
<1> QED
  BY <1>1, Invariance, PTL

\* The render task never draws an activity that was exited or deleted.
THEOREM RendersCurrent == Spec => []RenderedIsCurrent
<1>1. IInv => RenderedIsCurrent
  BY DEF IInv
<1> QED
  BY <1>1, Invariance, PTL

\* The dispatch loop never spins on a launch that lost its activity.
THEOREM LaunchesPending == Spec => []PendingIsLaunchable
<1>1. IInv => PendingIsLaunchable
  BY DEF IInv, NavInv
<1> QED
  BY <1>1, Invariance, PTL

\* No activity is deleted twice or drawn through a second owner: the stack,
\* the current activity and the pending one are all different.
THEOREM ActivitiesOwned == Spec => []OwnedOnce
<1>1. IInv => OwnedOnce
  BY DEF IInv, NavInv
<1> QED
  BY <1>1, Invariance, PTL

\* A handler is called with the result of the child it was set for, at any
\* depth of the stack.
THEOREM HandlersMatch == Spec => []HandlerGetsItsChild
<1>1. IInv => HandlerGetsItsChild
  <2> SUFFICES ASSUME IInv, stack # <<>>
               PROVE  expects[Top] \in {NULL, current}
    BY DEF HandlerGetsItsChild
  <2>1. Len(stack) \in 1..Len(stack)
    BY DEF IInv, TypeOK
  <2> QED
    BY <2>1 DEF IInv, NavInv, HandlerChain, Top
<1> QED
  BY <1>1, Invariance, PTL

\* requestUpdateAndWait() never aborts, and its handle never goes stale.
THEOREM WaitersBlock == Spec => []WaiterIsBlocked
<1>1. IInv => WaiterIsBlocked
  BY DEF IInv, WaitInv
<1> QED
  BY <1>1, Invariance, PTL

\* The render that wakes requestUpdateAndWait() has drawn the new state.
THEOREM WaitsShow == Spec => []WaitShowsState
<1>1. IInv => WaitShowsState
  BY DEF IInv, WaitInv, WaitShowsState
<1> QED
  BY <1>1, Invariance, PTL

\* An update request stays somewhere until a render takes it up.
THEOREM UpdatesKept == Spec => []UpdateNotLost
<1>1. IInv => UpdateNotLost
  BY DEF IInv
<1> QED
  BY <1>1, Invariance, PTL

-----------------------------------------------------------------------------
(* Each step is one of ScreenStack, or none.                                    *)
StackStep == Screens!Next \/ UNCHANGED Screens!vars

\* The stack that is shown, entry by entry.
LEMMA OpenScreens ==
  ASSUME IInv, current # NULL
  PROVE  /\ Open = Append(stack, current) /\ Open # <<>> /\ Screens!Shown = current
         /\ Len(Open) = Len(stack) + 1
         /\ \A i \in 1..Len(stack) : Open[i] = stack[i]
         /\ \A a : Screens!IsOpen(a) <=> a = current \/ OnStack(a)
<1>1. stack \in Seq(Activity) /\ current \in Activity
  BY DEF IInv, TypeOK
<1>2. /\ Open = Append(stack, current) /\ Len(Open) = Len(stack) + 1
      /\ Open[Len(stack) + 1] = current /\ Len(stack) \in Nat
      /\ \A i \in 1..Len(stack) : Open[i] = stack[i]
  BY <1>1 DEF Open
<1>3. \A i : i \in 1..Len(Open) <=> i \in 1..Len(stack) \/ i = Len(stack) + 1
  BY <1>2
<1>4. Open # <<>>
  BY <1>1, <1>2
<1> QED BY <1>2, <1>3, <1>4 DEF Screens!Shown, Screens!IsOpen, OnStack

\* Steps that leave stack, handlers of the stack and drawing alone.
LEMMA StackFrame ==
  ASSUME IInv, UNCHANGED <<current, stack, renderVars>>,
         \A a \in Activity : OnStack(a) => expects'[a] = expects[a]
  PROVE  StackStep
<1>1. Open' = Open /\ Drawing' = Drawing
  BY DEF Open, Drawing, renderVars
<1>2. Asked' = Asked
  BY DEF Asked, OnStack
<1> QED BY <1>1, <1>2 DEF StackStep, Screens!vars

\* The render task draws the last screen, and nothing else of the stack.
LEMMA RenderOnStack ==
  ASSUME IInv, RenderTask
  PROVE  StackStep
<1>1. Open' = Open /\ Asked' = Asked
  BY DEF Open, Asked, navVars, RenderTask, RenderWake, RenderAcquire, RenderStart,
         RenderRequest, RenderEnd, WakeWaiter, RenderRelease
<1>2. CASE RenderStart /\ current # NULL
  <2>1. Drawing = NULL /\ Drawing' = current
    BY <1>2 DEF Drawing, RenderStart
  <2>2. Open # <<>> /\ Screens!Shown = current
    BY <1>2, OpenScreens
  <2> QED BY <1>1, <2>1, <2>2 DEF StackStep, Screens!Next, Screens!Draw
<1>3. CASE RenderEnd
  <2>1. Drawing # NULL /\ Drawing' = NULL
    BY <1>3 DEF Drawing, RenderEnd, IInv, RenderedIsCurrent
  <2> QED BY <1>1, <2>1 DEF StackStep, Screens!Next, Screens!Drawn
<1>4. CASE RenderRequest
  BY <1>1, <1>4 DEF RenderRequest, renderVars, Drawing, StackStep, Screens!vars
<1>5. CASE RenderWake \/ RenderAcquire \/ WakeWaiter \/ RenderRelease
           \/ (RenderStart /\ current = NULL)
  <2>1. Drawing' = Drawing
    BY <1>5 DEF Drawing, RenderWake, RenderAcquire, WakeWaiter, RenderRelease, RenderStart
  <2> QED BY <1>1, <2>1 DEF StackStep, Screens!vars
<1> QED BY <1>2, <1>3, <1>4, <1>5 DEF RenderTask

\* What callbacks ask for is not done yet.
LEMMA AskedOnStack ==
  ASSUME IInv,
         \/ Callback \/ GoToSleep \/ LoopBegin \/ Dispatch \/ DispatchAcquire
         \/ DispatchRelease \/ FlushTest \/ FlushClear \/ FlushNotify \/ LoopEnd \/ PoweredDown
  PROVE  StackStep
<1>1. CASE \E child \in Fresh : StartActivityForResult(child)
  <2>1. /\ UNCHANGED <<current, stack, renderVars>>
        /\ \E child : expects' = [expects EXCEPT ![current] = child]
    BY <1>1 DEF StartActivityForResult
  <2>2. \A a \in Activity : OnStack(a) => a # current
    BY DEF IInv, NavInv, OwnedOnce
  <2>3. \A a \in Activity : OnStack(a) => expects'[a] = expects[a]
    BY <2>1, <2>2 DEF IInv, TypeOK
  <2> QED BY <2>1, <2>3, StackFrame
<1>2. ASSUME UNCHANGED <<current, stack, expects, renderVars>>
      PROVE  StackStep
  BY <1>2, StackFrame
<1> QED
  BY <1>1, <1>2
  DEF Callback, RequestUpdate, InCallback, PushActivity, ReplaceActivity, PopActivity, EnterInitialises,
      TakeLock, LockTaken, ChangeState, ReportCrash, CallWait, PingRender, WaitOver, Return, GoToSleep,
      LoopBegin, Dispatch, DispatchAcquire, DispatchRelease, FlushTest, FlushClear,
      FlushNotify, LoopEnd, PoweredDown, navVars, vars

\* Under the lock of the main task nothing is drawn.
LEMMA SwitchUndrawn ==
  ASSUME IInv, mpc = "switch", UNCHANGED renderVars
  PROVE  Drawing = NULL /\ Drawing' = NULL
BY HeapAssumption DEF IInv, LockInv, Drawing, renderVars, Task

\* A pop leaves one screen; its result is for the one that is uncovered.
LEMMA PopOnStack ==
  ASSUME IInv, SwitchPop
  PROVE  StackStep
<1> DEFINE n == Len(stack)
<1>1. /\ mpc = "switch" /\ action = "Pop" /\ current # NULL /\ current \in Activity
      /\ stack \in Seq(Activity) /\ n \in Nat /\ expects \in [Activity -> Activity \cup {NULL}]
  BY DEF SwitchPop, IInv, TypeOK
<1>2. Drawing = NULL /\ Drawing' = NULL
  BY <1>1, SwitchUndrawn DEF SwitchPop
<1>3. CASE stack = <<>>
  <2>1. current' = NULL /\ stack' = <<>>
    BY <1>3 DEF SwitchPop
  <2>2. Open = <<current>> /\ Open' = <<>>
    BY <1>1, <1>3, <2>1 DEF Open
  <2>3. Asked' = Asked
    BY <1>3, <2>1 DEF Asked
  <2>4. Open # <<>> /\ Len(Open) = 1 /\ SubSeq(Open, 1, Len(Open) - 1) = <<>>
    BY <2>2
  <2> QED BY <1>2, <2>2, <2>3, <2>4 DEF StackStep, Screens!Next, Screens!Leave
<1>4. CASE stack # <<>>
  <2>1. /\ current' = stack[n] /\ stack' = SubSeq(stack, 1, n - 1)
        /\ expects' = [expects EXCEPT ![current] = NULL, ![stack[n]] = NULL]
    BY <1>4 DEF SwitchPop, Top, Below, HandlerTaken
  <2>2. n \in 1..n /\ n - 1 \in Nat /\ \A i \in 1..n : stack[i] \in Activity
    BY <1>1, <1>4
  <2>3. /\ Open = Append(stack, current) /\ Open # <<>> /\ Len(Open) = n + 1
        /\ Screens!Shown = current /\ \A i \in 1..n : Open[i] = stack[i]
    BY <1>1, OpenScreens
  <2>4. Screens!Covered = stack[n] /\ Len(Open) # 1
    BY <2>2, <2>3 DEF Screens!Covered
  <2>5. SubSeq(Open, 1, Len(Open) - 1) = stack
    BY <1>1, <2>3
  <2>6. /\ Len(stack') = n - 1 /\ stack' \in Seq(Activity)
        /\ \A i \in 1..(n - 1) : stack'[i] = stack[i]
    <3>1. \A i \in 1..(n - 1) : stack[i] \in Activity
      BY <1>1
    <3>2. /\ stack' \in Seq(Activity)
          /\ Len(stack') = IF 1 <= n - 1 THEN (n - 1) - 1 + 1 ELSE 0
          /\ \A i \in 1..((n - 1) - 1 + 1) : stack'[i] = stack[1 + i - 1]
      BY <1>1, <2>1, <2>2, <3>1, SubSeqProperties
    <3>3. \A m \in Nat : m - 1 + 1 = m /\ (1 <= m \/ m = 0)
      OBVIOUS
    <3>4. \A i \in 1..(n - 1) : 1 + i - 1 = i
      OBVIOUS
    <3> QED
      BY <2>2, <3>2, <3>3, <3>4
  <2>7. Open' = stack
    <3>1. Open' = Append(stack', stack[n])
      BY <2>1, <2>2, HeapAssumption DEF Open
    <3>2. /\ Append(stack', stack[n]) \in Seq(Activity) /\ Len(Append(stack', stack[n])) = n
          /\ \A i \in 1..n : Append(stack', stack[n])[i] = stack[i]
      BY <1>1, <2>2, <2>6
    <3> QED BY <1>1, <3>1, <3>2, SeqEqual
  <2>8. \A a \in Activity : OnStack(a)' <=> OnStack(a) /\ a # stack[n]
    <3>1. \A i \in 1..n : i # n => i \in 1..(n - 1)
      BY <2>2
    <3>2. \A i \in 1..(n - 1) : i \in 1..n /\ stack[i] # stack[n]
      BY <2>2 DEF IInv, NavInv, OwnedOnce
    <3> QED BY <2>2, <2>6, <3>1, <3>2 DEF OnStack
  <2>9. expects[stack[n]] \in {NULL, current} /\ stack[n] \in Activity /\ OnStack(stack[n])
    BY <2>2 DEF IInv, NavInv, HandlerChain, OnStack
  <2>10. ~OnStack(current)
    BY DEF IInv, NavInv, OwnedOnce
  <2>11. Asked = [a \in Activity |-> IF OnStack(a) THEN expects[a] ELSE NULL]
    BY DEF Asked, OnStack
  <2>12. Asked' = [a \in Activity |-> IF OnStack(a)' THEN expects'[a] ELSE NULL]
    BY DEF Asked, OnStack
  <2>13. \A a \in Activity : OnStack(a) /\ a # stack[n] => expects'[a] = expects[a]
    BY <1>1, <2>1, <2>10
  <2> HIDE DEF n
  <2>14. Asked[stack[n]] \in {NULL, current} /\ Asked' = [Asked EXCEPT ![stack[n]] = NULL]
    BY <2>8, <2>9, <2>11, <2>12, <2>13
  <2> QED BY <1>2, <2>3, <2>4, <2>5, <2>7, <2>14 DEF StackStep, Screens!Next, Screens!Leave
<1> QED BY <1>3, <1>4

\* A launch opens one screen, above the current one or instead of all.
LEMMA LaunchOnStack ==
  ASSUME IInv, SwitchLaunch
  PROVE  StackStep
<1> DEFINE n == Len(stack)
<1>1. /\ mpc = "switch" /\ current # NULL /\ current \in Activity
      /\ pending \in Activity /\ pending # current /\ ~OnStack(pending) /\ ~OnStack(current)
      /\ stack \in Seq(Activity) /\ n \in Nat /\ expects \in [Activity -> Activity \cup {NULL}]
  BY SomeCurrent DEF SwitchLaunch, IInv, TypeOK, NavInv, OwnedOnce
<1>2. Drawing = NULL /\ Drawing' = NULL
  BY <1>1, SwitchUndrawn DEF SwitchLaunch
<1>3. current' = pending /\ pending # NULL
  BY DEF SwitchLaunch
<1>4. /\ Open = Append(stack, current) /\ Open # <<>> /\ Screens!Shown = current
      /\ ~Screens!IsOpen(pending)
  BY <1>1, OpenScreens
<1>5. CASE action = "Replace"
  <2>1. stack' = <<>>
    BY <1>5 DEF SwitchLaunch
  <2>2. Open' = <<pending>> /\ Asked' = Screens!Nothing
    BY <1>3, <2>1 DEF Open, Asked, Screens!Nothing
  <2> QED BY <1>1, <1>2, <1>4, <2>2 DEF StackStep, Screens!Next, Screens!Replace
<1>6. CASE action # "Replace"
  <2>1. stack' = Append(stack, current) /\ expects' = expects /\ action = "Push"
    BY <1>6 DEF SwitchLaunch
  <2>2. Open' = Append(Open, pending)
    BY <1>3, <1>4, <2>1 DEF Open
  <2>3. \A a : OnStack(a)' <=> OnStack(a) \/ a = current
    <3>1. /\ Len(stack') = n + 1 /\ stack'[n + 1] = current
          /\ \A i \in 1..n : stack'[i] = stack[i]
      BY <1>1, <2>1
    <3> QED BY <1>1, <3>1 DEF OnStack
  <2>4. expects[current] \in {NULL, pending}
    BY <1>1, <2>1 DEF IInv, NavInv, HandlerChain
  <2>5. Asked = [a \in Activity |-> IF OnStack(a) THEN expects[a] ELSE NULL]
    BY DEF Asked, OnStack
  <2>6. Asked' = [a \in Activity |-> IF OnStack(a)' THEN expects'[a] ELSE NULL]
    BY DEF Asked, OnStack
  <2>7. Asked' = Asked \/ Asked' = [Asked EXCEPT ![current] = pending]
    BY <1>1, <2>1, <2>3, <2>4, <2>5, <2>6
  <2> QED BY <1>1, <1>2, <1>4, <2>2, <2>7 DEF StackStep, Screens!Next, Screens!Open
<1> QED BY <1>5, <1>6

\* With no screen left the home screen is the first one.
LEMMA HomeOnStack ==
  ASSUME IInv, NEW home \in Fresh, GoHome(home)
  PROVE  StackStep
<1>1. /\ current = NULL /\ stack = <<>> /\ current' = home /\ home \in Activity
      /\ UNCHANGED <<stack, renderVars>>
  BY DEF GoHome, Fresh, IInv, NavInv, NoneOnlyGoingHome, GoingHome
<1>2. Open = <<>> /\ Open' = Append(Open, home)
  BY <1>1, HeapAssumption DEF Open
<1>3. Asked' = Asked
  BY <1>1 DEF Asked
<1>4. Drawing = NULL /\ Drawing' = NULL
  BY <1>1 DEF Drawing, renderVars, IInv, RenderedIsCurrent
<1>5. ~Screens!IsOpen(home)
  BY <1>2 DEF Screens!IsOpen
<1> QED BY <1>1, <1>2, <1>3, <1>4, <1>5 DEF StackStep, Screens!Next, Screens!Open

\* Every step is one of the stack, or none.
LEMMA NextOnStack == IInv /\ [Next]_vars => StackStep
<1> SUFFICES ASSUME IInv, [Next]_vars PROVE StackStep
  OBVIOUS
<1>1. CASE UNCHANGED vars
  BY <1>1, StackFrame DEF vars, navVars
<1> QED
  BY <1>1, RenderOnStack, AskedOnStack, PopOnStack, LaunchOnStack, HomeOnStack
  DEF Next, MainLoop

\* At the start the boot screen is the only one.
LEMMA InitOnStack == Init => Screens!Init
BY HeapAssumption DEF Init, Open, Asked, Drawing, Screens!Init, Screens!Nothing

\* The manager implements ScreenStack: whatever two tasks and any callbacks do,
\* screens open and go one at a time and not while one is drawn, what is drawn
\* is the last one, and a result goes to the screen that asked for it.
THEOREM StackKept == Spec => KeepsStack
<1>1. IInv /\ [Next]_vars => [Screens!Next]_(Screens!vars)
  BY NextOnStack DEF StackStep
<1> QED
  BY <1>1, InitOnStack, Invariance, PTL DEF Spec, KeepsStack, Screens!Spec
=============================================================================
