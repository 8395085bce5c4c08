--------------------------- MODULE ActivityManager ---------------------------
(***************************************************************************)
(* The screen manager of the firmware (src/activities): the main task runs *)
(* the callbacks of the current activity and applies the navigation they   *)
(* ask for, the render task draws the current activity, one mutex          *)
(* (RenderLock) and the direct-to-task notifications of FreeRTOS keep them *)
(* apart.  An activity is a heap object: a member of Activity that is      *)
(* owned by currentActivity, pendingActivity or stackActivities, and free  *)
(* for reuse once it is deleted.                                           *)
(***************************************************************************)
EXTENDS Naturals, Sequences

CONSTANTS
    Activity,     \* the activity objects the heap can hold
    SleepScreen,  \* the one SleepActivity, made by goToSleep()
    NULL          \* a null pointer, or a mutex nobody holds

Task == {"main", "render"}

ASSUME HeapAssumption ==
    SleepScreen \in Activity /\ NULL \notin Activity \cup Task

VARIABLES
    current,          \* currentActivity
    stack,            \* stackActivities, the top last
    pending,          \* pendingActivity
    action,           \* pendingAction
    expects,          \* the child each activity's resultHandler was set for
    requestedUpdate,  \* the deferred render request
    waiter,           \* waitingTaskHandle
    mutex,            \* the holder of renderingMutex
    notified,         \* per task: is its notification count above zero
    mpc,              \* where the main task is
    ctx,              \* which callback the main task is in, or goes to
    thenWait,         \* requestUpdateAndWait() follows the state change
    sleeping,         \* the main task is in enterDeepSleep()
    report,           \* this boot's first screen is a CrashActivity to enter
    rpc,              \* where the render task is
    rendering,        \* the activity whose render() is running
    dirty,            \* the current activity changed since it was last drawn
    owed              \* an update was requested and no render began since

navVars   == <<current, stack, pending, action, expects>>
lockVars  == <<mutex, notified, waiter>>
mainVars  == <<mpc, ctx, thenWait, sleeping, report>>
renderVars == <<rpc, rendering>>
drawVars  == <<requestedUpdate, dirty, owed>>
vars == <<navVars, lockVars, mainVars, renderVars, drawVars>>

-----------------------------------------------------------------------------
(* Helpers *)

\* The objects some owner still points to; the others can be allocated.
Owned == {current, pending} \cup {stack[i] : i \in 1..Len(stack)}
Fresh == Activity \ (Owned \cup {SleepScreen})

Top   == stack[Len(stack)]
Below == SubSeq(stack, 1, Len(stack) - 1)

LockIgnored == TRUE  \* the caller does not wait for the mutex

\* xSemaphoreTake(renderingMutex, portMAX_DELAY) returns.
LockFree == mutex = NULL

\* xTaskNotify(task, 1, eIncrement).  The receiver clears the whole count
\* when it takes it, so only "zero or not" is ever observed.
Notify(task) == notified' = [notified EXCEPT ![task] = TRUE]

-----------------------------------------------------------------------------
(* setup() leaves the boot screen current and has asked for the first      *)
(* screen (home, reader or crash report).  The boot screen's loop() is     *)
(* empty: the first loop() starts with the dispatch.                       *)

Init ==
    /\ current \in Activity \ {SleepScreen}
    /\ stack = <<>>
    /\ pending \in Activity \ {SleepScreen, current}
    /\ action = "Replace"
    /\ expects = [a \in Activity |-> NULL]
    /\ requestedUpdate = FALSE
    /\ waiter = NULL
    /\ mutex = NULL
    /\ notified = [t \in Task |-> FALSE]
    /\ mpc = "dispatch"
    /\ ctx = "loop"
    /\ thenWait = FALSE
    /\ sleeping = FALSE
    /\ report \in BOOLEAN
    /\ rpc = "wait"
    /\ rendering = NULL
    /\ dirty = TRUE
    /\ owed = FALSE

-----------------------------------------------------------------------------
(* The render task *)

RenderWake ==
    /\ rpc = "wait" /\ notified["render"]
    /\ notified' = [notified EXCEPT !["render"] = FALSE]
    /\ rpc' = "acquire"
    /\ UNCHANGED <<navVars, mutex, waiter, mainVars, rendering, drawVars>>

RenderAcquire ==
    /\ rpc = "acquire" /\ LockFree
    /\ mutex' = "render"
    /\ rpc' = "check"
    /\ UNCHANGED <<navVars, notified, waiter, mainVars, rendering, drawVars>>

\* The null check and the start of render(), under the lock.
RenderStart ==
    /\ rpc = "check"
    /\ owed' = FALSE
    /\ IF current # NULL
       THEN rpc' = "render" /\ rendering' = current /\ dirty' = FALSE
       ELSE rpc' = "done" /\ UNCHANGED <<rendering, dirty>>
    /\ UNCHANGED <<navVars, lockVars, mainVars, requestedUpdate>>

\* render() of the home and the book screens asks for another update.
RenderRequest ==
    /\ rpc = "render"
    /\ requestedUpdate' = TRUE
    /\ owed' = TRUE
    /\ UNCHANGED <<navVars, lockVars, mainVars, renderVars, dirty>>

RenderEnd ==
    /\ rpc = "render"
    /\ rpc' = "done"
    /\ rendering' = NULL
    /\ UNCHANGED <<navVars, lockVars, mainVars, drawVars>>

\* Take the waiting task's handle and wake it, still under the lock.
WakeWaiter ==
    /\ rpc = "done"
    /\ IF waiter = NULL THEN UNCHANGED notified ELSE Notify("main")
    /\ waiter' = NULL
    /\ rpc' = "release"
    /\ UNCHANGED <<navVars, mutex, mainVars, rendering, drawVars>>

RenderRelease ==
    /\ rpc = "release"
    /\ mutex' = NULL
    /\ rpc' = "wait"
    /\ UNCHANGED <<navVars, notified, waiter, mainVars, rendering, drawVars>>

-----------------------------------------------------------------------------
(* What the callbacks of an activity (loop, onEnter, a result handler) may *)
(* call.  The main task is inside one when mpc = "run".  The first screen  *)
(* of a boot after a panic only waits for its frame in onEnter().          *)

InCallback == mpc = "run" /\ ~report

\* requestUpdate(): immediate notifies the render task, else a flag is set.
\* Between two loops main.cpp asks for one too, when USB is (un)plugged.
RequestUpdate(immediate) ==
    /\ InCallback \/ (mpc = "top" /\ ~immediate)
    /\ owed' = TRUE
    /\ IF immediate
       THEN Notify("render") /\ UNCHANGED requestedUpdate
       ELSE requestedUpdate' = TRUE /\ UNCHANGED notified
    /\ UNCHANGED <<navVars, mutex, waiter, mainVars, renderVars, dirty>>

\* startActivityForResult(): remember the handler, then pushActivity(),
\* which drops an activity that was already pending.
StartActivityForResult(child) ==
    /\ InCallback
    /\ expects' = [expects EXCEPT ![current] = child]
    /\ pending' = child
    /\ action' = "Push"
    /\ UNCHANGED <<current, stack, lockVars, mainVars, renderVars, drawVars>>

\* goToBluetoothSettings(), from the reader menu's result handler: a push
\* without a handler.
PushActivity(child) ==
    /\ InCallback /\ ctx = "handler" /\ action = "None"
    /\ pending' = child
    /\ action' = "Push"
    /\ UNCHANGED <<current, stack, expects, lockVars, mainVars, renderVars,
                   drawVars>>

\* replaceActivity() while an activity is current: launched later.
ReplaceActivity(new) ==
    /\ InCallback
    /\ pending' = new
    /\ action' = "Replace"
    /\ UNCHANGED <<current, stack, expects, lockVars, mainVars, renderVars,
                   drawVars>>

PopKeepsPending ==  \* finish() that leaves the pending activity in place
    /\ InCallback
    /\ action' = "Pop"
    /\ UNCHANGED <<current, stack, pending, expects, lockVars, mainVars,
                   renderVars, drawVars>>

\* finish(): popActivity() drops an activity that was already pending.
PopActivity ==
    /\ InCallback
    /\ pending' = NULL
    /\ action' = "Pop"
    /\ UNCHANGED <<current, stack, expects, lockVars, mainVars, renderVars,
                   drawVars>>

\* onEnter() initialises the members render() reads, outside the lock.
EnterInitialises ==
    /\ InCallback /\ ctx = "enter"
    /\ dirty' = TRUE
    /\ UNCHANGED <<navVars, lockVars, mainVars, renderVars, requestedUpdate,
                   owed>>

\* { RenderLock lock; state = ...; } with or without requestUpdateAndWait()
\* after it, in onEnter() too (KOReaderSyncActivity when Wi-Fi is up).  The
\* screenshot chord of main.cpp takes the lock as well.
TakeLock(wait) ==
    /\ InCallback \/ (mpc = "top" /\ ~wait)
    /\ mpc' = "lock"
    /\ ctx' = IF mpc = "top" THEN "top" ELSE ctx
    /\ thenWait' = wait
    /\ UNCHANGED <<navVars, lockVars, sleeping, report, renderVars, drawVars>>

LockTaken ==
    /\ mpc = "lock" /\ LockFree
    /\ mutex' = "main"
    /\ mpc' = "mutate"
    /\ UNCHANGED <<navVars, notified, waiter, ctx, thenWait, sleeping, report,
                   renderVars, drawVars>>

ChangeState ==
    /\ mpc = "mutate"
    /\ dirty' = (dirty \/ ctx # "top")
    /\ mutex' = NULL
    /\ mpc' = CASE ctx = "top" -> "top"
                [] thenWait    -> "callWait"
                [] OTHER       -> "run"
    /\ ctx' = IF ctx = "top" THEN "loop" ELSE ctx
    /\ thenWait' = FALSE
    /\ UNCHANGED <<navVars, notified, waiter, sleeping, report, renderVars,
                   requestedUpdate, owed>>

\* CrashActivity::onEnter() takes over the panic's text and waits for its
\* frame, without the lock: nothing has asked for a frame in this boot yet.
ReportCrash ==
    /\ mpc = "run" /\ report
    /\ report' = FALSE
    /\ dirty' = TRUE
    /\ mpc' = "callWait"
    /\ UNCHANGED <<navVars, lockVars, ctx, thenWait, sleeping, renderVars,
                   requestedUpdate, owed>>

\* requestUpdateAndWait(): the critical section and its assertions.
CallWait ==
    /\ mpc = "callWait"
    /\ IF waiter # NULL \/ mutex = "main"
       THEN mpc' = "abort" /\ UNCHANGED waiter
       ELSE mpc' = "ping" /\ waiter' = "main"
    /\ UNCHANGED <<navVars, mutex, notified, ctx, thenWait, sleeping, report,
                   renderVars, drawVars>>

PingForgotten ==  \* blocks without having asked for a render
    /\ mpc = "ping"
    /\ mpc' = "waiting"
    /\ owed' = TRUE
    /\ UNCHANGED <<navVars, lockVars, ctx, thenWait, sleeping, report, renderVars,
                   requestedUpdate, dirty>>

\* ... then notify the render task and block,
PingRender ==
    /\ mpc = "ping"
    /\ Notify("render")
    /\ owed' = TRUE
    /\ mpc' = "waiting"
    /\ UNCHANGED <<navVars, mutex, waiter, ctx, thenWait, sleeping, report,
                   renderVars, requestedUpdate, dirty>>

\* ... until a render has completed.
WaitOver ==
    /\ mpc = "waiting" /\ notified["main"]
    /\ notified' = [notified EXCEPT !["main"] = FALSE]
    /\ mpc' = "run"
    /\ UNCHANGED <<navVars, mutex, waiter, ctx, thenWait, sleeping, report,
                   renderVars, drawVars>>

\* The callback returns.  After a result handler the manager asks for an
\* update unless the handler navigated.
Return ==
    /\ InCallback
    /\ mpc' = "dispatch"
    /\ IF ctx = "handler" /\ action = "None"
       THEN requestedUpdate' = TRUE /\ owed' = TRUE
       ELSE UNCHANGED <<requestedUpdate, owed>>
    /\ ctx' = "loop"
    /\ UNCHANGED <<navVars, lockVars, thenWait, sleeping, report, renderVars, dirty>>

-----------------------------------------------------------------------------
(* The main task: main.cpp's loop and ActivityManager::loop() *)

LoopBegin ==
    /\ mpc = "top"
    /\ mpc' = IF current = NULL THEN "dispatch" ELSE "run"
    /\ UNCHANGED <<navVars, lockVars, ctx, thenWait, sleeping, report, renderVars,
                   drawVars>>

\* goToSleep(), from enterDeepSleep(): replace, then one more loop().
GoToSleep ==
    /\ mpc = "top"
    /\ sleeping' = TRUE
    /\ pending' = SleepScreen
    /\ action' = "Replace"
    /\ mpc' = "run"
    /\ UNCHANGED <<current, stack, expects, lockVars, ctx, thenWait, report,
                   renderVars, drawVars>>

\* while (pendingAction != None): go and take the lock, or leave the loop.
\* A push or a replace without an activity leaves the while spinning.
Dispatch ==
    /\ mpc = "dispatch"
    /\ action \in {"Push", "Replace"} => pending # NULL
    /\ mpc' = IF action = "None" THEN "flush" ELSE "acquire"
    /\ UNCHANGED <<navVars, lockVars, ctx, thenWait, sleeping, report, renderVars,
                   drawVars>>

DispatchAcquire ==
    /\ mpc = "acquire" /\ LockFree
    /\ mutex' = "main"
    /\ mpc' = "switch"
    /\ UNCHANGED <<navVars, notified, waiter, ctx, thenWait, sleeping, report,
                   renderVars, drawVars>>

\* The handler is copied out of the parent and stays set there.
HandlerCopied == [expects EXCEPT ![current] = NULL]

\* The popped activity goes with its handler; the parent's is moved out.
HandlerTaken == [expects EXCEPT ![current] = NULL, ![Top] = NULL]

\* Pop, under the lock: onExit() and delete the current activity, uncover
\* its parent and take over the parent's result handler.
SwitchPop ==
    /\ mpc = "switch" /\ action = "Pop" /\ current # NULL
    /\ action' = "None"
    /\ dirty' = TRUE
    /\ mpc' = "release"
    /\ IF stack = <<>>
       THEN /\ current' = NULL
            /\ ctx' = "home"
            /\ expects' = [expects EXCEPT ![current] = NULL]
            /\ UNCHANGED stack
       ELSE /\ current' = Top
            /\ stack' = Below
            /\ ctx' = IF expects[Top] = NULL THEN "popped" ELSE "handler"
            /\ expects' = HandlerTaken
    /\ UNCHANGED <<pending, lockVars, thenWait, sleeping, report, renderVars,
                   requestedUpdate, owed>>

\* Push or replace, under the lock.  Replacing deletes the current activity
\* and the whole stack, the handlers with them.
SwitchLaunch ==
    /\ mpc = "switch" /\ action \in {"Push", "Replace"} /\ pending # NULL
    /\ IF action = "Replace"
       THEN /\ stack' = <<>>
            /\ expects' = [a \in Activity |-> NULL]
       ELSE /\ stack' = Append(stack, current)
            /\ UNCHANGED expects
    /\ current' = pending
    /\ pending' = NULL
    /\ action' = "None"
    /\ dirty' = TRUE
    /\ ctx' = "enter"
    /\ mpc' = "release"
    /\ UNCHANGED <<lockVars, thenWait, sleeping, report, renderVars,
                   requestedUpdate, owed>>

\* The lock is given back before onEnter(), a handler or goHome() runs.
DispatchRelease ==
    /\ mpc = "release"
    /\ mutex' = NULL
    /\ mpc' = CASE ctx = "home"   -> "goHome"
                [] ctx = "popped" -> "dispatch"
                [] OTHER          -> "run"
    /\ ctx' = IF ctx = "popped" THEN "loop" ELSE ctx
    /\ IF ctx = "popped"
       THEN requestedUpdate' = TRUE /\ owed' = TRUE
       ELSE UNCHANGED <<requestedUpdate, owed>>
    /\ UNCHANGED <<navVars, notified, waiter, thenWait, sleeping, report, renderVars,
                   dirty>>

\* goHome() with no current activity: launched at once, without the lock.
GoHome(home) ==
    /\ mpc = "goHome"
    /\ current' = home
    /\ dirty' = TRUE
    /\ ctx' = "enter"
    /\ mpc' = "run"
    /\ UNCHANGED <<stack, pending, action, expects, lockVars, thenWait,
                   sleeping, report, renderVars, requestedUpdate, owed>>

\* if (requestedUpdate): the test, then the reset, then the notification.
FlushTest ==
    /\ mpc = "flush"
    /\ mpc' = IF requestedUpdate THEN "clear" ELSE "end"
    /\ UNCHANGED <<navVars, lockVars, ctx, thenWait, sleeping, report, renderVars,
                   drawVars>>

ClearOnly ==  \* the flag is reset and nobody is notified
    /\ mpc = "clear"
    /\ requestedUpdate' = FALSE
    /\ mpc' = "end"
    /\ UNCHANGED <<navVars, lockVars, ctx, thenWait, sleeping, report, renderVars,
                   dirty, owed>>

FlushClear ==
    /\ mpc = "clear"
    /\ requestedUpdate' = FALSE
    /\ mpc' = "notify"
    /\ UNCHANGED <<navVars, lockVars, ctx, thenWait, sleeping, report, renderVars,
                   dirty, owed>>

FlushNotify ==
    /\ mpc = "notify"
    /\ Notify("render")
    /\ mpc' = "end"
    /\ UNCHANGED <<navVars, mutex, waiter, ctx, thenWait, sleeping, report,
                   renderVars, drawVars>>

\* loop() returns: to main.cpp's loop, or to enterDeepSleep() which powers
\* the chip down.
LoopEnd ==
    /\ mpc = "end"
    /\ mpc' = IF sleeping THEN "asleep" ELSE "top"
    /\ UNCHANGED <<navVars, lockVars, ctx, thenWait, sleeping, report, renderVars,
                   drawVars>>

\* startDeepSleep() does not return: waking is a reset, so Init again.
PoweredDown == mpc = "asleep" /\ UNCHANGED vars

-----------------------------------------------------------------------------

RenderTask ==
    \/ RenderWake \/ RenderAcquire \/ RenderStart \/ RenderRequest
    \/ RenderEnd \/ WakeWaiter \/ RenderRelease

Callback ==
    \/ \E immediate \in BOOLEAN : RequestUpdate(immediate)
    \/ \E child \in Fresh : StartActivityForResult(child)
    \/ \E child \in Fresh : PushActivity(child)
    \/ \E new \in Fresh : ReplaceActivity(new)
    \/ PopActivity
    \/ EnterInitialises
    \/ \E wait \in BOOLEAN : TakeLock(wait)
    \/ LockTaken \/ ChangeState \/ ReportCrash
    \/ CallWait \/ PingRender \/ WaitOver
    \/ Return

MainLoop ==
    \/ LoopBegin \/ GoToSleep \/ Dispatch \/ DispatchAcquire
    \/ SwitchPop \/ SwitchLaunch \/ DispatchRelease
    \/ \E home \in Fresh : GoHome(home)
    \/ FlushTest \/ FlushClear \/ FlushNotify \/ LoopEnd \/ PoweredDown

Next == RenderTask \/ Callback \/ MainLoop

Spec == Init /\ [][Next]_vars
-----------------------------------------------------------------------------
(* Properties *)

MainPlaces == {"top", "run", "lock", "mutate", "callWait", "ping", "waiting",
               "abort", "dispatch", "acquire", "switch", "release", "goHome",
               "flush", "clear", "notify", "end", "asleep"}
Callbacks  == {"loop", "enter", "handler"}

\* Every variable of ActivityManager and of its two tasks has its type.
TypeOK ==
    /\ current \in Activity \cup {NULL}
    /\ stack \in Seq(Activity)
    /\ pending \in Activity \cup {NULL}
    /\ action \in {"None", "Push", "Pop", "Replace"}
    /\ expects \in [Activity -> Activity \cup {NULL}]
    /\ requestedUpdate \in BOOLEAN
    /\ waiter \in {"main", NULL}
    /\ mutex \in Task \cup {NULL}
    /\ notified \in [Task -> BOOLEAN]
    /\ mpc \in MainPlaces
    /\ ctx \in Callbacks \cup {"top", "home", "popped"}
    /\ thenWait \in BOOLEAN
    /\ sleeping \in BOOLEAN
    /\ report \in BOOLEAN
    /\ rpc \in {"wait", "acquire", "check", "render", "done", "release"}
    /\ rendering \in Activity \cup {NULL}
    /\ dirty \in BOOLEAN
    /\ owed \in BOOLEAN

\* render() never runs on an activity the main task has exited or deleted:
\* while it runs, its object is still currentActivity (the TOCTOU race the
\* comment in renderTaskLoop() speaks of).
RenderedIsCurrent == rpc = "render" => rendering = current /\ current # NULL

\* The while loop of ActivityManager::loop() cannot spin on a push or a
\* replace that has lost its activity, and an activity cannot be left
\* pending with nothing to launch it.
PendingIsLaunchable == (action \in {"Push", "Replace"}) <=> (pending # NULL)

\* A result handler runs with the result of the child it was set for, however
\* pushes, pops and replaces of several callbacks follow each other.
HandlerGetsItsChild ==
    mpc = "switch" /\ action = "Pop" /\ stack # <<>> =>
        expects[Top] \in {NULL, current}

\* The manager is a ScreenStack: although navigation is asked for at one time,
\* launched at another and may be dropped in between, screens open and go one
\* at a time, none of them while one is drawn, and a result goes to who asked
\* for it (loop(), renderTaskLoop(), ActivityManager.cpp:39, 64).
Open == IF current = NULL THEN <<>> ELSE Append(stack, current)
Asked ==
    [a \in Activity |->
       IF \E i \in 1..Len(stack) : stack[i] = a THEN expects[a] ELSE NULL]
Drawing == IF rpc = "render" THEN rendering ELSE NULL
Screens == INSTANCE ScreenStack
  WITH Screen <- Activity, screens <- Open, asked <- Asked, drawn <- Drawing
KeepsStack == Screens!Spec

\* requestUpdateAndWait() never trips its "already waiting" assertion, and
\* the handle it leaves is only there while the main task is blocked on it.
WaiterIsBlocked ==
    /\ mpc # "abort"
    /\ waiter # NULL => mpc \in {"ping", "waiting"}

\* When the main task is woken from requestUpdateAndWait(), the screen shows
\* the state it set before it called, although the render that woke it may
\* be one requested earlier.
WaitShowsState == mpc = "waiting" /\ notified["main"] => ~dirty

\* No update request is lost between the tasks: until a render starts, it is
\* in the flag, in the notification count or in the hands of a task.
UpdateNotLost ==
    owed => \/ requestedUpdate \/ notified["render"]
            \/ rpc \in {"acquire", "check"}
            \/ mpc \in {"clear", "notify"}

\* The device only goes to deep sleep on the sleep screen: the caller of
\* goToSleep() powers down right after it returns.
SleepScreenShown == mpc = "asleep" => current = SleepScreen

-----------------------------------------------------------------------------
(* Liveness.  FreeRTOS runs both tasks (one core, equal priority, time     *)
(* slices).  A task blocked on the mutex gets it: the main loop delays at  *)
(* each turn with the mutex free, and the render task waits for a          *)
(* notification after each frame.  A callback does finitely many things    *)
(* and main.cpp's loop reaches ActivityManager::loop().                    *)

Fairness ==
    /\ WF_vars(RenderWake) /\ SF_vars(RenderAcquire) /\ WF_vars(RenderStart)
    /\ WF_vars(RenderEnd) /\ WF_vars(WakeWaiter) /\ WF_vars(RenderRelease)
    /\ SF_vars(LockTaken) /\ WF_vars(ChangeState) /\ WF_vars(CallWait)
    /\ WF_vars(ReportCrash)
    /\ WF_vars(PingRender) /\ WF_vars(WaitOver) /\ SF_vars(Return)
    /\ SF_vars(LoopBegin) /\ WF_vars(Dispatch) /\ SF_vars(DispatchAcquire)
    /\ WF_vars(SwitchPop) /\ WF_vars(SwitchLaunch) /\ WF_vars(DispatchRelease)
    /\ WF_vars(\E home \in Fresh : GoHome(home))
    /\ WF_vars(FlushTest) /\ WF_vars(FlushClear) /\ WF_vars(FlushNotify)
    /\ WF_vars(LoopEnd)

FairSpec == Spec /\ Fairness

\* A task blocked in requestUpdateAndWait() is always woken.
WaiterWakes == mpc = "waiting" ~> mpc # "waiting"

\* A requested update starts a render, if the main loop keeps turning (the
\* callbacks do not navigate for ever).
UpdateRendered == []<>(mpc = "top") => (owed ~> ~owed)
=============================================================================
