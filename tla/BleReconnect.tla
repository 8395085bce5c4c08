----------------------------- MODULE BleReconnect -----------------------------
(***************************************************************************)
(* The life cycle of the bonded page turner (src/lib/hal/                  *)
(* BluetoothHIDManager and BluetoothSettingsActivity): reconnect and       *)
(* pairing jobs on a worker task, disconnect callbacks of the BLE host,    *)
(* the upkeep of the main loop, the Bluetooth settings screen, and the     *)
(* three things on the card that outlive a reset: the crash guard file,    *)
(* the wake request file and the saved settings.  A reset (crash, power    *)
(* cut, deep sleep) may hit between any two steps.  Times (boot grace,     *)
(* cooldowns, idle limits, the 5 s of an intentional disconnect) are       *)
(* abstracted: whatever waits for one may go on now or later.              *)
(***************************************************************************)
EXTENDS FiniteSets

CONSTANTS
    Remote,       \* the page turners in range, by address
    Worker,       \* the worker tasks that may exist at the same time
    NULL          \* no address

ASSUME RemoteAssumption == NULL \notin Remote

VARIABLES
    guardFile,    \* /.crosspoint/ble_auto_reconnect_guard is there
    wakeFile,     \* /.crosspoint/ble_reconnect_after_wake is there
    saved,        \* SETTINGS.bleBondedDeviceAddr
    btSetting,    \* SETTINGS.bluetoothEnabled
    power,        \* on, or in the way to deep sleep, or off
    crashed,      \* the reset reason of this boot suggests a crash
    suspect,      \* (history) guarded work was cut off by a reset, and the
                  \* user has neither reconnected by hand nor forgotten it since
    left,         \* (history) a reset cut an automatic task off, and the guard
                  \* has been on the card since
    enabled, bond, armed,
    disabled,     \* _autoReconnectDisabledThisBoot
    guardInit,    \* _autoReconnectGuardInitialized
    job,          \* the _reconnectJob... fields
    task,         \* the worker tasks
    tracked,      \* _connectedDevices
    link,         \* the state of the connection to each remote
    mark,         \* _intentionalDisconnectAddress
    events,       \* _connectionEventQueue
    screen,       \* the settings screen: away, or where its loop() is
    polling       \* reconnectJobPending and pairJobPending

card   == <<guardFile, wakeFile, saved, btSetting>>
boot   == <<power, crashed, suspect>>
arming == <<bond, armed, disabled>>
jobs   == <<job, task>>
links  == <<tracked, link, mark, events>>
ui     == <<screen, polling>>
state == <<card, boot, enabled, guardInit, arming, jobs, links, ui>>
vars == <<state, left>>

-----------------------------------------------------------------------------
(* Helpers *)

NoJob  == [running |-> FALSE, automatic |-> FALSE, pairNew |-> FALSE,
           finished |-> FALSE, success |-> FALSE]
NoTask == [at |-> "none", automatic |-> FALSE, pairNew |-> FALSE,
           target |-> NULL, ok |-> FALSE, bare |-> FALSE]

\* The worker still owns the job: it has not cleared _reconnectJobRunning.
Working(w) == task[w].at \in {"begin", "scan", "connect", "bond", "finish"}
AutomaticWork == \E w \in Worker : Working(w) /\ task[w].automatic

\* An automatic worker past the point where it has written the guard file.
PastGuard(w) == /\ task[w].automatic
                /\ task[w].at \in {"scan", "connect", "bond", "finish"}

\* It still has its guard: the end of an earlier worker has not removed it
\* (bare, a history field).
GuardedWork == \E w \in Worker : PastGuard(w) /\ ~task[w].bare

Starts == {"no", "job", "fails"}  \* what checkAutoReconnect() comes to

MainLoop == power = "on" /\ screen # "input"

ArmClearsAlways(clear) == TRUE  \* a guarded boot does not block arming

\* armAutoReconnect() is not blocked by the crash guard.
MayArm(clear) == clear \/ ~disabled

ArmDropsGuard(b, clear) ==  \* the guard of a running job goes as well
    IF b # NULL /\ MayArm(clear)
    THEN /\ armed' = TRUE
         /\ disabled' = (disabled /\ ~clear)
         /\ guardFile' = FALSE
    ELSE UNCHANGED <<armed, disabled, guardFile>>

\* armAutoReconnect() for the bonded address b: the guard file goes too,
\* unless an automatic job is running.
Arm(b, clear) ==
    IF b # NULL /\ MayArm(clear)
    THEN /\ armed' = TRUE
         /\ disabled' = (disabled /\ ~clear)
         /\ guardFile' = (guardFile /\ job.running /\ job.automatic)
    ELSE UNCHANGED <<armed, disabled, guardFile>>

\* startBondedReconnect() and startPairNewRemote() past their checks.
StartJob(automatic, pairNew) ==
    \E w \in Worker :
        /\ task[w] = NoTask
        /\ task' = [task EXCEPT ![w] = [at |-> "begin", automatic |-> automatic,
                                        pairNew |-> pairNew, target |-> NULL,
                                        ok |-> FALSE, bare |-> FALSE]]
        /\ job' = [running |-> TRUE, automatic |-> automatic, pairNew |-> pairNew,
                   finished |-> FALSE, success |-> FALSE]

\* They fail: there is no memory for the task.
StartFails == job' = [NoJob EXCEPT !.finished = TRUE] /\ UNCHANGED task

\* disconnectFromDevice() for each remote of R in turn.  The link goes down
\* later; the mark is that of the last one.
Disconnect(R) ==
    LET open == {r \in R : link[r] = "up"} IN
    /\ tracked' = tracked \ R
    /\ link' = [r \in Remote |-> IF r \in open THEN "closing" ELSE link[r]]
    /\ IF open = {} THEN UNCHANGED mark ELSE mark' \in open

Connected == {r \in tracked : link[r] = "up"}

-----------------------------------------------------------------------------
(* Resets.  RAM is lost; the card stays.                                   *)

RamLost ==
    /\ enabled' = FALSE /\ bond' = NULL /\ armed' = FALSE
    /\ disabled' = FALSE /\ guardInit' = FALSE
    /\ job' = NoJob /\ task' = [w \in Worker |-> NoTask]
    /\ tracked' = {} /\ link' = [r \in Remote |-> "down"]
    /\ mark' = NULL /\ events' = {}
    /\ screen' = "away" /\ polling' = "no"

\* A new device, switched off, Bluetooth never used.
Init ==
    /\ guardFile = FALSE /\ wakeFile = FALSE
    /\ saved = NULL /\ btSetting = FALSE
    /\ power = "off" /\ crashed = FALSE /\ suspect = FALSE /\ left = FALSE
    /\ enabled = FALSE /\ bond = NULL /\ armed = FALSE
    /\ disabled = FALSE /\ guardInit = FALSE
    /\ job = NoJob /\ task = [w \in Worker |-> NoTask]
    /\ tracked = {} /\ link = [r \in Remote |-> "down"]
    /\ mark = NULL /\ events = {}
    /\ screen = "away" /\ polling = "no"

\* A panic or a watchdog (a crash to the next boot), or the power is cut.
Crash(panic) ==
    /\ power # "off"
    /\ power' = "off"
    /\ crashed' = panic
    /\ suspect' = (suspect \/ GuardedWork)
    /\ RamLost
    /\ UNCHANGED card

\* setBondedDevice()
SetBonded(b) ==
    /\ bond' = b
    /\ suspect' = (suspect /\ b # NULL)
    /\ IF b = NULL
       THEN armed' = FALSE /\ disabled' = FALSE /\ guardFile' = FALSE
       ELSE IF enabled /\ b \in Connected
            THEN Arm(b, FALSE)
            ELSE UNCHANGED <<armed, disabled, guardFile>>

\* setBondedDevice(saved) and enable(), in either order, of a manager that is
\* off; d: the crash guard disables this boot.  A wake request arms, unless
\* the boot is disabled; it is used up either way.
TurnOn(d) ==
    /\ bond' = saved
    /\ suspect' = (suspect /\ saved # NULL)
    /\ enabled' = TRUE
    /\ guardInit' = TRUE
    /\ disabled' = d
    /\ armed' = (wakeFile /\ ~d /\ saved # NULL)
    /\ guardFile' = (guardFile /\ saved # NULL /\ ~armed')
    /\ wakeFile' = FALSE
    /\ mark' = NULL
    /\ events' = {}

GuardedByReset ==  \* the reset reason alone decides
    IF guardInit THEN disabled ELSE crashed

\* initializeAutoReconnectGuard() reads the file once in a boot.
Guarded == IF guardInit THEN disabled ELSE guardFile \/ crashed

\* setup(): setBondedDevice(saved), then enable() if the settings say so.
Boot ==
    /\ power = "off"
    /\ power' = "on"
    /\ IF btSetting
       THEN TurnOn(crashed \/ (guardFile /\ saved # NULL))
       ELSE SetBonded(saved) /\ UNCHANGED <<wakeFile, enabled, guardInit,
                                            mark, events>>
    /\ UNCHANGED <<saved, btSetting, crashed, jobs, tracked, link, ui>>

\* disconnectFromDevice() for each tracked device, then the BLE host stops;
\* it may still report some of the links that this closes.
StopHost ==
    LET last == IF Connected = {} THEN {mark} ELSE Connected IN
    /\ enabled' = FALSE
    /\ armed' = FALSE
    /\ tracked' = {}
    /\ link' = [r \in Remote |-> "down"]
    /\ mark' = NULL
    /\ \E m \in last, Q \in SUBSET {r \in Remote : link[r] # "down"} :
          events' = events \cup {[dev |-> r, suppress |-> r = m] : r \in Q}

DisableUnchecked == StopHost  \* without a look at the job

\* disable() refuses while a job runs.
Disable == ~job.running /\ StopHost

\* enterDeepSleep(), unless a job is running (then it is put off).
EnterDeepSleep ==
    /\ power = "on" /\ screen # "input"
    /\ power' = "sleeping"
    /\ screen' = "away"
    /\ IF enabled
       THEN Disable /\ wakeFile' = (wakeFile \/ bond # NULL)
       ELSE UNCHANGED <<enabled, armed, links, wakeFile>>
    /\ UNCHANGED <<guardFile, saved, btSetting, crashed, suspect, guardInit,
                   bond, disabled, jobs, polling>>

\* The sleep screen is drawn, startDeepSleep() cuts the power.
PowerDown ==
    /\ power = "sleeping"
    /\ power' = "off"
    /\ crashed' = FALSE
    /\ RamLost
    /\ UNCHANGED <<card, suspect>>

-----------------------------------------------------------------------------
(* The worker task: runBondedReconnectTask() *)

Step(w, at) == task' = [task EXCEPT ![w].at = at]

\* Write the guard if automatic; give up if there is nothing to do.
Begin(w) ==
    /\ task[w].at = "begin"
    /\ guardFile' = (guardFile \/ task[w].automatic)
    /\ IF enabled /\ (task[w].pairNew \/ bond # NULL)
       THEN Step(w, "scan")
       ELSE Step(w, "finish")
    /\ UNCHANGED <<wakeFile, saved, btSetting, boot, enabled, guardInit,
                   arming, job, links, ui>>

\* The scan ends with a candidate, or with none.  A remote that is connected
\* does not advertise; pairing skips the bonded address.
ScanFinds(w, r) ==
    /\ task[w].at = "scan"
    /\ link[r] = "down"
    /\ task[w].pairNew => r # bond
    /\ task' = [task EXCEPT ![w].at = "connect", ![w].target = r]
    /\ UNCHANGED <<card, boot, enabled, guardInit, arming, job, links, ui>>

ScanFails(w) ==
    /\ task[w].at = "scan"
    /\ Step(w, "finish")
    /\ UNCHANGED <<card, boot, enabled, guardInit, arming, job, links, ui>>

\* connectToDevice() succeeds: track the device, arm if it is the bonded one.
Connect(w) ==
    /\ task[w].at = "connect"
    /\ tracked' = tracked \cup {task[w].target}
    /\ link' = [link EXCEPT ![task[w].target] = "up"]
    /\ IF task[w].target = bond
       THEN Arm(bond, FALSE)
       ELSE UNCHANGED <<armed, disabled, guardFile>>
    /\ Step(w, "bond")
    /\ UNCHANGED <<wakeFile, saved, btSetting, boot, enabled, guardInit, bond,
                   job, mark, events, ui>>

\* It fails without a link, or after the link is there (no HID service, no
\* reports, no subscription): then the link is closed again.  When the list
\* stays locked, the link stays up and nothing tracks it.
ConnectFails(w) ==
    /\ task[w].at = "connect"
    /\ \E s \in {"down", "closing", "up"} :
          link' = [link EXCEPT ![task[w].target] = s]
    /\ Step(w, "finish")
    /\ UNCHANGED <<card, boot, enabled, guardInit, arming, job, tracked, mark,
                   events, ui>>

\* The candidate becomes the bonded remote; manual success also ends a
\* guarded boot.
Bond(w) ==
    /\ task[w].at = "bond"
    /\ bond' = task[w].target
    /\ Arm(bond', ~task[w].automatic)
    /\ suspect' = (suspect /\ task[w].automatic)
    /\ task' = [task EXCEPT ![w].at = "finish", ![w].ok = TRUE]
    /\ UNCHANGED <<wakeFile, saved, btSetting, power, crashed, enabled,
                   guardInit, job, links, ui>>

\* What is left of a task that has published its result.
Ending(w) == [NoTask EXCEPT !.at = "tail", !.automatic = task[w].automatic]

FinishStillRunning(w) ==  \* _reconnectJobRunning is not reset
    /\ task[w].at = "finish"
    /\ job' = [job EXCEPT !.finished = TRUE, !.success = task[w].ok]
    /\ task' = [task EXCEPT ![w] = Ending(w)]
    /\ UNCHANGED <<card, boot, enabled, guardInit, arming, links, ui>>

\* Publish the result: from here on the main task may start a job.
Finish(w) ==
    /\ task[w].at = "finish"
    /\ job' = [running |-> FALSE, automatic |-> FALSE, pairNew |-> FALSE,
               finished |-> TRUE, success |-> task[w].ok]
    /\ task' = [task EXCEPT ![w] = Ending(w)]
    /\ UNCHANGED <<card, boot, enabled, guardInit, arming, links, ui>>

GuardLeftBehind(w) ==  \* the task ends without removing the guard
    /\ task[w].at = "tail"
    /\ task' = [task EXCEPT ![w] = NoTask]
    /\ UNCHANGED <<card, boot, enabled, guardInit, arming, job, links, ui>>

\* Remove the guard, the task deletes itself.  The guard may be the one that
\* the next worker has just written.
Tail(w) ==
    /\ task[w].at = "tail"
    /\ guardFile' = (guardFile /\ ~task[w].automatic)
    /\ task' = [v \in Worker |->
                  IF v = w THEN NoTask
                  ELSE [task[v] EXCEPT !.bare = @ \/ (task[w].automatic
                                                     /\ PastGuard(v))]]
    /\ UNCHANGED <<wakeFile, saved, btSetting, boot, enabled, guardInit,
                   arming, job, links, ui>>

-----------------------------------------------------------------------------
(* The BLE host: onClientDisconnect().  The mark of an intentional         *)
(* disconnect suppresses the event if it is for this address and fresh.    *)

LinkDown(r, fresh) ==
    /\ link[r] \in {"up", "closing"}
    /\ link' = [link EXCEPT ![r] = "down"]
    /\ events' = events \cup {[dev |-> r, suppress |-> fresh /\ mark = r]}
    /\ mark' = IF fresh /\ mark # r THEN mark ELSE NULL
    /\ UNCHANGED <<card, boot, enabled, guardInit, arming, jobs, tracked, ui>>

-----------------------------------------------------------------------------
(* The upkeep of the main loop, while no job is running *)

\* processConnectionEvents(): forget the device, and arm if it was the
\* bonded one, by address or, for a tracked device, by name.
ProcessEvent(e, sameName) ==
    /\ MainLoop /\ ~job.running
    /\ e \in events
    /\ sameName => e.dev \in tracked /\ bond # NULL
    /\ events' = events \ {e}
    /\ tracked' = tracked \ {e.dev}
    /\ IF ~e.suppress /\ (e.dev = bond \/ sameName)
       THEN Arm(bond, FALSE)
       ELSE UNCHANGED <<armed, disabled, guardFile>>
    /\ UNCHANGED <<wakeFile, saved, btSetting, boot, enabled, guardInit, bond,
                   jobs, link, mark, ui>>

\* updateActivity(): drop a device that has been silent for too long, and
\* arm if it is the bonded one by address or name.  Dropping it by address
\* had disarmed.
IdleDisconnect(r, sameName) ==
    /\ MainLoop /\ ~job.running
    /\ r \in tracked
    /\ Disconnect({r})
    /\ IF r = bond
       THEN /\ armed' = MayArm(FALSE)
            /\ guardFile' = (guardFile /\ ~MayArm(FALSE))
            /\ UNCHANGED disabled
       ELSE IF sameName THEN Arm(bond, FALSE)
                        ELSE UNCHANGED <<armed, disabled, guardFile>>
    /\ UNCHANGED <<wakeFile, saved, btSetting, boot, enabled, guardInit, bond,
                   jobs, events, ui>>

NothingPruned == tracked  \* a device that lost its link stays on the list

\* The devices that are left when the stale entries are pruned.
Pruned == Connected

\* checkAutoReconnect(): prune the entries that lost their link, arm if there
\* were any, and start a job if nothing is left and the delays are over.
CheckAutoReconnect(start) ==
    /\ MainLoop /\ ~job.running /\ enabled
    /\ tracked' = Pruned
    /\ IF tracked # Pruned
       THEN Arm(bond, FALSE)
       ELSE UNCHANGED <<armed, disabled, guardFile>>
    /\ start # "no" => Pruned = {} /\ bond # NULL /\ ~disabled /\ armed'
    /\ CASE start = "no"    -> UNCHANGED jobs
         [] start = "job"   -> StartJob(TRUE, FALSE)
         [] start = "fails" -> StartFails
    /\ UNCHANGED <<wakeFile, saved, btSetting, boot, enabled, guardInit, bond,
                   link, mark, events, ui>>

-----------------------------------------------------------------------------
(* The settings screen.  Its loop() polls the job (pollBleJob()), then      *)
(* handles one input; the worker and the host may step in between.          *)

\* onEnter().  The settings may ask for Bluetooth while it is off: a result
\* that is polled after the user switched it off sets them again.
EnterSettings ==
    /\ power = "on" /\ screen = "away"
    /\ screen' = "poll"
    /\ polling' = IF ~job.running THEN "no"
                  ELSE IF job.pairNew THEN "pair" ELSE "reconnect"
    /\ IF btSetting /\ ~enabled
       THEN TurnOn(saved # NULL /\ Guarded)
       ELSE SetBonded(saved) /\ UNCHANGED <<wakeFile, enabled, guardInit,
                                            mark, events>>
    /\ UNCHANGED <<saved, btSetting, power, crashed, jobs, tracked, link>>

\* Nothing to take: no job is awaited, it still runs, or its result is gone.
PollWait ==
    /\ power = "on" /\ screen = "poll"
    /\ polling = "no" \/ job.running \/ ~job.finished
    /\ screen' = "input"
    /\ UNCHANGED <<card, boot, enabled, guardInit, arming, jobs, links, polling>>

\* Take the result; a success is saved, and may leave the screen.
PollConsume(leave) ==
    /\ power = "on" /\ screen = "poll"
    /\ polling # "no" /\ ~job.running /\ job.finished
    /\ job' = NoJob
    /\ polling' = "no"
    /\ btSetting' = (btSetting \/ job.success)
    /\ saved' = IF job.success /\ polling = "pair" THEN bond ELSE saved
    /\ screen' = IF job.success /\ leave THEN "away" ELSE "input"
    /\ UNCHANGED <<guardFile, wakeFile, boot, enabled, guardInit, arming, task,
                   links>>

Input == power = "on" /\ screen = "input"
Handled == Input /\ screen' = "poll"

\* No key, a key that only moves the cursor, or one that is refused because
\* a job runs or Bluetooth is off.
NoInput ==
    /\ Handled
    /\ UNCHANGED <<card, boot, enabled, guardInit, arming, jobs, links, polling>>

Back ==
    /\ Input /\ ~job.running
    /\ screen' = "away"
    /\ polling' = "no"
    /\ UNCHANGED <<card, boot, enabled, guardInit, arming, jobs, links>>

ToggleOff ==
    /\ Handled /\ enabled
    /\ Disable
    /\ btSetting' = FALSE
    /\ UNCHANGED <<guardFile, wakeFile, saved, boot, guardInit, bond, disabled,
                   jobs, polling>>

ToggleOn ==
    /\ Handled /\ ~enabled
    /\ TurnOn(saved # NULL /\ Guarded)
    /\ btSetting' = TRUE
    /\ UNCHANGED <<saved, power, crashed, jobs, tracked, link, polling>>

\* Reconnect by hand; if it is already connected, or there is no task for it,
\* the result is there at once and consumed at once.
Reconnect ==
    /\ Handled /\ ~job.running /\ enabled /\ saved # NULL
    /\ IF bond \in Connected
       THEN job' = NoJob /\ UNCHANGED <<task, polling>>
       ELSE \/ /\ StartJob(FALSE, FALSE)
               /\ polling' = IF polling = "pair" THEN "pair" ELSE "reconnect"
            \/ job' = NoJob /\ UNCHANGED <<task, polling>>
    /\ UNCHANGED <<card, boot, enabled, guardInit, arming, links>>

\* Disconnect what is connected: an explicit disconnect disarms.
DisconnectAll ==
    /\ Disconnect(Connected)
    /\ armed' = (armed /\ bond \notin Connected)

DisconnectDevices ==
    /\ Handled /\ ~job.running /\ enabled
    /\ DisconnectAll
    /\ UNCHANGED <<card, boot, enabled, guardInit, bond, disabled, jobs, events,
                   polling>>

PairNew ==
    /\ Handled /\ ~job.running /\ enabled
    /\ DisconnectAll
    /\ \/ StartJob(FALSE, TRUE) /\ polling' = "pair"
       \/ job' = NoJob /\ UNCHANGED <<task, polling>>
    /\ UNCHANGED <<card, boot, enabled, guardInit, bond, disabled, events>>

Forget ==
    /\ Handled /\ ~job.running
    /\ Disconnect(Connected)
    /\ saved' = NULL
    /\ SetBonded(NULL)
    /\ UNCHANGED <<wakeFile, btSetting, power, crashed, enabled, guardInit, jobs,
                   events, polling>>

-----------------------------------------------------------------------------
WorkerStep(w) ==
    \/ Begin(w) \/ ScanFails(w) \/ Connect(w) \/ ConnectFails(w)
    \/ Bond(w) \/ Finish(w) \/ Tail(w)
    \/ \E r \in Remote : ScanFinds(w, r)

Act ==
    \/ Boot \/ EnterDeepSleep \/ PowerDown
    \/ \E panic \in BOOLEAN : Crash(panic)
    \/ \E w \in Worker : WorkerStep(w)
    \/ \E r \in Remote, fresh \in BOOLEAN : LinkDown(r, fresh)
    \/ \E e \in events, sameName \in BOOLEAN : ProcessEvent(e, sameName)
    \/ \E r \in Remote, sameName \in BOOLEAN : IdleDisconnect(r, sameName)
    \/ \E start \in Starts : CheckAutoReconnect(start)
    \/ EnterSettings \/ PollWait \/ Back \/ NoInput
    \/ \E leave \in BOOLEAN : PollConsume(leave)
    \/ ToggleOff \/ ToggleOn \/ Reconnect \/ DisconnectDevices \/ PairNew
    \/ Forget

\* A reset cuts an automatic task off: a crash anywhere, the sleep only one
\* that has published its result.
CutOff ==
    /\ power # "off" /\ power' = "off"
    /\ \E w \in Worker : task[w].automatic /\ (power = "on" \/ ~Working(w))

Next == Act /\ left' = ((left \/ CutOff) /\ guardFile')

Spec == Init /\ [][Next]_vars

\* The worker is scheduled, every scan and connect has a time limit; the
\* main loop turns, and each turn does the upkeep before anything else, so
\* a reconnect whose delays are over comes to its turn between two screens;
\* there is not for ever no memory for its task.
Fairness ==
    /\ \A w \in Worker : WF_state(WorkerStep(w))
    /\ WF_state(PollWait \/ \E leave \in BOOLEAN : PollConsume(leave))
    /\ WF_state(NoInput)
    /\ SF_state(CheckAutoReconnect("job"))

FairSpec == Spec /\ Fairness

-----------------------------------------------------------------------------
(* Properties *)

JobFlags == [running : BOOLEAN, automatic : BOOLEAN, pairNew : BOOLEAN,
             finished : BOOLEAN, success : BOOLEAN]
WorkerState == [at : {"none", "begin", "scan", "connect", "bond", "finish", "tail"},
                automatic : BOOLEAN, pairNew : BOOLEAN,
                target : Remote \cup {NULL}, ok : BOOLEAN, bare : BOOLEAN]

\* Every variable has a value of its type.
TypeOK ==
    /\ guardFile \in BOOLEAN /\ wakeFile \in BOOLEAN
    /\ saved \in Remote \cup {NULL} /\ btSetting \in BOOLEAN
    /\ power \in {"off", "on", "sleeping"}
    /\ crashed \in BOOLEAN /\ suspect \in BOOLEAN /\ left \in BOOLEAN
    /\ enabled \in BOOLEAN /\ guardInit \in BOOLEAN
    /\ bond \in Remote \cup {NULL}
    /\ armed \in BOOLEAN /\ disabled \in BOOLEAN
    /\ job \in JobFlags
    /\ task \in [Worker -> WorkerState]
    /\ tracked \subseteq Remote
    /\ link \in [Remote -> {"down", "up", "closing"}]
    /\ mark \in Remote \cup {NULL}
    /\ events \subseteq [dev : Remote, suppress : BOOLEAN]
    /\ screen \in {"away", "poll", "input"}
    /\ polling \in {"no", "reconnect", "pair"}

\* The job flags describe one live worker, the one that will publish the
\* result: no two tasks ever scan or connect at the same time, although the
\* main task, the screen and the worker itself all write the flags.
JobHasOneWorker ==
    /\ job.running <=> \E w \in Worker : Working(w)
    /\ \A w, v \in Worker : Working(w) /\ Working(v) => w = v
    /\ \A w \in Worker : Working(w) => /\ task[w].automatic = job.automatic
                                       /\ task[w].pairNew = job.pairNew

\* The radio is never switched off under a worker that scans or connects:
\* disable() and deep sleep wait for the job.
RadioOnWhileWorking ==
    ~enabled => \A w \in Worker : task[w].at \notin {"scan", "connect", "bond"}

\* While automatic work for a saved remote is under way the crash guard is on
\* the card, whoever else arms, forgets or starts jobs: a crash in it will be
\* known to the next boot.  The exception is work that began before an earlier
\* automatic worker had ended: the end of that one removes the guard (bare).
GuardCoversWork == GuardedWork /\ saved # NULL => guardFile

\* Without the exception: the guard is there during all automatic work
\* (README.md:49, "Crash-loop guard for automatic reconnect").
AllWorkIsGuarded == (\E w \in Worker : PastGuard(w)) /\ saved # NULL => guardFile

\* The guard is on the card only while an automatic task exists, or if a reset
\* cut one off (left: a crash anywhere, or the deep sleep of a device whose
\* worker had published its result and not yet removed the guard).  So a boot has its
\* automatic reconnect disabled only if it follows a crash or such a reset;
\* nothing the user does leaves a guard behind (finish and tail of
\* runBondedReconnectTask(), armAutoReconnect(), setBondedDevice()).
GuardMatchesWork ==
    /\ guardFile => left \/ \E w \in Worker : task[w].automatic
    /\ disabled => crashed \/ left

\* The way into deep sleep leaves no guard behind: a reset that was in order
\* does not disable the next boot.
SleepLeavesNoGuard == [][power = "sleeping" /\ power' = "off" => left \/ ~guardFile]_vars

\* After a reset that cut guarded work off nothing automatic starts, in that
\* boot or a later one, until the user reconnects or forgets.  Work that has
\* lost its guard to the end of an earlier worker is excepted: after it only
\* the reason of the reset, a panic, keeps the next boot from trying again.
NoAutomaticAfterCrash == suspect => ~AutomaticWork

\* The crash guard keeps the promise of CrashGuard: automatic work that was
\* armed with the guard file is done once at a time, ends in order or in a
\* reset, and after a reset is not begun again before the user has reconnected
\* or forgotten the remote, over any number of boots (main loop, worker and
\* settings screen, BluetoothHIDManager.cpp:544).  Work counts as over when the
\* end of an earlier worker takes its guard away.
Guard == INSTANCE CrashGuard WITH attempting <- GuardedWork, failed <- suspect
ReconnectGuard == Guard!Spec

\* The bonded device was connected, and its link went down by itself.
Lost(r) ==
    /\ power = "on" /\ enabled /\ ~disabled
    /\ bond = r /\ r \in tracked /\ link[r] = "down"

\* The loss is of no interest any more.
Settled(r) ==
    power # "on" \/ ~enabled \/ disabled \/ bond # r \/ Connected # {}

\* A lost bonded device is tried again: however disconnect events, pruning
\* and the screen interleave, a job starts, if nothing settles it before.
LostIsRetried == \A r \in Remote : Lost(r) ~> job.running \/ Settled(r)

\* Automatic reconnect waits until nothing is connected.
AutoWaitsForDisconnected ==
    \A w \in Worker : task[w].automatic /\ task[w].at = "begin" =>
        \A r \in Remote : link[r] # "up"
=============================================================================
