------------------------------ MODULE HidInput ------------------------------
(* The way of a key press from a Bluetooth remote to a virtual button:        *)
(* BluetoothHIDManager's input queue, which the NimBLE host task fills, and   *)
(* the upkeep and report handling that the main loop runs, once per turn, in  *)
(* the order of main.cpp:                                                     *)
(*                                                                           *)
(*   gpio.update  updateActivity  processInputEvents  checkAutoReconnect  ... *)
(*                                                                           *)
(* A report is what the byte decoding makes of it: a key and whether it is    *)
(* down, or a frame the Game Brick decoder skips.  A reconnect job (module    *)
(* BleReconnect) is only its effect here: while it runs the main loop leaves  *)
(* the upkeep out, the worker may hold the list of devices for a moment, and  *)
(* it may enter a new connection in the list.                                 *)
EXTENDS VirtualButtons, Sequences, FiniteSets

CONSTANTS
  Devices,          \* addresses of remotes
  Keys,             \* the keys a remote of each profile has
  NoButton,         \* 0xFF
  QueueLength,      \* BLE_INPUT_EVENT_QUEUE_LENGTH
  BatchLength,      \* the most reports one processInputEvents() takes
  StaleDefault,     \* FREE2_STALE_RELEASE_DEFAULT_MS, and the 250 of the upkeep
  StaleReader,      \* FREE2_STALE_RELEASE_READER_MS
  StaleBrickHold,   \* STALE_GAMEBRICK_HOLD_RESET_MS
  BrickDuplicate,   \* 180 ms in which a Game Brick key is not injected again
  BrickGrace,       \* GAMEBRICK_ACTION_RELEASE_GRACE_MS
  Maintenance       \* the 10 s period of the slow upkeep

AllKeys == {"pageUp", "pageDown", "actionA", "actionB", "left", "other"}
Styles == {"plain", "free2", "brick"}
NoKey == "none"
ActionKeys == {"actionA", "actionB"}

ASSUME InputAssumption ==
  /\ Keys \in [Styles -> SUBSET AllKeys]
  /\ NoButton \notin Buttons
  /\ QueueLength \in Nat \ {0} /\ BatchLength \in Nat \ {0}
  /\ StaleDefault \in Nat /\ StaleReader \in Nat /\ StaleBrickHold \in Nat
  /\ BrickDuplicate \in Nat /\ BrickGrace \in Nat /\ Maintenance \in Nat

LargestOf(a, b) == IF a > b THEN a ELSE b
IdleCap(profile) ==
  IF profile = "free2" THEN LargestOf(StaleDefault, StaleReader) + 1 ELSE StaleDefault + 1
HoldCap == StaleBrickHold + 1

VARIABLES
  style,       \* profile of each remote
  tracked,     \* addresses in _connectedDevices
  dev,         \* the ConnectedDevice of each tracked address
  linked,      \* remotes whose client->isConnected()
  lossEvents,  \* _connectionEventQueue
  queue,       \* _inputEventQueue: << address, report >>
  enabled, job,
  gpio,        \* the virtual half of HalGPIO
  reader,      \* gBluetoothReaderContext
  pc, batch,   \* the main task: next part of loop(), reports taken in this one
  sinceMaint,  \* age of lastMaintenanceCheck
  handsOff,    \* the user has put remotes and reader down for good
  letGo,       \* history: remotes whose last report says that no key is down
  orphaned     \* history: buttons still down whose device entry was overwritten

deviceVars == <<style, tracked, dev, linked, lossEvents>>
loopVars == <<reader, pc, batch, sinceMaint>>
history == <<letGo, orphaned>>
vars == <<deviceVars, queue, enabled, job, gpio, loopVars, handsOff, history>>
-----------------------------------------------------------------------------
(* Reports and devices.                                                       *)

Frame(key, down) == [key |-> key, down |-> down]
NoiseFrame == Frame("noise", FALSE)
Reports == [key : AllKeys \union {NoKey}, down : BOOLEAN] \union {NoiseFrame}

(* What the decoder can make of a frame: for a known key code the key is down *)
(* exactly when the code is not 0x00; the Game Brick carries the key state    *)
(* apart from the code, and has transitional frames.                          *)
ReportsOf(d) ==
  IF style[d] = "brick"
  THEN {Frame(k, down) : k \in Keys[style[d]], down \in BOOLEAN} \union {Frame(NoKey, FALSE), NoiseFrame}
  ELSE {Frame(k, TRUE) : k \in Keys[style[d]]} \union {Frame(NoKey, FALSE)}

(* active: activeInjectedButton.  idle, eventAge, injectedAge: ages of        *)
(* lastActivityTime, lastNormalizedEventMs, lastInjectionTime.  pendingKey:   *)
(* pendingGameBrickKeycode, NoKey when no release is pending; pendingAge: its *)
(* age, for pendingGameBrickReleaseMs.                                        *)
DeviceState ==
  [active : Buttons \union {NoButton}, seenRelease : BOOLEAN, idle : 0 .. LargestOf(StaleDefault, StaleReader) + 1,
   eventAge : 0 .. HoldCap, injectedKey : AllKeys \union {NoKey}, injectedAge : 0 .. BrickDuplicate,
   pendingKey : AllKeys \union {NoKey}, pendingButton : Buttons \union {NoButton},
   pendingAge : 0 .. BrickGrace]

NewDevice ==
  [active |-> NoButton, seenRelease |-> FALSE, idle |-> 0, eventAge |-> 0,
   injectedKey |-> NoKey, injectedAge |-> BrickDuplicate,
   pendingKey |-> NoKey, pendingButton |-> NoButton, pendingAge |-> 0]

(* The profiles know the two page keys.  The action keys of the Game Brick    *)
(* and its stick mean different buttons in a book and in a menu.              *)
mapKeycodeToButton(d, key) ==
  CASE key = "pageUp" -> "BTN_UP"
    [] key = "pageDown" -> "BTN_DOWN"
    [] key = "actionA" /\ style[d] = "brick" -> IF reader THEN "BTN_DOWN" ELSE "BTN_CONFIRM"
    [] key = "actionB" /\ style[d] = "brick" -> IF reader THEN "BTN_UP" ELSE "BTN_BACK"
    [] key = "left" /\ style[d] = "brick" /\ ~reader -> "BTN_LEFT"
    [] OTHER -> NoButton

inject(g, b, pressed) == IF b = NoButton THEN g ELSE setVirtualButtonState(g, b, pressed)
-----------------------------------------------------------------------------
(* processQueuedHIDReport() as steps on s, the device entry together with the *)
(* virtual buttons.                                                           *)

(* Without a button the ages of activity and event are of no use.             *)
LetGo(x) == [x EXCEPT !.active = NoButton, !.idle = 0, !.eventAge = 0]
NotPending(x) == [x EXCEPT !.pendingKey = NoKey, !.pendingButton = NoButton, !.pendingAge = 0]

releaseInjectedButton(s) ==
  [d |-> NotPending(LetGo(s.d)),
   g |-> inject(s.g, s.d.active, FALSE)]

(* A Game Brick hold whose release was missed; a pending release is kept.     *)
ClearStaleHold(d, s) ==
  IF style[d] = "brick" /\ s.d.active # NoButton /\ s.d.eventAge > StaleBrickHold
  THEN [d |-> LetGo(s.d), g |-> inject(s.g, s.d.active, FALSE)]
  ELSE s

(* Every report is activity; a Free2 remote also feeds the hold timer.        *)
NoteActivity(d, s) ==
  [d |-> [s.d EXCEPT !.idle = 0],
   g |-> IF style[d] = "free2" /\ s.d.active # NoButton
         THEN updateVirtualButtonActivity(s.g, s.d.active) ELSE s.g]

(* A Free2 remote keeps its button while it is held, whatever code it rolls   *)
(* through.                                                                   *)
MappedButton(d, s, r) ==
  IF ~r.down THEN NoButton
  ELSE IF style[d] = "free2" /\ s.d.active # NoButton THEN s.d.active
  ELSE mapKeycodeToButton(d, r.key)

ActionButton(d, r) ==
  IF style[d] = "brick" /\ r.key \in ActionKeys THEN mapKeycodeToButton(d, r.key) ELSE NoButton

(* The same key again ends a pending release and keeps what is down; another  *)
(* button carries it out.                                                     *)
ResolvePending(d, s, r) ==
  LET mapped == MappedButton(d, s, r)
      resumed == r.key = s.d.pendingKey /\ mapped = s.d.pendingButton
  IN  IF s.d.pendingKey = NoKey \/ ~r.down THEN [s |-> s, button |-> mapped]
      ELSE IF resumed
      THEN [s |-> [s EXCEPT !.d = NotPending(@)],
            button |-> s.d.active]
      ELSE [s |-> IF mapped # s.d.pendingButton THEN releaseInjectedButton(s) ELSE s,
            button |-> mapped]

(* No button is asked for: an action key waits for its grace time, any other  *)
(* releases at once.                                                          *)
KeyUp(d, s, r) ==
  IF ActionButton(d, r) # NoButton /\ s.d.active = ActionButton(d, r)
  THEN [s EXCEPT !.d.pendingKey = r.key, !.d.pendingButton = s.d.active, !.d.pendingAge = 0]
  ELSE releaseInjectedButton(s)

KeyDown(d, s, r, button) ==
  LET free == IF s.d.active # NoButton /\ s.d.active # button THEN releaseInjectedButton(s) ELSE s
      duplicate == style[d] = "brick" /\ free.d.injectedKey = r.key
                     /\ free.d.injectedAge < BrickDuplicate
  IN  IF free.d.active # NoButton \/ duplicate THEN free
      ELSE [d |-> [free.d EXCEPT !.active = button,
                     !.injectedKey = IF style[d] = "brick" THEN r.key ELSE @,
                     !.injectedAge = IF style[d] = "brick" THEN 0 ELSE @],
            g |-> LET pressed == inject(free.g, button, TRUE)
                  IN  IF style[d] = "free2" THEN updateVirtualButtonActivity(pressed, button)
                      ELSE pressed]

Decide(d, s, r) ==
  LET p == ResolvePending(d, s, r)
      done == IF p.button = NoButton THEN KeyUp(d, p.s, r) ELSE KeyDown(d, p.s, r, p.button)
  IN  [done EXCEPT !.d.eventAge = 0]

(* A frame without a key releases.  Until a remote has shown a release its    *)
(* presses are startup noise; the Game Brick is armed by its first frame.     *)
Processed(d, r) ==
  LET s == NoteActivity(d, ClearStaleHold(d, [d |-> dev[d], g |-> gpio]))
      armed == [s EXCEPT !.d.seenRelease = @ \/ style[d] = "brick" \/ ~r.down]
  IN  IF r = NoiseFrame THEN s
      ELSE IF r.key = NoKey \/ ~armed.d.seenRelease THEN releaseInjectedButton(armed)
      ELSE Decide(d, armed, r)
-----------------------------------------------------------------------------
(* The NimBLE host task.                                                      *)

(* As if a full queue dropped the new report.                                 *)
BrokenQueueInputReport(d, r) ==
  /\ enabled /\ d \in linked /\ ~handsOff
  /\ queue' = IF Len(queue) = QueueLength THEN queue ELSE Append(queue, <<d, r>>)
  /\ letGo' = IF r = NoiseFrame THEN letGo ELSE IF r.down THEN letGo \ {d} ELSE letGo \union {d}
  /\ UNCHANGED <<deviceVars, enabled, job, gpio, loopVars, handsOff, orphaned>>

(* queueInputReport(): a full queue loses its oldest report.  The history     *)
(* forgets what a remote said last when no report that says it is left.       *)
QueueInputReport(d, r) ==
  LET full == Len(queue) = QueueLength
      kept == IF full THEN Tail(queue) ELSE queue
      forgotten(e) == full /\ Head(queue)[1] = e
                        /\ \A i \in 1 .. Len(kept) : kept[i][1] = e => kept[i][2] = NoiseFrame
  IN  /\ enabled /\ d \in linked /\ ~handsOff
      /\ queue' = Append(kept, <<d, r>>)
      /\ letGo' = {e \in Devices : IF e = d /\ r # NoiseFrame THEN ~r.down
                                   ELSE e \in letGo /\ ~forgotten(e)}
      /\ UNCHANGED <<deviceVars, enabled, job, gpio, loopVars, handsOff, orphaned>>

(* onClientDisconnect().                                                      *)
LinkLost(d) ==
  /\ d \in linked
  /\ linked' = linked \ {d}
  /\ lossEvents' = lossEvents \union {d}
  /\ UNCHANGED <<style, tracked, dev, queue, enabled, job, gpio, loopVars, handsOff, history>>

PutDown ==
  /\ ~handsOff /\ handsOff' = TRUE
  /\ UNCHANGED <<deviceVars, queue, enabled, job, gpio, loopVars, history>>
-----------------------------------------------------------------------------
(* The reconnect worker.                                                      *)

EndJob ==
  /\ job /\ job' = FALSE
  /\ UNCHANGED <<deviceVars, queue, enabled, gpio, loopVars, handsOff, history>>

(* The end of connectToDevice(): an entry that is still in the list is        *)
(* overwritten, whatever button it holds.  OrphanBound lets that happen to    *)
(* one button at a time.                                                      *)
OrphanBound(d) == d \in tracked => dev[d].active = NoButton \/ orphaned = {}

Connect(d) ==
  /\ OrphanBound(d)
  /\ job /\ d \notin linked
  /\ linked' = linked \union {d}
  /\ tracked' = tracked \union {d}
  /\ dev' = [dev EXCEPT ![d] = NewDevice]
  /\ orphaned' = orphaned \union (IF d \in tracked THEN {dev[d].active} \ {NoButton} ELSE {})
  /\ UNCHANGED <<style, lossEvents, queue, enabled, job, gpio, loopVars, handsOff, letGo>>
-----------------------------------------------------------------------------
(* The main task.                                                             *)

(* gpio.update() and the reader context of this turn.                         *)
GpioUpdate ==
  /\ pc = "update" /\ pc' = "upkeep"
  /\ gpio' = updateVirtual(gpio)
  /\ orphaned' = orphaned \intersect gpio.desired
  /\ reader' \in BOOLEAN
  /\ UNCHANGED <<deviceVars, queue, enabled, job, batch, sinceMaint, handsOff, letGo>>

(* The list of devices without those in D, whose buttons are released.        *)
Erased(g, D) == releaseVirtual(g, {dev[d].active : d \in D \intersect tracked})

(* processConnectionEvents() drops the entries of lost links; then a pending  *)
(* Game Brick release that has waited long enough is carried out, and a Free2 *)
(* button without recent reports is released.                                 *)
PendingDue(d) == dev[d].pendingKey # NoKey /\ dev[d].pendingAge >= BrickGrace
FreeStale(d) ==
  style[d] = "free2" /\ dev[d].idle > (IF reader THEN StaleReader ELSE StaleDefault)

(* As if only the Free2 had a stale release.                                  *)
BrokenSlowStale(d) == FALSE

(* Every 10 seconds the other remotes follow; a remote that has been idle for *)
(* minutes, which leaves it no button by then, may be disconnected.           *)
SlowStale(d) == sinceMaint >= Maintenance /\ style[d] # "free2" /\ dev[d].idle > StaleDefault

IdleChoices ==
  IF sinceMaint < Maintenance THEN {{}}
  ELSE {{}} \union {{d} : d \in {e \in tracked \ lossEvents : dev[e].active = NoButton}}

UpdateActivity ==
  \E gone \in IdleChoices :
    LET left == tracked \ lossEvents
        released == {d \in left : PendingDue(d) \/ FreeStale(d) \/ SlowStale(d)}
    IN  /\ pc = "upkeep" /\ ~job
        /\ gpio' = Erased(gpio, lossEvents \union released \union gone)
        /\ tracked' = left \ gone
        /\ dev' = [d \in Devices |->
              IF d \notin tracked' THEN NewDevice
              ELSE IF d \notin released THEN dev[d]
              ELSE IF PendingDue(d)
              THEN NotPending(LetGo(dev[d]))
              ELSE LetGo(dev[d])]
        /\ lossEvents' = {}
        /\ sinceMaint' = IF sinceMaint >= Maintenance THEN 0 ELSE sinceMaint
        /\ pc' = "input"
        /\ UNCHANGED <<style, linked, queue, enabled, job, reader, batch, handsOff, history>>

(* updateActivity() returns at once while a job runs.                         *)
SkipUpkeep ==
  /\ pc = "upkeep" /\ job
  /\ pc' = "input"
  /\ UNCHANGED <<deviceVars, queue, enabled, job, gpio, reader, batch, sinceMaint, handsOff, history>>

(* One turn of the loop in processInputEvents().  A report of a remote that   *)
(* is not in the list is dropped, and so is one that finds the list locked by *)
(* the worker.                                                                *)
ProcessReport ==
  /\ pc = "input" /\ enabled /\ queue # <<>> /\ batch < BatchLength
  /\ queue' = Tail(queue) /\ batch' = batch + 1
  /\ LET d == Head(queue)[1]
         after == Processed(d, Head(queue)[2])
     IN  \/ /\ d \in tracked
            /\ dev' = [dev EXCEPT ![d] = after.d] /\ gpio' = after.g
            /\ UNCHANGED history
         \/ /\ d \notin tracked \/ job
            /\ letGo' = letGo \ {d}
            /\ UNCHANGED <<dev, gpio, orphaned>>
  /\ UNCHANGED <<style, tracked, linked, lossEvents, enabled, job, reader, pc, sinceMaint, handsOff>>

(* checkAutoReconnect(), when its interval has passed: entries without a link *)
(* are pruned; with none left an automatic job may start.  It ends the turn;  *)
(* what the loop() of an activity does to Bluetooth are actions of their own. *)
CheckAutoReconnect ==
  /\ pc = "input" /\ (~enabled \/ queue = <<>> \/ batch = BatchLength)
  /\ pc' = "update" /\ batch' = 0
  /\ \/ /\ enabled /\ ~job
        /\ gpio' = Erased(gpio, tracked \ linked)
        /\ tracked' = tracked \intersect linked
        /\ dev' = [d \in Devices |-> IF d \in tracked' THEN dev[d] ELSE NewDevice]
        /\ job' \in (IF tracked' = {} THEN BOOLEAN ELSE {FALSE})
     \/ UNCHANGED <<gpio, tracked, dev, job>>
  /\ UNCHANGED <<style, linked, lossEvents, queue, enabled, reader, sinceMaint, handsOff, history>>

(* The settings screen starts a pairing.                                      *)
StartPairing ==
  /\ pc = "update" /\ ~handsOff /\ enabled /\ ~job
  /\ job' = TRUE
  /\ UNCHANGED <<deviceVars, queue, enabled, gpio, reader, pc, batch, sinceMaint, handsOff, history>>

(* As if the entry were erased without releasing its button.                  *)
BrokenDisconnectFromDevice(d) ==
  /\ pc = "update" /\ ~handsOff /\ ~job /\ d \in tracked
  /\ tracked' = tracked \ {d} /\ dev' = [dev EXCEPT ![d] = NewDevice]
  /\ UNCHANGED <<style, linked, lossEvents, queue, enabled, job, gpio, reader, pc, batch, sinceMaint, handsOff, history>>

(* disconnectFromDevice() from the settings screen.                           *)
DisconnectFromDevice(d) ==
  /\ pc = "update" /\ ~handsOff /\ ~job /\ d \in tracked
  /\ gpio' = Erased(gpio, {d})
  /\ tracked' = tracked \ {d} /\ dev' = [dev EXCEPT ![d] = NewDevice]
  /\ UNCHANGED <<style, linked, lossEvents, queue, enabled, job, reader, pc, batch, sinceMaint, handsOff, history>>

(* disable(), refused during a job, empties the queue and disconnects every   *)
(* remote before the host stops.                                              *)
Disable ==
  /\ pc = "update" /\ ~handsOff /\ enabled /\ ~job
  /\ enabled' = FALSE /\ queue' = <<>>
  /\ gpio' = Erased(gpio, tracked)
  /\ tracked' = {} /\ dev' = [d \in Devices |-> NewDevice]
  /\ linked' = {} /\ lossEvents' = lossEvents \union linked
  /\ letGo' = {}
  /\ UNCHANGED <<style, job, reader, pc, batch, sinceMaint, handsOff, orphaned>>

Enable ==
  /\ pc = "update" /\ ~handsOff /\ ~enabled
  /\ enabled' = TRUE /\ queue' = <<>> /\ lossEvents' = {}
  /\ UNCHANGED <<style, tracked, dev, linked, job, gpio, reader, pc, batch, sinceMaint, handsOff, history>>
-----------------------------------------------------------------------------
(* One unit of time: every age grows.  Time is let pass between two turns of  *)
(* the loop, so that what one turn does is done at one moment.                *)
Tick ==
  /\ pc = "update"
  /\ gpio' = ageVirtual(gpio)
  /\ dev' = [d \in Devices |->
        [dev[d] EXCEPT
           !.idle = IF dev[d].active = NoButton THEN @ ELSE Older(@, IdleCap(style[d])),
           !.eventAge = IF dev[d].active = NoButton \/ style[d] # "brick" THEN @ ELSE Older(@, HoldCap),
           !.injectedAge = Older(@, BrickDuplicate),
           !.pendingAge = IF dev[d].pendingKey = NoKey THEN @ ELSE Older(@, BrickGrace)]]
  /\ sinceMaint' = Older(sinceMaint, Maintenance)
  /\ UNCHANGED <<style, tracked, linked, lossEvents, queue, enabled, job, reader, pc, batch, handsOff, history>>

Init ==
  /\ style \in [Devices -> Styles]
  /\ tracked = {} /\ dev = [d \in Devices |-> NewDevice]
  /\ linked = {} /\ lossEvents = {} /\ queue = <<>>
  /\ enabled \in BOOLEAN /\ job = FALSE
  /\ gpio = NoVirtualButtons /\ reader = FALSE
  /\ pc = "update" /\ batch = 0 /\ sinceMaint = 0 /\ handsOff = FALSE
  /\ letGo = {} /\ orphaned = {}

HostTask == \E d \in Devices : LinkLost(d) \/ \E r \in ReportsOf(d) : QueueInputReport(d, r)
Worker == EndJob \/ \E d \in Devices : Connect(d)
MainLoop == GpioUpdate \/ UpdateActivity \/ SkipUpkeep \/ ProcessReport \/ CheckAutoReconnect
UserCommand == StartPairing \/ Disable \/ Enable \/ \E d \in Devices : DisconnectFromDevice(d)

Next == HostTask \/ PutDown \/ Worker \/ MainLoop \/ UserCommand \/ Tick

(* The main loop keeps turning, a job ends by its time limits, and time goes  *)
(* on between the turns: loop() ends with a delay().                          *)
Fairness == WF_vars(MainLoop) /\ WF_vars(EndJob) /\ SF_vars(Tick)

Spec == Init /\ [][Next]_vars /\ Fairness
-----------------------------------------------------------------------------
(* Types of the variables of the input path and of the virtual buttons.       *)
TypeOK ==
  /\ style \in [Devices -> Styles]
  /\ tracked \subseteq Devices /\ dev \in [Devices -> DeviceState]
  /\ linked \subseteq Devices /\ lossEvents \subseteq Devices
  /\ queue \in Seq(Devices \X Reports)
  /\ Len(queue) <= QueueLength
  /\ enabled \in BOOLEAN /\ job \in BOOLEAN
  /\ gpio \in VirtualButtonState /\ reader \in BOOLEAN
  /\ pc \in {"update", "upkeep", "input"}
  /\ batch \in 0 .. BatchLength /\ sinceMaint \in 0 .. Maintenance
  /\ handsOff \in BOOLEAN
  /\ letGo \subseteq Devices /\ orphaned \subseteq Buttons

(* A virtual button that is down belongs to a remote of the list, which will  *)
(* release it: disconnects, pruning, time-outs, a switched-off radio and the  *)
(* swaps within one report (activeInjectedButton, BluetoothHIDManager.h:39)   *)
(* all let go of it.  Only a connection that overwrites the entry of a remote *)
(* that still holds a button (BluetoothHIDManager.cpp:1339) leaves one behind.*)
HeldHasOwner == gpio.desired \subseteq {dev[d].active : d \in tracked} \union orphaned

(* The last report decides: with no report of a remote left in the queue, a   *)
(* remote whose last report was a release holds no button, or one whose       *)
(* release is about to be carried out, whatever a full queue has dropped      *)
(* (queueInputReport, BluetoothHIDManager.cpp:2243).                          *)
LastReportDecides ==
  \A d \in tracked :
    (d \in letGo /\ \A i \in 1 .. Len(queue) : queue[i][1] # d)
      => dev[d].active = NoButton \/ dev[d].pendingKey # NoKey

(* A lost release does not hold a button down for ever: once user and remotes *)
(* rest, every button is up in the eyes of the activities, through the stale  *)
(* releases of updateActivity(), unless its owner's entry was overwritten.    *)
HeldIsReleased ==
  []<>(handsOff => gpio.current \subseteq orphaned)

(* A remote other than the Free2 is measured by how long its button is down:  *)
(* "Other remotes, including GameBrick, should keep the original virtual hold *)
(* semantics so long-press chapter skip continues to use the full press       *)
(* duration" (BluetoothHIDManager.cpp:2511).                                  *)
HoldIsMeasured ==
  \A d \in tracked : LET b == dev[d].active IN
    (style[d] # "free2" /\ b \in gpio.desired /\ gpio.pressAge[b] = LongPress)
      => gpio.heldFor[b] = LongPress
=============================================================================
