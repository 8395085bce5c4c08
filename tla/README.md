# Formal models of the CrossPoint X3 page-turner firmware

The firmware runs on an ESP32-C3 (one core, FreeRTOS): an e-paper reader with a
screen manager, and, in this fork, a Bluetooth page turner. This directory holds
TLA+ models of its concurrent core, its input path, its reader, the link to its
laptop program and the transfer of files, the TLC runs that check them, and TLAPS
proofs of their main invariants. `PROJECT.json` links every definition to the
source lines it models. Paths below are relative to the repository root.

Run a check with `tlc -config X.cfg M.tla`, a proof with `tlapm M.tla`.

## 1. Inventory

Tasks on the reader: the **main task** (Arduino `loop()`), the **render task** (same
priority), at most one **reconnect worker** that owns a BLE job (same priority;
a second one may exist while the first is ending), the **NimBLE host task**
(callbacks), and the web server, which runs on the main task.

| Part | State | Operations | What must hold |
|---|---|---|---|
| Activity manager (`src/activities/ActivityManager`, `RenderLock`) | activity stack, current and pending activity, pending action, result handlers, update flag, waiting task, mutex | push, replace, finish with a result, `loop()`, `requestUpdate[AndWait]()`, the render task | never draw a deleted activity; results reach their handler; no request lost; a waiter wakes on a frame of its state |
| Power manager (`lib/hal/HalPowerManager`) | lock mode, `isLowPower`, CPU frequency | `setPowerSaving()`, `Lock` scopes on three tasks | no slow CPU under a lock or Wi-Fi for good; flag and frequency agree |
| BLE reconnect life cycle (`lib/hal/BluetoothHIDManager`) | bond, arming, crash guard and wake files, job flags, worker, connected list, event queue | enable, disable, jobs, disconnect callback, event upkeep, idle disconnect, automatic reconnect | a crash in automatic work disables it; one job at a time; a lost remote is tried again |
| Bluetooth settings (`src/activities/settings/BluetoothSettingsActivity`) | pending-job flags, saved bond | toggle, reconnect, disconnect, pair, forget, poll | saved settings agree with the manager |
| Boot, loop, sleep (`src/main.cpp`) | boot decision, idle timer | `setup()`, `loop()`, `enterDeepSleep()` | upkeep order; sleep waits for jobs; sleep screen shown |
| BLE input path (`BluetoothHIDManager`, `DeviceProfiles`, `HalGPIO`) | report queue, device entries, virtual buttons and their times | queue, process, press, release, stale releases, erase | no stuck or lost button; the last report decides; a hold is measured |
| Companion BLE (`src/companion`, `activities/companion`) | running, host connected, handshake, status, ownership of the radio | `begin()`, `end()`, `update()`, callbacks, the screen's loop | link and screen agree; the radio is given back; no host, no wake lock |
| Laptop program (`laptop_host`) | GATT session and characteristics, connecting flag, watchers | advertisement, device and session handlers, status timer, watchdog | finds the reader again after any failure |
| Web server (`src/network/CrossPointWebServer`) and its page (`html/FilesPage.html`) | the one WebSocket upload and its file; the page's batch, promise and flags | START, data, end of a connection, POST, delete, rename, stop; choose, cancel, fall back | one upload, ended by its owner; stored files stay; a batch ends |
| WebDAV (`src/network/WebDAVHandler`) | the PUT under way, temporary files | PUT, DELETE, MKCOL, MOVE, COPY | old or new content whole; tree whole; true answers |
| Wi-Fi selection, OTA, KOReader sync, OPDS (`src/activities/...`, `src/network`) | screen states, time-outs | scan, connect, download, retry | no state without a way out |
| Readers (`src/activities/reader`, `lib/Epub`, `lib/Txt`, `lib/Xtc`) | spine and page, section cache, progress file | page turns, jumps, cache build | page in range, progress survives |
| Streaming JSON (`lib/JsonParser`) | parser state, buffers | feed a chunk | result does not depend on chunking |
| Settings and stores (`src/*Store`, `CrossPointSettings`) | records | load, save, migrate | round trip |
| Drawing, fonts, images, archives, vendored code | - | - | not modelled |

How they interact: `loop()` first does the BLE upkeep (`updateActivity()`, then
`checkAutoReconnect()`), then asks for power saving, then runs
`ActivityManager::loop()`, which runs the callbacks of the current activity (the
Bluetooth screen is one) and notifies the render task. Drawing and BLE work hold
`HalPowerManager::Lock`. BLE callbacks never touch the lists of the main task;
they queue events.

What is hard: the render task against the deletion of activities; direct-to-task
notifications used for two purposes; scopes that overlap across tasks; a worker
that outlives the flags that describe it; files on the card written by two tasks
with a reset possible between any two steps; disconnect events that are handled
late. `PROJECT.json` lists these hazards one by one, with the property that
would catch each.

## 2. Plan

| Order | Module | Composes | Status |
|---|---|---|---|
| 1 | `ScreenStack` (abstract), `ActivityManager`, proofs | `ActivityManager` implements `ScreenStack` | done |
| 2 | `PowerManager`, proofs | - | done |
| 3 | `BleReconnect` (manager, settings screen, boot and sleep), proofs | - | done |
| 4 | `VirtualButtons`; `HidInput`, proofs | `HidInput` extends `VirtualButtons` | done |
| 5 | `CompanionService`, `CompanionHost`; `Companion`, proofs | `Companion` joins both ends by one link | done |
| 6 | `CrashGuard` (abstract), `EpubReader` (reader, boot and sleep), proofs | `EpubReader` and `BleReconnect` implement `CrashGuard` | done |
| 7 | `WebUpload`, `FilesPage`; `FileTransfer`, proofs | `FileTransfer` joins server and page by connections and requests | done |
| 8 | `FileTree` (abstract), `WebDav`, proofs | `WebDav` implements `FileTree` | done |
| 9 | deeper proofs: which of a reader's navigations cancel each other; refinement of the radio's ownership | 5, 6 | next |
| 10 | Wi-Fi selection | - | later |
| 11 | Streaming JSON parser, page arithmetic of the other readers, candidate choice, as functions against a reference | - | later |

Each component has a specification module, an `MC_` module that fixes an
instance, and a `.cfg` of its own for the properties that hold. Temporal properties
are checked in the same run as the invariants where the instance is small enough.
Every `TypeOK` is proved for every instance, that of `EpubReader` with the bounds of its
array of footnote positions, that of `FileTransfer` with the index of the page's list.

Where the code departs from what the repository says of it, the property that states
the claim is defined with the others. Three of them have a `.cfg` whose run ends in
the counterexample (`ActivityManagerSleep`, `EpubReaderTurn`,
`FileTransferStored`). TLC refutes the others as well when they are added to the
configuration named:

| Property | Configuration | Section |
|---|---|---|
| `AutoWaitsForDisconnected`, `AllWorkIsGuarded`, `SleepLeavesNoGuard` | `BleReconnect.cfg` | 5 |
| `HoldIsMeasured` | `HidInput.cfg` with `LongPress = 1` | 6 |
| `LinkIsShown` | `Companion.cfg` with `Grace = 1` | 8 |
| `DisconnectionDeletes`, `CancelStops` | `FileTransferPage.cfg` | 9 |
| `OriginalSurvives` | `WebDav.cfg` | 10 |

## 3. ActivityManager

Variables are the members of the class (`current`, `stack`, `pending`, `action`,
`requestedUpdate`, `waiter`, `mutex`), the notification state of both tasks
(`notified`), where each task is (`mpc`, `rpc`), the child each handler was set
for (`expects`), and two history variables: `dirty` (state changed since last
drawn) and `owed` (an update was asked for and no frame began since).

An activity is a heap object that can be reused after it is deleted, so a
dangling pointer is visible as a wrong owner. The callbacks of activities are
all the things the activities in the repository do in one: request updates, take
the lock and change state, start a child for a result, finish, replace, wait for
a frame. A callback may wait in `loop()`, in a result handler and in `onEnter()`
(`KOReaderSyncActivity` with Wi-Fi up). All but one change their state under the lock
before they wait. The one is `CrashActivity::onEnter()` (`ReportCrash`), which can be
the first screen of a boot only (`report`): no frame was asked for before, so none can
wake it with an old picture. `requestUpdateAndWait()`, `loop()` and the render loop
are cut at every lock operation, notification and flag access.

Properties (`ActivityManager.cfg`; two activities and the sleep screen; 124,041
states):

- `RenderedIsCurrent`: what is being drawn is the current activity.
- `PendingIsLaunchable`: a pending push or replace has an activity, so the
  `while` of `loop()` cannot spin.
- `HandlerGetsItsChild`: a result reaches the handler set for that child.
- `WaitShowsState`: a waiting task is woken by a frame that shows its state. That
  only a blocked task is registered for a wake-up (`WaiterIsBlocked`) is proved.
- `UpdateNotLost`: a request is always a flag, a notification or a frame.
- `KeepsStack`: the manager implements `ScreenStack`, on which a screen is opened, left
  or put in place of all in one step, and never while one is drawn; what is drawn is the
  last one, and a screen that is uncovered gets a result it asked for or none. Under the
  refinement mapping (`Open`, `Asked`, `Drawing`) what is pending is not there yet: a
  handler that is set for a child that another navigation drops has asked for nothing.
- `WaiterWakes`, `UpdateRendered` (liveness): a waiting main task wakes, a
  requested update is drawn.

Two activities are a parent and its child, and the sleep screen may be pending
at the same time; deeper stacks are covered by the theorems, which hold for
every heap. Fairness is weak for the steps of both tasks (equal priority, time
slices) and strong for the steps that need the mutex: the main loop delays every
turn with the mutex free, and the render task waits for a notification after
each frame, so neither holds it for ever.

`ActivityManagerSleep.cfg` shows where the code departs from its comment:
`goToSleep()` replaces the activity and calls `loop()`, which first runs the old
activity's `loop()`; if that navigates, the sleep screen is dropped and the
device powers down on another screen. Another departure needs no run: the flag
that "must only be set by the main loop" (`ActivityManager.h:63`) is set on the
render task by `HomeActivity::render()` and `EpubReaderActivity::render()`. The
model has that step (`RenderRequest`), and no request is lost by it.

## 4. PowerManager

`setPowerSaving()` is cut between the read of the mode, the change of the
frequency and the write of `isLowPower`; a `Lock` is constructed, calls
`setPowerSaving(false)` and is destroyed. `MainScopes` is the order in which the
scopes of the main task nest (the sleep scope around the disconnect scope).

`PowerManager.cfg` (all four `Lock` objects of the firmware): `ModeHasOneHolder`,
`FlagTellsFrequency`, and under fairness `StaleLowIsRestored` (a frequency
lowered on a stale mode is raised again while the lock is held). The comment in
the code says a stale value is "not very
important"; this is the property that makes it so, and it rests on the main loop
asking again at every turn (strong fairness of that call, because a lock on the
main task keeps it from turning for a while).

A limit the code has by design and the model shows: a second scope is not
counted, so the first scope's end lets power saving in under the second.

## 5. BleReconnect

State on the card (`guardFile`, `wakeFile`, `saved`, `btSetting`) outlives a
reset; everything else is RAM. A worker goes through `begin` (write the guard),
`scan`, `connect`, `bond`, `finish` (publish the result) and `tail` (remove the
guard, delete the task). The upkeep of the main loop and the settings screen are
actions between which the worker and the host callback may step. The screen has
two places: before `pollBleJob()` and before the input is handled; the gap is
where a result can arrive unseen. `Crash(panic)` is a panic or a power cut at
any point; `EnterDeepSleep` and `PowerDown` are the ordered shutdown.

Abstractions, all on the generous side: time limits, cooldowns and grace periods
may be over or not at each step; a scan finds any remote that is free or none;
a connect succeeds or fails, also when the list of devices stays locked and the link
remains up untracked; there may be no memory for a worker's task; a device counts as
the bonded one by address or, if `sameName`, by name; the event queue is a set.
Assumed: writes to the card work, and no other mutex times out (the job's 200 ms and
the "busy" paths of the upkeep are left out). Without the companion service, Bluetooth
is enabled only when its setting is.

The end of a worker is not in order with what follows it: `_reconnectJobRunning` is
cleared at `BluetoothHIDManager.cpp:1772`, the guard removed at 1807. In between a new
automatic job may start (`checkAutoReconnect()` looks at the flag only, and arming sets
its cooldown to none), or the device may go to sleep. Two history fields record what comes of
it. A worker is `bare` when the end of an earlier one has removed its guard: such work
counts as unguarded from then on. `left` says that a reset cut an automatic task off and
the guard has been on the card since.

`BleReconnect.cfg` (one remote; two workers, one that works beside one that is
ending; 95,972 states):

- `GuardCoversWork`: while automatic work for a saved remote is under way the
  guard file is on the card, unless the work is `bare`.
- `GuardMatchesWork`: the guard is there only while an automatic task exists or after a
  reset has cut one off (`left`), and a boot is disabled only after a crash or
  such a reset.
- `NoAutomaticAfterCrash`: after a reset that cut guarded work off, nothing
  automatic starts in that boot or a later one until the user reconnects by hand
  or forgets the remote. After `bare` work only a panic disables the next boot, by its
  reset reason.
- `RadioOnWhileWorking`: the BLE host is not stopped under a worker.

- `JobHasOneWorker`: jobs never overlap, whatever the worker before still does.
- `ReconnectGuard`: the whole implements `CrashGuard`, the promise the EPUB reader keeps
  as well (section 7), with `attempting <- GuardedWork` (an automatic worker is past the
  write of the guard file and not `bare`) and `failed <- suspect`: guarded work is done one at a time, ends
  in order or in a reset, and after a reset begins again only when the user has
  reconnected by hand or forgotten the remote.
- `LostIsRetried` (liveness): a bonded remote that lost its link while tracked is
  tried again, or the user or a crash settles it. It does not need the disconnect
  event to be handled, so a dropped event is covered: pruning stale entries is
  enough. Fairness: weak for the worker (it is scheduled, scan and connect have time
  limits), weak for the screen's turns, strong for an automatic start whose delays
  are over, because the upkeep comes first in every turn of `loop()` while the
  screen's two places alternate, and because there is not for ever no memory for the
  worker's task.

The one remote is the bonded one or, after Forget, the one to be paired. That
another remote is paired while one is bonded is left to the theorems, which hold
for any number of remotes and workers and cover every safety property of the run.

The condition "saved" in `GuardCoversWork` is needed: a pairing that ends between
the poll and the Back key leaves the bond unsaved, and entering the screen again
during an automatic job then calls `setBondedDevice("")`, which removes the guard
of the running job.

Three claims are refuted. `AutoWaitsForDisconnected`: a disconnect that arrives during, or
just before, a job is handled after the job has reconnected; it erases the new entry, and
the next automatic job starts while the remote is connected. `AllWorkIsGuarded`
(`README.md:49`): a worker has published its result, the next automatic job writes
the guard, the first worker removes it; a power cut is then followed by an automatic
start. `SleepLeavesNoGuard`: the device goes to sleep between the result and the removal,
and the next boot takes the guard for that of a crash.

Two more things can go wrong that no property covers: the mark of an intentional
disconnect expires after 5 s, a supervision timeout may take 6 s, and the late event
rearms what the user disconnected (modelled; no text asks for more); the worker assigns
the string of the bonded address without a lock (`BluetoothHIDManager.cpp:1724`; one
value in the model).

## 6. HidInput

`VirtualButtons` is the virtual half of `HalGPIO` as a value with operators: it
runs on the main task only. Times are kept as ages that stop where no comparison
can tell older ones apart. `HidInput` has the input queue, filled by the NimBLE
host task, and cuts the turn of `loop()` where the firmware does: `gpio.update()`,
`updateActivity()`, one report at a time of `processInputEvents()`,
`checkAutoReconnect()`. The settings screen's commands come between two turns. A
reconnect job is its effect on this path: the upkeep is left out, the list of
devices may be locked (a report is then dropped), and a connection may overwrite
an entry.

A report is what the decoding makes of it: a key and whether it is down. Three
profiles stand for the kinds of remotes: the Free2 (keeps its button while codes
roll, fast stale release), the Game Brick (noise frames, a grace time for its
action keys, a duplicate filter, keys whose meaning depends on the book being
open) and all others. Left out: the bytes, learned and fallback profiles.

`HidInput.cfg` (one remote of any profile, a queue and batch of one report;
354,048 states):

- `HeldHasOwner`: a button that is down is the active one of a tracked remote.
  The exception is kept in the history variable `orphaned`: `connectToDevice()`
  overwrites an entry that holds a button (`BluetoothHIDManager.cpp:1339`).
- `LastReportDecides`: whatever the full queue drops, when the last report of a
  remote was a release and is processed, nothing is held any more.
- `HeldIsReleased` (liveness): once user and remotes rest, the activities see
  every button up. This rests on the stale releases of the upkeep; fairness is
  weak for the main loop and for the end of a job (its scans and connects have
  time limits), strong for time, which passes between two turns.

A second remote shares only the buttons and the queue with the first; the three
theorems cover any number. A queue of one is always full, which is the hard case
of `queueInputReport()`.

`HoldIsMeasured` is refuted: `getHeldTime()` measures up to the last activity, which
only a Free2 reports, so a button held on another remote measures 0 ms. The comment at
`BluetoothHIDManager.cpp:2511` says the opposite.

Not covered: a virtual button that is pressed and released within one turn is
never seen by `wasPressed()` (`HalGPIO.cpp:207`).

## 7. EpubReader

The render task builds or loads a section (the pages of one spine item), places
the page in it, draws and saves; it holds the rendering mutex for all of
`render()`, which `rendering` stands for. The main task turns pages inside a
section without the mutex and takes it to leave one: `Turn` decides, `Cross`
carries out when the mutex is free. All other ways to move (chapter list,
percentage, footnote, sync, long press, orientation) are one action each; the
menu activities on top of the reader are their parameters. Boot, sleep and crash
are those of `main.cpp` and `CrossPointState`: `progress.bin`, the open book, the
flag of the last sleep and the load counter survive.

`EpubReader.cfg` (two chapters of at most two pages, two layouts, one saved
position; 1,422,316 states):

- `SectionOfSpine`: the section in memory is that of the spine index, so what is
  drawn and what is saved are one place.
- `ResumeShown`: after any sleep or crash the first page drawn is the saved one,
  unless the user or a changed layout has moved it.
- `PendingSpent`: what a navigation leaves for the next section is spent on it.
- `BootGuard`: a book that crashed when the boot opened it is not opened by the next
  boot, and only such a book is refused. It is the specification of `CrashGuard`
  under the refinement mapping `attempting <- byBoot`,
  `failed <- loadCount > 0 /\ ~byBoot`; TLC checks it and `GuardImplemented` proves
  it. `BootLoopBroken`, the same for one state, is proved.
- `ScreenIsSaved` (liveness): when the user has put the reader down, screen,
  section and `progress.bin` agree. Fairness is weak for the steps of the render
  task that succeed (what fails does not fail for ever), for the main task that
  waits for the mutex, and for opening.

Deadlock is not checked: a reader that was put down with nothing to draw rests.

`EpubReaderTurn.cfg`: `pageTurn()` tests the page count without the mutex; a press
while a chapter is laid out is taken for its end, waits for the drawing, and then
skips the chapter.

Abstractions: pages are numbers, a layout is a function from spine items to page
counts; `Rescaled` divides integers where the code multiplies floats and may be
one page lower; a long press at index -1 stays there; the pages of a section
appear one by one or all at once. Left out: the contents of section files, among
them one that was cut off while it was written, and the silent indexing of the
next chapter. What the model reaches and no property covers is noted with the
hazards (a position rescaled by old counts, a percentage into an empty chapter, a
dead footnote link that takes back a position it did not push).

## 8. Companion

`CompanionService` is the reader's end. The callbacks of the NimBLE host task are
one step each and preempt the main task, which is cut where it reads what they
write: between the start of advertising and the resets in `begin()`, between the
clock, the peers and the tests in `update()`, in the 150 ms of a stale
handshake, between the read and the clearing of `statusChanged`, and between the
parts of `end()`. `CompanionHost` is the laptop's: its handlers are cut at each
`await`, at most one of them connects, and a watcher that is still stopping refuses
to start (the watchdog starts it later). `Companion` joins them by one link of
which each end has a view of its own, and adds what goes wrong: links that are
lost, disconnects that are not reported, subscriptions that are taken back, sessions that
Windows reopens, failing
lookups, a watcher that stops, a laptop that goes away, users who leave, come back
or put the reader to sleep.

Everything that disturbs the two ends stops at `Settle`; liveness is what they do
from then on. Fairness: the main loop turns, a link that one end no longer wants
ends and the other notices, the laptop's handlers and timers go on (weak), time
passes (strong: it is counted between two turns of the main task), and the status
timer does not always hit the moment between two reads of the main task (strong, a
two-second timer against a ten-millisecond loop).

`Companion.cfg` (one laptop, one status; 518,814 states):

- `RadioGivenBack`: whatever fails on the way in, outside of the screen the BLE
  stack is up exactly when the user's setting says so, unless a reconnect job
  refused the switch-off (`end()` ignores that, `CompanionBleService.cpp:219`).
- `AdvertisesAgain`: a service without a host advertises in the end, whatever the
  rate limit skipped and whether or not the disconnect was reported.
- `NoHostMaySleep`: without a laptop the screen stops holding the reader awake.
- `StatusReachesScreen`: left alone, the two find each other and the screen shows
  what the laptop says; this also repairs a `statusChanged` that was cleared
  unseen. The property names its two exceptions, and TLC refutes it without either:
  - `advertising /\ peer`: the stack stays up after `end()` when the user has
    Bluetooth on or a job refuses the switch-off. A disconnect callback between
    `stopAdvertising()` and `running = false` starts advertising again, the laptop
    reconnects to a service that is not running, and the next `begin()` advertises
    over the live link, which the laptop takes for stale at each advertisement. The
    hazard at `CompanionBleService.cpp:207` records it.
  - `early`: a host that connects between `now = millis()` and the tests of
    `update()` has a `hostConnectedAtMs` above `now`, so `now - hostConnectedAtMs`
    wraps around and the link is dropped as a stale handshake (`:277`, `:301`). Once
    is repaired; the exception is links that come up in that moment again and again.

In the run Bluetooth is on or off in the user's settings and a page turner is saved
(`Settings`, `Bonds`), so that a job may run or not. The two theorems hold for all
settings.

`LinkIsShown` is refuted: a host that connects in one of the gaps of `begin()` and
`update()` is overwritten to "not connected", no branch of `update()` looks for a peer
without the flag, and the screen goes on showing no host.

Assumed: the single core runs a callback to its end once it runs; a failing
`enable()` ends like a server that cannot be created; the disconnect callback may
or may not still list the peer. Left out: the message layout, acknowledgements,
the camera state (it travels with the microphone's), the sensors and the control
of Teams on the laptop. The actions marked external in `PROJECT.json` are those
of the two BLE stacks.

## 9. FileTransfer

`WebUpload` is the part of the web server that writes files. It runs on the main
task, so each WebSocket callback, and each request from its first byte to its
answer, is one action. `FilesPage` is the script in the browser, one action per
event up to the next `await`: `phase` is the promise that `uploadNextFile()`
awaits (a WebSocket upload, a POST, or the POST in its catch block). `FileTransfer`
joins the two by connections with a queue each way and a queue of requests, and
adds what goes wrong: connections break with what is under way delivered or not, and
with one end, both or neither of them told (`LinkLost`, `LinkCut`, `RequestCut`, and a
`stop(told)` whose CLOSE does not arrive because Wi-Fi is gone), the power fails, a
server has no free slot, the card refuses a file or data, the laptop falls asleep,
and other clients (the Calibre plug-in speaks the same protocol) open connections,
send what they like, and remove or rename files.

A file is what a reader of the card can tell: whole, being written by the
WebSocket upload, or broken for good. Its size is a number of messages; `PROGRESS`
is left out (the page only logs it). `wsUploadReceived` is set to 0 when an upload
ends, where the code leaves a value that is never read again.

`FileTransfer.cfg` (two connections, one of them open to another client; one file
of the page, and two of the others, one of them empty; 1,026,274 states):

- `OwnedUpload`: nothing of an upload outlives it. Flag, open handle and client
  number agree, and the client is connected or its end is on the way, so no handle
  leaks (`BusyHasOwner`); the file being written is that of the upload in progress
  (`IncompleteIsOwned`). What a power failure leaves of it has no owner: it is
  `broken`, and stays until somebody removes it.
- `EndsByOwner`: whatever other clients send, and whichever connection ends, an
  upload ends by a message of its own client or with the server.
- `StoredStays`: a whole file goes by a request that names it only, in particular
  not with the end of the connection that brought it. The exception is a file that a
  request has put under the name of the upload in progress: it goes with that upload
  (this is how `FileTransferStored.cfg` loses one).

`FileTransferPage.cfg` (no other client, a batch of two files, one of them empty;
196,898 states): `UploadEnds`, `BatchEnds` (liveness). The loop of the main task
serves every connection and request, the page handles its events, and TCP gives up
data that nobody acknowledges, on either side (`GivesUp`, and the last alternative of
`Sends`): weak fairness for each. The user, losses, the power and the stop of the
server are not fair, so nothing is assumed to be noticed sooner or later.

- `UploadEnds` holds of an upload whose client is there, or has closed its connection:
  not of one whose laptop fell asleep or whose link is dead on both sides. The server
  has no timeout of its own, and sends such a client nothing that TCP could give up.
- `BatchEnds`: a batch ends, or is `Forsaken`: the page has sent all it can, the other
  end is gone without a FIN or RST, and nothing is under way that would tell. Neither
  `new Promise` of the page has a timeout (`FilesPage.html:4529`, `:4641`), so it then
  waits until the user cancels. Without this condition TLC refutes the property (a
  POST is under way, the reader leaves Wi-Fi); with it, every other promise of the
  page is settled, also when the server goes in the middle of the data.

The code departs from what the repository says in three places:

- `ReportedIsStored` (`FileTransferStored.cfg`): the page falls back to a POST when its WebSocket fails
  before READY; the server may still have the START of that WebSocket, or its end,
  before it, which removes the file that the POST has stored.
- `DisconnectionDeletes`: nothing notices a laptop that vanished while the server
  had nothing to send, so the incomplete file and the busy flag stay.
- `CancelStops`: Cancel during the fallback POST does not stop the batch: one of three
  catch blocks does not look at `operationCancelled` (`FilesPage.html:4911`).

Two files are needed for a batch to have a next one, and one empty file for the
upload that ends in its START; the page opens one connection at a time, so the
second is for those that are not yet gone and for the other client. At most one link
is dead at a time, and it dies with nothing under way to the server; what was under
way to the page then reaches TCP's limit on the server's side at once. A laptop that
fell asleep does not come back: a new one is the other client.

No property covers: a POST that cannot be written to its end, which leaves the part
of the file under its name (`CrossPointWebServer.cpp:663`; in the model a `broken`
file, as is what a power failure leaves of a WebSocket upload); a
file that is removed or renamed while it is written, whose open handle goes on
writing (`:1485`; what SdFat then does is not in the repository); a request without a
file, answered from the flag of the previous upload (`:723`).

Left out: the conversion of books in the browser, the retry banner (it chooses
files again), folders, a power failure in the middle of a POST (a POST is one
action), and a `remove()` that fails.

## 10. WebDav

A request is served whole by one call of `handleClient()`, so requests do not
overlap. But each takes several operations on the card, and every one that changes the
card may fail or be the last before the battery is out (`PowerLoss`). Many results are
ignored in the code, and the model lets those operations fail as well: the removal
of a temporary file (`RemoveTemp`), of the original of a PUT, of the destination of a
MOVE or COPY (`Remove`), of the part of a copy (`CopyData("left")`), and the `close()` of a
temporary file (`RawEnd(FALSE)`), after which the file holds a part. The steps are
actions: `raw()` of a PUT (`RawStart`, `RawWriteFails`, `RawEnd`, `RawReplace`,
`RawRename`, `RawAborted`), `handlePut`, and the two or three steps of MOVE and COPY.
DELETE and MKCOL change the card once. A file holds a content or a part of one
(`torn`); a path is the sequence of its names, so that moving a folder takes along
what lies in it, temporary files too. There are two history variables: `before`, the card
when the request began, and `flushed`, that the `close()` of its temporary file has
not failed.

Neither `handleMove()` (`WebDAVHandler.cpp:484`) nor `HalFile::rename()`
(`HalStorage.cpp:151`) looks whether a folder is moved into itself. What SdFat then does
is not in the repository; `MoveRename` lets it fail, or succeed and take the
folder with all it holds out of reach.

`WebDav.cfg` (two folders with a name in each, two contents, PUT into one of the
folders; 180,528 states):

- `PutKeepsOne`: up to its rename a PUT has the original or the new content whole
  on the card, unless its `close()` failed: the handler then removes the original for
  a part of the new content.
- `TornByCopy`: when a path comes to hold part of a file, a COPY has written there, a
  MOVE has brought that part along, or it is a PUT whose `close()` failed. A PUT whose
  write failed or whose client went away never leaves a part under the name. Each
  path is looked at by itself, whatever parts lie elsewhere.
- `TreeOK`: whatever can be named lies in a folder that can. Whatever is left in a
  folder, the folder cannot go without it; a folder moved into itself goes whole.
- `AnswersAreTrue`: after a PUT that succeeded there is no temporary file and, unless
  its `close()` failed, the new content; after one that failed the original, or nothing.
  After a MOVE that succeeded the destination has what was at the source, unless it lies
  in it; after one that failed the source is as it was. A COPY leaves its source, and
  where it failed what was at the destination, nothing, or a part. After a failed PUT
  a temporary file may be left: nobody looks whether it could be removed.
- `ServesTree`: the handler implements `FileTree`, a tree on which a request does what it
  asks for at once or not at all, and touches nothing else. The refinement mapping
  (`Seen`, `PutStage`) shows the new file of a PUT as soon as its original is gone, though it
  still has its temporary name, and a copy only once it is complete. What `FileTree` has to
  allow is what the code does not promise: a PUT that is stored but not done may be
  lost (the rename fails, or the power goes), or be part of its content, room may be
  made for a MOVE or COPY that then fails, a copy may be part of its source, and a
  folder that is moved into itself is lost.

`OriginalSurvives` is refuted: a PUT whose rename fails has removed the original, and
then removes the new content. A read that fails ends the loop of COPY without an
error (`WebDAVHandler.cpp:629`): the model has the short copy, and `AnswersAreTrue`
leaves the content of a successful COPY open.

Assumed of SdFat: `rename()` moves an entry whole or changes nothing, and not onto an
entry that is there; `remove()` takes no folder and `rmdir()` none that holds something;
`openFileForWrite()` leaves nothing of an older temporary file when it succeeds.

Bound: what is moved elsewhere must have its new name among the paths (`Fits`); the names
on the way to a path are paths (`TreeAssumption`). Left out:
the protected paths, requests that only read, locks (dummies), clients that name
temporary files themselves, requests that share the card with the web page's.

## 11. Proofs

`ActivityManager_proofs` proves the invariants of section 3 for every set of
activities. The invariant `IInv` adds to them: who holds the mutex where
(`LockInv`); that every activity is owned once (`OwnedOnce`), because deletion
and reuse would break handler matching otherwise; that there is no current
activity only on the way home (`NoneOnlyGoingHome`); that handlers form a chain
along the stack (`HandlerChain`), since a result may have to pass several pops;
and the stages of a wait (`WaitInv`). One lemma per conjunct has one step per
action. `StackKept` proves that the manager implements `ScreenStack` from the same
invariant: the screens change only where the main task pops, launches or goes home,
what is drawn only at the two ends of `render()`; `OwnedOnce` and `HandlerChain` make
a launched activity one that was not open, and `LockInv` says that nothing is drawn
while the screens change.

`PowerManager_proofs` proves the type invariant, `ModeHasOneHolder` and
`FlagTellsFrequency` for every set of locks and every nesting on the main task.
The strengthening says which callers can be between the frequency and the flag.

`BleReconnect_proofs` proves, for any number of remotes and workers and any timing of
theirs, every invariant its run checks and the type invariant. The inductive
invariant `IInv` adds to them: a worker that connects has a target
(`TargetKnown`); the host is up under a job, was never up before the guard file
was read, and reported nothing before (`HostInv`), since otherwise arming in a
boot whose guard is unread would remove it; a boot that is disabled has no automatic task
(`AutoInv`), else the end of one would remove the guard that disables it; a guard
known to be left behind is still there (`LeftInv`); and what holds from the reset on
(`SuspectInv`): the guard file stays, each boot is disabled as soon as it reads it, no
task is automatic and none has succeeded. The steps are sorted into six kinds by what they
do to job, guard and settings (`StepKinds`) and those of a worker (`WorkerMoves`,
`WorkerLeaves`); each conjunct then has a lemma with one step per kind.
`GuardImplemented` proves `ReconnectGuard`: a suspicion leaves no guarded work and lets
none begin (`CalmGuard`), so a reset either cuts off an attempt, which is its failure, or
changes nothing (`ResetGuard`).

`HidInput_proofs` proves `TypeOK`, `HeldHasOwner` and `LastReportDecides` for any
remotes, keys, limits and queue length. The strengthening says what the queue
still holds of a remote whose last report was a release (`Last`): the last report
of it that counts is that release, and with none left it is carried out or
pending; and that the queue is empty while Bluetooth is off (`Dry`). The handling
of a report is a chain of operators on one entry and the buttons, so each
operator has lemmas: it keeps the types, and it leaves no button down that is not
the remote's (`Keeps`).

`Companion_proofs` proves `TypeOK` and `RadioGivenBack` for both ends with any
limits, statuses, settings and bonds. `RadioOwned` follows the ownership of the
radio through the places of the main task: it is owned only between `begin()` and
the end of `end()`; while it is owned the setting is off, otherwise the stack is
as set. The steps of the composition are first sorted into those of the reader
and those of the laptop.

`EpubReader_proofs` proves every invariant of its run, and the refinement, for
books of any length and any layouts. `Inv` adds to the properties the state that
belongs to each place (`Shape`), `PendingSpent` for every section that has been
placed, drawn or not (`Spent`), that everything which decides on the page leads to
the place to be resumed (`Resuming`), and what the counter says of the boot's
openings (`Booted`). `GuardImplemented` shows that each step begins, fails or
finishes an attempt, or leaves both alone.

`FileTransfer_proofs` proves every safety property of its run for any connections,
files, sizes and clients. `Inv` adds to them `Orderly`: the end of a connection is
the last the server hears of it, and of a free slot it hears nothing; without it a
START could follow the end of its connection, and the upload would have no owner.
`EndsByOwner` and `StoredStays` follow from `Inv` step by step.

`WebDav_proofs` proves every property of its run, and the refinement, for trees of any
depth. `Stage` says what each step of a request may rely on, `Serving` what it has done so
far of what its answer will tell, `Ready` that no folder is in its way. `TreeOK` looks
only at the last folder of a path and does not survive the move of a tree by itself:
`Reached` says that whatever is on the card has folders above it all the way up, so that
below something that is no folder there is nothing. The lemmas in the middle are about
paths as sequences of names: those above a path are on one line (`UnderLinear`), what is
moved goes to one place, and from one place only (`MovedIsOne`, `MovedBack`), and the folders
on the way to it are moved ones (`RebasedFolders`). `TreeServed` has one lemma per step;
the rename of a MOVE is compared with the tree `FileTree` asks for path by path
(`MoveIsMoved`; `SelfIsMoved` for a folder moved into itself, of which nothing comes to lie
elsewhere, `IntoItself`). `TornStep` looks at one path, so that parts that
lie elsewhere do not matter. None of it needs a removal or a `close()` to succeed.

The proofs assume only the named assumptions on the constants. Left to TLC: the
liveness properties under fairness, which the proof system does not reach.

## 12. Not modelled

The parts marked `not_modelled` in `PROJECT.json`:

- Wi-Fi selection, over-the-air update, KOReader sync and OPDS run on the main
  task one request at a time; what is hard in them is HTTP, XML and file I/O, not
  order. What they share with the rest is modelled where it belongs: the rendering
  mutex and `requestUpdateAndWait()` in `ActivityManager`, Wi-Fi against power saving
  in `PowerManager`, a synced position in `EpubReader`. Wi-Fi selection is next in
  line.
- The streaming JSON parsers, the other readers' page arithmetic and the choice
  among scan candidates are sequential functions, candidates for modules of pure
  operators.
- Settings, stores, menus and dialogs: records and cursors without concurrency.
- Storage and display wrappers, rendering, fonts, images, archives: drivers,
  pixels and decoders; vendored and generated code and the build scripts.

Of the modelled parts: the battery gauge, the learn and debug views of the
Bluetooth screen, the scan of the device list, the choice among several
candidates, the decoding of HID reports, section files, the sensors of the
laptop program, the requests of the web server that only read or that change
settings and folders. Each section says what else it leaves out.
