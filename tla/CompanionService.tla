-------------------------- MODULE CompanionService --------------------------
(* The companion's end on the reader: CompanionBleService, a GATT server that *)
(* advertises itself to one laptop, and LaptopCompanionActivity, the screen   *)
(* that starts it, keeps it up to date once per turn of the main loop, and    *)
(* ends it.  The callbacks of the BLE stack run on the NimBLE host task, which *)
(* preempts the main task between any two of the steps below; a callback is    *)
(* one step, the main task is cut where it reads what a callback writes.       *)
EXTENDS Integers

CONSTANTS
  RestartInterval,  \* COMPANION_ADVERTISING_RESTART_INTERVAL_MS
  Handshake,        \* COMPANION_HANDSHAKE_TIMEOUT_MS
  Grace,            \* NO_HOST_WAKE_GRACE_MS
  Mics,             \* what the laptop tells of its microphone
  Settings, Bonds   \* what the user may have saved: Bluetooth on, a page turner

Unknown == "Unknown"

ASSUME ServiceAssumption ==
  /\ RestartInterval \in Nat /\ Handshake \in Nat /\ Grace \in Nat
  /\ Unknown \notin Mics
  /\ Settings \subseteq BOOLEAN /\ Bonds \subseteq BOOLEAN

VARIABLES
  setting,         \* whether the user has Bluetooth switched on
  bonded,          \* a page turner is saved, so automatic reconnects may run
  stack,           \* the BLE stack is up: BluetoothHIDManager::isEnabled()
  refused,         \* history: disable() refused since the reader was switched on
  owns, running, server,
  hostConnected, hostStatusReceived, deviceCommandSubscribed, statusChanged,
  connectedFor,    \* age of hostConnectedAtMs, 0 when that is 0
  microphone,      \* hostStatus.microphone
  sinceRestart,    \* age of lastAdvertisingRestartAtMs
  due,             \* the maintenance interval has passed
  advertising,     \* of the stack: isAdvertising()
  peer,            \* of the stack: getPeerDevices() is not empty
  dropping,        \* of the stack: the link was told to end
  screen,          \* what the screen shows: connected, microphone
  noHostFor,       \* age of noHostConnectedSinceMs
  pc, sawPeer, sawChange,
  early            \* the host connected after update() had read the clock

radio == <<setting, bonded, refused, stack, owns, server>>
link == <<advertising, peer, dropping, sinceRestart>>
session == <<hostConnected, hostStatusReceived, deviceCommandSubscribed, connectedFor, microphone>>
display == <<screen, noHostFor>>
locals == <<sawPeer, sawChange, early>>
deviceVars == <<radio, link, session, display, locals, running, statusChanged, due, pc>>

NoScreen == [connected |-> FALSE, mic |-> Unknown]

(* A time is kept as an age, which stops where no test tells older ages apart. *)
Aged(age, cap) == IF age < cap THEN age + 1 ELSE age
-----------------------------------------------------------------------------
(* What several functions do to the fields.                                   *)

NoHost ==
  /\ hostConnected' = FALSE /\ hostStatusReceived' = FALSE
  /\ deviceCommandSubscribed' = FALSE /\ connectedFor' = 0
  /\ statusChanged' = TRUE /\ UNCHANGED microphone

(* The part of restartAdvertising() after its test of running; listed: what    *)
(* hasConnectedHosts() says.  ok: the result of startAdvertising().            *)
restartAdvertising(listed, ok) ==
  IF listed \/ advertising \/ sinceRestart < RestartInterval
  THEN UNCHANGED <<advertising, sinceRestart>>
  ELSE advertising' = ok /\ sinceRestart' = 0

(* disable() of the Bluetooth manager, as far as the companion sees it.        *)
StackOff ==
  stack' = FALSE /\ advertising' = FALSE /\ peer' = FALSE /\ dropping' = FALSE
-----------------------------------------------------------------------------
(* The main task.                                                             *)

(* As if only a server that cannot be created gave the radio back.             *)
BrokenBegin(made, started) ==
  LET owner == ~stack
      ok == made /\ started
  IN  /\ pc = "home" /\ (server => made)
      /\ owns' = (owner /\ ok)
      /\ server' = (made /\ (started \/ ~owner))
      /\ IF owner /\ ~made THEN StackOff
         ELSE stack' = TRUE /\ advertising' = (advertising \/ ok) /\ UNCHANGED <<peer, dropping>>
      /\ pc' = IF ok THEN "begun" ELSE "loop"
      /\ screen' = [NoScreen EXCEPT !.connected = hostConnected]
      /\ noHostFor' = 0
      /\ UNCHANGED <<setting, bonded, refused, sinceRestart, session, locals, running, statusChanged, due>>

(* onEnter() and begin(), up to the start of advertising.  A part of the GATT  *)
(* server may fail to be created, or advertising to start; a stack that was    *)
(* switched on for the companion is then switched off again.  A switch-on that *)
(* fails (:98) ends like a server that is not created, but for owns, which     *)
(* nothing reads before the next begin().                                      *)
Begin(made, started) ==
  LET owner == ~stack
      ok == made /\ started
  IN  /\ pc = "home" /\ (server => made)
      /\ owns' = (owner /\ ok)
      /\ server' = (made /\ (started \/ ~owner))
      /\ IF owner /\ ~ok THEN StackOff
         ELSE stack' = TRUE /\ advertising' = (advertising \/ ok) /\ UNCHANGED <<peer, dropping>>
      /\ pc' = IF ok THEN "begun" ELSE "loop"
      /\ screen' = [NoScreen EXCEPT !.connected = hostConnected]
      /\ noHostFor' = 0
      /\ UNCHANGED <<setting, bonded, refused, sinceRestart, session, locals, running, statusChanged, due>>

(* The rest of begin(): only now are the fields reset.                         *)
BeginRunning ==
  /\ pc = "begun" /\ pc' = "loop"
  /\ running' = TRUE /\ NoHost
  /\ due' = FALSE /\ sinceRestart' = RestartInterval
  /\ screen' = [screen EXCEPT !.connected = FALSE]
  /\ UNCHANGED <<radio, advertising, peer, dropping, noHostFor, locals>>

(* update(): nothing to do before the interval has passed.  First the clock is *)
(* read, then the peers ...                                                    *)
Idle == ~(running /\ due)

UpdateRead ==
  /\ pc = "loop" /\ ~Idle
  /\ due' = FALSE /\ pc' = "peers"
  /\ UNCHANGED <<radio, link, session, display, locals, running, statusChanged>>

ReadPeers ==
  /\ pc = "peers" /\ pc' = "decide"
  /\ sawPeer' = peer
  /\ UNCHANGED <<radio, link, session, display, sawChange, early, running, statusChanged, due>>

(* ... then the fields, which a callback may have set since.  A host that came  *)
(* a millisecond after the clock was read has an age below zero, which the     *)
(* unsigned difference takes for more than any limit.                          *)
HandshakeStale ==
  /\ hostConnected /\ ~(deviceCommandSubscribed /\ hostStatusReceived)
  /\ connectedFor > Handshake \/ early

BrokenMissedLoss == FALSE     \* as if that were left to the callback
MissedLoss == hostConnected /\ ~sawPeer

BrokenSilent == FALSE         \* as if only callbacks restarted advertising
Silent == ~hostConnected /\ ~sawPeer /\ ~advertising

Decide ==
  /\ pc = "decide"
  /\ pc' = IF MissedLoss \/ Silent THEN "restart"
           ELSE IF sawPeer /\ HandshakeStale THEN "stale" ELSE "status"
  /\ IF MissedLoss THEN NoHost ELSE UNCHANGED <<session, statusChanged>>
  /\ dropping' = (dropping \/ (sawPeer /\ HandshakeStale /\ peer))
  /\ sawPeer' = FALSE /\ early' = FALSE
  /\ UNCHANGED <<radio, advertising, peer, sinceRestart, display, sawChange, running, due>>

(* A stale handshake: the links were told to end, 150 ms have passed.         *)
ResetStale ==
  /\ pc = "stale" /\ pc' = "restart"
  /\ NoHost
  /\ UNCHANGED <<radio, link, display, locals, running, due>>

Restart(ok) ==
  /\ pc = "restart" /\ pc' = "status"
  /\ restartAdvertising(peer, ok)
  /\ UNCHANGED <<radio, session, display, locals, running, statusChanged, due, peer, dropping>>

(* updateNoHostTimer(), then consumeStatusChanged(), which reads the flag ...  *)
ReadChanged ==
  /\ pc = "status" \/ (pc = "loop" /\ Idle)
  /\ pc' = "clear"
  /\ screen' = [screen EXCEPT !.connected = hostConnected]
  /\ noHostFor' = IF hostConnected THEN 0 ELSE noHostFor
  /\ sawChange' = statusChanged
  /\ UNCHANGED <<radio, link, session, sawPeer, early, running, statusChanged, due>>

(* ... and clears it whatever it is by then; the screen takes the status.      *)
ClearChanged ==
  /\ pc = "clear" /\ pc' = "loop"
  /\ statusChanged' = FALSE
  /\ screen' = IF sawChange THEN [connected |-> hostConnected, mic |-> microphone] ELSE screen
  /\ sawChange' = FALSE
  /\ UNCHANGED <<radio, link, session, noHostFor, sawPeer, early, running, due>>

(* Keys are looked at between two turns.  Back: onExit() and end(), which      *)
(* stops advertising first.                                                    *)
Leave ==
  /\ pc = "loop"
  /\ pc' = IF running THEN "stopped" ELSE "home"
  /\ advertising' = (advertising /\ ~running)
  /\ screen' = NoScreen /\ noHostFor' = 0
  /\ UNCHANGED <<radio, peer, dropping, sinceRestart, session, locals, running, statusChanged, due>>

StopRunning ==
  /\ pc = "stopped" /\ pc' = "closing"
  /\ running' = FALSE /\ due' = FALSE
  /\ dropping' = (dropping \/ (server /\ peer))
  /\ UNCHANGED <<radio, advertising, peer, sinceRestart, session, display, locals, statusChanged>>

(* The links were told to end, 150 ms have passed.  A stack that was switched  *)
(* on for the companion is switched off, which a reconnect job refuses; the    *)
(* result is not looked at.  A job (module BleReconnect) may run whenever a    *)
(* page turner is saved: enterDeepSleep() asks the next enable() for one.      *)
End(job) ==
  /\ pc = "closing" /\ pc' = "home" /\ (job => stack /\ bonded)
  /\ NoHost
  /\ owns' = FALSE /\ server' = (server /\ ~owns)
  /\ refused' = (refused \/ (owns /\ job))
  /\ IF owns /\ ~job THEN StackOff ELSE UNCHANGED <<stack, advertising, peer, dropping>>
  /\ UNCHANGED <<setting, bonded, sinceRestart, display, locals, running, due>>

(* enterDeepSleep(), from this screen or another, and the boot that follows:   *)
(* the stack is switched off first, and goToSleep() ends the companion.        *)
Sleep ==
  /\ pc \in {"home", "loop"}
  /\ stack' = setting /\ refused' = FALSE
  /\ owns' = FALSE /\ running' = FALSE /\ server' = FALSE
  /\ hostConnected' = FALSE /\ hostStatusReceived' = FALSE /\ deviceCommandSubscribed' = FALSE
  /\ statusChanged' = FALSE /\ connectedFor' = 0 /\ microphone' = Unknown
  /\ sinceRestart' = RestartInterval /\ due' = FALSE
  /\ advertising' = FALSE /\ peer' = FALSE /\ dropping' = FALSE
  /\ screen' = NoScreen /\ noHostFor' = 0
  /\ pc' = "home" /\ UNCHANGED <<setting, bonded, locals>>

-----------------------------------------------------------------------------
(* The NimBLE host task.                                                      *)

OnConnect ==
  /\ stack /\ advertising
  /\ advertising' = FALSE /\ peer' = TRUE
  /\ hostConnected' = TRUE /\ connectedFor' = 0
  /\ hostStatusReceived' = FALSE /\ deviceCommandSubscribed' = FALSE
  /\ statusChanged' = TRUE
  /\ early' \in IF pc \in {"peers", "decide"} THEN {early, TRUE} ELSE {early}
  /\ UNCHANGED <<radio, dropping, sinceRestart, microphone, display, sawPeer, sawChange, running, due, pc>>

(* The stack may still list the peer while it calls back.                     *)
OnDisconnect(listed, ok) ==
  /\ peer /\ peer' = FALSE /\ dropping' = FALSE
  /\ NoHost
  /\ IF running THEN restartAdvertising(listed, ok) ELSE UNCHANGED <<advertising, sinceRestart>>
  /\ UNCHANGED <<radio, display, locals, running, due, pc>>

(* A disconnection the stack does not report: update() recovers from it.      *)
MissedDisconnect ==
  /\ peer /\ peer' = FALSE /\ dropping' = FALSE
  /\ UNCHANGED <<radio, advertising, sinceRestart, session, display, locals, running, statusChanged, due, pc>>

OnWrite(mic) ==
  /\ peer
  /\ microphone' = mic /\ hostStatusReceived' = TRUE /\ statusChanged' = TRUE
  /\ UNCHANGED <<radio, link, hostConnected, deviceCommandSubscribed, connectedFor, display, locals, running, due, pc>>

OnSubscribe(subscribed) ==
  /\ peer
  /\ deviceCommandSubscribed' = subscribed /\ statusChanged' = TRUE
  /\ UNCHANGED <<radio, link, hostConnected, hostStatusReceived, connectedFor, microphone, display, locals, running, due, pc>>
-----------------------------------------------------------------------------
(* A turn of the main task takes milliseconds: the seconds the service counts   *)
(* pass between two of them.                                                   *)
DeviceTick ==
  /\ pc \in {"home", "loop"}
  /\ due' = running
  /\ sinceRestart' = Aged(sinceRestart, RestartInterval)
  /\ connectedFor' = IF hostConnected THEN Aged(connectedFor, Handshake + 1) ELSE connectedFor
  /\ noHostFor' = IF screen.connected \/ pc = "home" THEN noHostFor ELSE Aged(noHostFor, Grace)
  /\ UNCHANGED <<radio, advertising, peer, dropping, hostConnected, hostStatusReceived, deviceCommandSubscribed,
                 microphone, screen, locals, running, statusChanged, pc>>

(* shouldHoldWakeForCompanion().                                              *)
HoldsWake == running /\ (hostConnected \/ noHostFor < Grace)

DeviceInit ==
  /\ setting \in Settings /\ stack = setting /\ bonded \in Bonds
  /\ refused = FALSE
  /\ owns = FALSE /\ running = FALSE /\ server = FALSE
  /\ hostConnected = FALSE /\ hostStatusReceived = FALSE /\ deviceCommandSubscribed = FALSE
  /\ statusChanged = FALSE /\ connectedFor = 0 /\ microphone = Unknown
  /\ sinceRestart = RestartInterval /\ due = FALSE
  /\ advertising = FALSE /\ peer = FALSE /\ dropping = FALSE
  /\ screen = NoScreen /\ noHostFor = 0
  /\ pc = "home" /\ sawPeer = FALSE /\ sawChange = FALSE /\ early = FALSE

DeviceTypeOK ==
  /\ setting \in BOOLEAN /\ bonded \in BOOLEAN /\ refused \in BOOLEAN
  /\ stack \in BOOLEAN /\ owns \in BOOLEAN
  /\ running \in BOOLEAN /\ server \in BOOLEAN
  /\ hostConnected \in BOOLEAN /\ hostStatusReceived \in BOOLEAN
  /\ deviceCommandSubscribed \in BOOLEAN /\ statusChanged \in BOOLEAN
  /\ connectedFor \in 0 .. Handshake + 1 /\ microphone \in Mics \union {Unknown}
  /\ sinceRestart \in 0 .. RestartInterval /\ due \in BOOLEAN
  /\ advertising \in BOOLEAN /\ peer \in BOOLEAN /\ dropping \in BOOLEAN
  /\ screen \in [connected : BOOLEAN, mic : Mics \union {Unknown}]
  /\ noHostFor \in 0 .. Grace
  /\ pc \in {"home", "begun", "loop", "peers", "decide", "stale", "restart", "status", "clear",
             "stopped", "closing"}
  /\ sawPeer \in BOOLEAN /\ sawChange \in BOOLEAN /\ early \in BOOLEAN
=============================================================================
