---------------------------- MODULE CompanionHost ----------------------------
(* The companion's end on the laptop: CompanionConnectionService, which looks  *)
(* for the reader's advertisement, opens the link and its characteristics in   *)
(* one asynchronous handler at a time, and resets what it holds when anything  *)
(* fails; and the timer of MainWindow that sends the status every 2 seconds.   *)
(* An await lets every other handler run: each handler is cut there.           *)
EXTENDS Integers

CONSTANT Mic   \* states of the laptop's microphone

ASSUME HostAssumption == Mic # {}

VARIABLES
  mic,          \* state of the microphone
  open,         \* the BLE session of the laptop is open
  characteristics,  \* IsConnected(): service and characteristics are held
  connecting,   \* the handler that holds the flag of that name: where it is
  watching,     \* the advertisement watcher is started
  gone          \* the laptop is out of reach or its program ended, for good

hostVars == <<mic, open, characteristics, connecting, watching, gone>>

(* ResetGattState() and RestartAdvertisementWatcherIfNeeded().  A watcher that  *)
(* is still stopping cannot be started; the watchdog does it later.            *)
ResetGattState == open' = FALSE /\ characteristics' = FALSE
RestartWatcherIfNeeded(held) == watching' \in {watching, watching \/ ~held}
-----------------------------------------------------------------------------
(* OnAdvertisementReceived(): an advertisement says that the reader has no     *)
(* host, so what is held is stale.  The watcher pauses during the attempt.     *)
OnAdvertisementReceived ==
  /\ ~gone /\ watching
  /\ IF characteristics THEN ResetGattState ELSE UNCHANGED <<open, characteristics>>
  /\ IF connecting = "no" THEN connecting' = "opening" /\ watching' = FALSE
     ELSE UNCHANGED <<connecting, watching>>
  /\ UNCHANGED <<mic, gone>>

(* OnDeviceAdded(): Windows reports the service itself; the watcher goes on.   *)
OnDeviceAdded ==
  /\ ~gone /\ ~characteristics /\ connecting = "no"
  /\ connecting' = "opening"
  /\ UNCHANGED <<mic, open, characteristics, watching, gone>>

(* The finally block, which follows the handler's last step at once: without   *)
(* the characteristics everything is reset and the watcher goes on.            *)
Finish ==
  /\ connecting' = "no"
  /\ IF characteristics THEN UNCHANGED <<open, characteristics>> ELSE ResetGattState
  /\ RestartWatcherIfNeeded(characteristics)
  /\ UNCHANGED <<mic, gone>>

(* The session and the services of the device.                                 *)
OpenSession ==
  /\ ~gone /\ connecting = "opening" /\ connecting' = "using"
  /\ open' = TRUE
  /\ UNCHANGED <<mic, characteristics, watching, gone>>

OpenFails == ~gone /\ connecting = "opening" /\ Finish

(* UseGattServiceAsync(): the characteristics, then the subscription.          *)
UseCharacteristics ==
  /\ ~gone /\ connecting = "using" /\ open
  /\ connecting' = "subscribing" /\ characteristics' = TRUE
  /\ UNCHANGED <<mic, open, watching, gone>>

Subscribe == ~gone /\ connecting = "subscribing" /\ characteristics /\ open /\ Finish

(* An exception in the subscription leaves the characteristics: the laptop     *)
(* takes itself for connected.                                                 *)
SubscribeThrows == ~gone /\ connecting = "subscribing" /\ Finish

(* A lookup or the subscription fails, or another handler has reset what this  *)
(* one was using.                                                              *)
UseFails ==
  /\ ~gone /\ connecting \in {"using", "subscribing"} /\ connecting' = "no"
  /\ ResetGattState /\ RestartWatcherIfNeeded(FALSE)
  /\ UNCHANGED <<mic, gone>>

(* OnGattSessionStatusChanged(): a session that ends while a handler connects   *)
(* is left to that handler.                                                    *)
OnSessionClosed ==
  /\ ~gone /\ open
  /\ IF connecting # "no" THEN open' = FALSE /\ UNCHANGED <<characteristics, watching>>
     ELSE ResetGattState /\ RestartWatcherIfNeeded(FALSE)
  /\ UNCHANGED <<mic, connecting, gone>>

(* OnDeviceRemoved().                                                          *)
OnDeviceRemoved ==
  /\ ~gone
  /\ ResetGattState /\ RestartWatcherIfNeeded(FALSE)
  /\ UNCHANGED <<mic, connecting, gone>>

(* SendHostStatusAsync() on the timer: a write that fails resets.              *)
StatusWritten ==
  /\ ~gone /\ characteristics /\ open
  /\ UNCHANGED hostVars

StatusFails ==
  /\ ~gone /\ characteristics
  /\ ResetGattState /\ RestartWatcherIfNeeded(FALSE)
  /\ UNCHANGED <<mic, connecting, gone>>

(* OnScanWatchdogTick().                                                       *)
BrokenWatchdog ==            \* as if it waited for a link to look for one
  /\ ~gone /\ characteristics /\ connecting = "no" /\ ~watching
  /\ watching' = TRUE
  /\ UNCHANGED <<mic, open, characteristics, connecting, gone>>

Watchdog ==
  /\ ~gone /\ ~characteristics /\ connecting = "no" /\ ~watching
  /\ watching' = TRUE
  /\ UNCHANGED <<mic, open, characteristics, connecting, gone>>

(* The radio of the laptop stops scanning: OnAdvertisementWatcherStopped().    *)
WatcherStops ==
  /\ watching /\ watching' = FALSE
  /\ UNCHANGED <<mic, open, characteristics, connecting, gone>>

MicChanges ==
  /\ ~gone /\ mic' \in Mic \ {mic}
  /\ UNCHANGED <<open, characteristics, connecting, watching, gone>>

(* Stop() when the program ends; a laptop that sleeps looks the same.          *)
HostLeaves ==
  /\ ~gone /\ gone' = TRUE
  /\ ResetGattState /\ connecting' = "no" /\ watching' = FALSE
  /\ UNCHANGED mic

HostInit ==
  /\ mic \in Mic /\ open = FALSE /\ characteristics = FALSE
  /\ connecting = "no" /\ watching = TRUE /\ gone = FALSE

HostTypeOK ==
  /\ mic \in Mic /\ open \in BOOLEAN /\ characteristics \in BOOLEAN
  /\ connecting \in {"no", "opening", "using", "subscribing"}
  /\ watching \in BOOLEAN /\ gone \in BOOLEAN
=============================================================================
