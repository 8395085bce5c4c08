------------------------------ MODULE Companion ------------------------------
(* The reader's companion service and the program on the laptop, joined by one *)
(* BLE link.  Each end has its own view of the link: "peer" on the reader,     *)
(* "open" on the laptop; after a loss the two notice at different times.       *)
EXTENDS CompanionService, CompanionHost

ASSUME LinkAssumption == Mic \subseteq Mics \union {Unknown}

VARIABLE settled   \* from now on nothing disturbs the two ends

vars == <<deviceVars, hostVars, settled>>
Device(A) == A /\ UNCHANGED hostVars
Laptop(A) == A /\ UNCHANGED deviceVars
-----------------------------------------------------------------------------
(* What goes on by itself.                                                     *)

(* Steps of both ends.                                                         *)
LinkUp == OnConnect /\ OpenSession
SubscribeCommands == OnSubscribe(TRUE) /\ Subscribe
WriteStatus == OnWrite(mic) /\ StatusWritten

(* The reader drops the link, or the laptop has let go of it.                  *)
LinkEnds(listed, ok) == (dropping \/ ~open) /\ Device(OnDisconnect(listed, ok))
SessionCloses == ~peer /\ Laptop(OnSessionClosed)

(* One part of the handler on the laptop; it ends early when its link is gone  *)
(* or another handler has reset what it was using.                             *)
HandlerStep ==
  \/ LinkUp \/ SubscribeCommands
  \/ peer /\ (Laptop(OpenSession) \/ Laptop(UseCharacteristics))
  \/ ~(advertising \/ peer) /\ Laptop(OpenFails)
  \/ /\ ~peer \/ ~open \/ (connecting = "subscribing" /\ ~characteristics)
     /\ Laptop(UseFails)

HearAdvertisement == advertising /\ Laptop(OnAdvertisementReceived)
HearService == (advertising \/ peer) /\ Laptop(OnDeviceAdded)
WriteFails == (~peer \/ ~open) /\ Laptop(StatusFails)

MainTask ==
  Device(BeginRunning \/ UpdateRead \/ ReadPeers \/ Decide \/ ResetStale \/ ReadChanged \/ ClearChanged
         \/ StopRunning \/ \E job \in BOOLEAN : End(job))
Advertise(ok) == Device(Restart(ok))

(* Time.  A laptop that nothing disturbs goes through a handshake faster than  *)
(* the reader's time limit for it.                                             *)
HandshakeGoesOn ==
  peer /\ open /\ (connecting # "no" \/ (deviceCommandSubscribed /\ ~hostStatusReceived))
Tick == Device(DeviceTick)
PromptTick == (HandshakeGoesOn => connectedFor < Handshake) /\ Tick

LossNoticed ==
  (\E listed, ok \in BOOLEAN : LinkEnds(listed, ok)) \/ SessionCloses \/ WriteFails
LaptopWork == HandlerStep \/ HearAdvertisement \/ Laptop(Watchdog)

Undisturbed ==
  \/ MainTask \/ Advertise(TRUE) \/ PromptTick
  \/ \E listed \in BOOLEAN : LinkEnds(listed, TRUE)
  \/ SessionCloses \/ HandlerStep \/ HearAdvertisement \/ HearService \/ Laptop(Watchdog)
  \/ WriteStatus \/ WriteFails
-----------------------------------------------------------------------------
(* What users do and what goes wrong.                                          *)

User == Device(Leave \/ Sleep \/ \E made, started \in BOOLEAN : Begin(made, started))

(* Confirm: sendToggleMute(); Teams may or may not be there.                   *)
ToggleMute ==
  /\ pc = "loop" /\ running /\ hostConnected /\ peer /\ deviceCommandSubscribed
  /\ characteristics /\ Laptop(MicChanges)

(* GattSession.MaintainConnection: Windows reopens the link of a session.      *)
Reattach == open /\ ~gone /\ Device(OnConnect)

LinkLost(listed, ok) == Device(OnDisconnect(listed, ok))
LossMissed == Device(MissedDisconnect)

(* Windows takes the subscription back while the link goes on.                 *)
Unsubscribed == Device(OnSubscribe(FALSE))

LaptopTrouble ==
  Laptop(OnSessionClosed \/ OpenFails \/ UseFails \/ SubscribeThrows \/ StatusFails
         \/ OnDeviceRemoved \/ WatcherStops \/ MicChanges \/ HostLeaves)

Settle == settled' = TRUE /\ UNCHANGED <<deviceVars, hostVars>>

Disturbance ==
  \/ User \/ ToggleMute \/ Reattach \/ LossMissed \/ Unsubscribed \/ LaptopTrouble \/ Tick
  \/ \E listed, ok \in BOOLEAN : LinkLost(listed, ok)
  \/ Advertise(FALSE)

Init == DeviceInit /\ HostInit /\ settled = FALSE
Next ==
  \/ Undisturbed /\ UNCHANGED settled
  \/ ~settled /\ Disturbance /\ UNCHANGED settled
  \/ ~settled /\ Settle

(* The main loop turns and time goes on, whatever else happens between two of  *)
(* its turns; a link that is not wanted ends and the other end notices; a       *)
(* handler on the laptop goes on and its timers fire; an advertisement that    *)
(* keeps being sent is heard; the stack does not refuse to advertise for ever; *)
(* and the status timer does not always hit the moment between two reads of    *)
(* the main task.                                                              *)
Fairness ==
  /\ WF_vars(UNCHANGED settled /\ (MainTask \/ \E ok \in BOOLEAN : Advertise(ok)))
  /\ SF_vars(UNCHANGED settled /\ PromptTick)
  /\ WF_vars(UNCHANGED settled /\ LossNoticed)
  /\ WF_vars(UNCHANGED settled /\ LaptopWork)
  /\ SF_vars(UNCHANGED settled /\ pc # "clear" /\ WriteStatus)

Spec == Init /\ [][Next]_vars /\ Fairness
-----------------------------------------------------------------------------
(* Types of the variables of both ends.                                        *)
TypeOK == DeviceTypeOK /\ HostTypeOK /\ settled \in BOOLEAN

(* The companion gives the radio back: whatever fails on the way in, outside   *)
(* of the screen the BLE stack is up exactly when the user's setting says so,   *)
(* but for a switch-off that a reconnect job refused (begin() and end(),       *)
(* CompanionBleService.cpp:90 and 202).                                        *)
RadioGivenBack == (pc = "home" /\ ~refused) => stack = setting

(* While the service runs and has no host, it is advertising again in the end: *)
(* through the disconnect callback, the recovery of a missed one, or the idle   *)
(* maintenance, whatever the rate limit of restartAdvertising() skipped.       *)
AdvertisesAgain == []<>(~settled \/ advertising \/ peer \/ ~running)

(* "BLE work should avoid keeping the X3 awake indefinitely" (project.md:155): *)
(* without a laptop the screen stops holding the reader awake.                 *)
NoHostMaySleep == []<>(~settled \/ ~HoldsWake \/ ~gone)

(* Left alone, the two ends find each other again and the screen shows what    *)
(* the laptop says of its microphone, unless the reader keeps advertising over *)
(* a live link (begin() advertises whatever the stack lists, and the laptop    *)
(* takes what it holds for stale at each advertisement), or links keep coming   *)
(* up after update() has read the clock (CompanionBleService.cpp:277) and are   *)
(* dropped for their age (:301).                                               *)
StatusReachesScreen ==
  []<>(\/ ~settled \/ ~running \/ gone
       \/ early \/ (advertising /\ peer)
       \/ peer /\ open /\ characteristics /\ screen.mic = mic)

(* The screen shows "BLE host connection state" (project.md:32).               *)
LinkIsShown == []<>(~settled \/ screen.connected \/ ~peer \/ ~running)
=============================================================================
