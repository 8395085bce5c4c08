-------------------------- MODULE Companion_proofs --------------------------
(* Proofs about the companion: the types of both ends, and that the radio is   *)
(* given back.                                                                 *)
EXTENDS Companion, TLAPS

(* What makes RadioGivenBack inductive: a radio that was switched on for the    *)
(* companion belongs to a service that runs, is about to, or is being closed,  *)
(* and the user has it off; any other is as the user wants it, unless a job    *)
(* refused the switch-off.                                                     *)
RadioOwned ==
  /\ owns => stack /\ pc # "home" /\ (running \/ pc \in {"begun", "closing"})
  /\ ~refused => IF owns THEN ~setting ELSE stack = setting

Inv == TypeOK /\ RadioOwned

(* An age that grows stays below its cap.                                      *)
LEMMA AgedType == \A cap \in Nat : \A age \in 0 .. cap : Aged(age, cap) \in 0 .. cap
BY DEF Aged
-----------------------------------------------------------------------------
(* The types of the reader's variables, in parts.                              *)
RadioTypes ==
  /\ setting \in BOOLEAN /\ bonded \in BOOLEAN /\ refused \in BOOLEAN
  /\ stack \in BOOLEAN /\ owns \in BOOLEAN /\ running \in BOOLEAN /\ server \in BOOLEAN

SessionTypes ==
  /\ hostConnected \in BOOLEAN /\ hostStatusReceived \in BOOLEAN
  /\ deviceCommandSubscribed \in BOOLEAN /\ statusChanged \in BOOLEAN
  /\ connectedFor \in 0 .. Handshake + 1 /\ microphone \in Mics \union {Unknown}

LinkTypes ==
  /\ sinceRestart \in 0 .. RestartInterval /\ due \in BOOLEAN
  /\ advertising \in BOOLEAN /\ peer \in BOOLEAN /\ dropping \in BOOLEAN

ScreenTypes ==
  /\ screen \in [connected : BOOLEAN, mic : Mics \union {Unknown}]
  /\ noHostFor \in 0 .. Grace
  /\ pc \in {"home", "begun", "loop", "peers", "decide", "stale", "restart", "status", "clear",
             "stopped", "closing"}
  /\ sawPeer \in BOOLEAN /\ sawChange \in BOOLEAN /\ early \in BOOLEAN

(* The parts make up the types of the reader.                                  *)
LEMMA DeviceParts == DeviceTypeOK <=> RadioTypes /\ SessionTypes /\ LinkTypes /\ ScreenTypes
BY Zenon DEF DeviceTypeOK, RadioTypes, SessionTypes, LinkTypes, ScreenTypes

(* Without a host the fields of the session have their types.                  *)
LEMMA NoHostTypes == SessionTypes /\ NoHost => SessionTypes'
<1> SUFFICES ASSUME SessionTypes, NoHost PROVE SessionTypes'
  OBVIOUS
<1>1. /\ hostConnected' \in BOOLEAN /\ hostStatusReceived' \in BOOLEAN
      /\ deviceCommandSubscribed' \in BOOLEAN /\ statusChanged' \in BOOLEAN
  BY DEF NoHost
<1> QED BY <1>1, ServiceAssumption DEF NoHost, SessionTypes

(* A restart of advertising keeps the types of the link.                       *)
LEMMA RestartTypes ==
  ASSUME LinkTypes, NEW listed \in BOOLEAN, NEW ok \in BOOLEAN, restartAdvertising(listed, ok)
  PROVE  advertising' \in BOOLEAN /\ sinceRestart' \in 0 .. RestartInterval
<1>1. advertising' \in {advertising, ok} /\ sinceRestart' \in {sinceRestart, 0}
  BY DEF restartAdvertising
<1> QED BY <1>1, ServiceAssumption DEF LinkTypes

(* The screen keeps its type whatever it is given.                             *)
LEMMA ScreenType ==
  ASSUME ScreenTypes, NEW c \in BOOLEAN, NEW m \in Mics \union {Unknown}
  PROVE  /\ [screen EXCEPT !.connected = c] \in [connected : BOOLEAN, mic : Mics \union {Unknown}]
         /\ [connected |-> c, mic |-> m] \in [connected : BOOLEAN, mic : Mics \union {Unknown}]
         /\ [NoScreen EXCEPT !.connected = c] \in [connected : BOOLEAN, mic : Mics \union {Unknown}]
         /\ NoScreen \in [connected : BOOLEAN, mic : Mics \union {Unknown}]
<1>1. NoScreen \in [connected : BOOLEAN, mic : Mics \union {Unknown}]
  BY DEF NoScreen
<1>2. \A s \in [connected : BOOLEAN, mic : Mics \union {Unknown}] :
        [s EXCEPT !.connected = c] \in [connected : BOOLEAN, mic : Mics \union {Unknown}]
  OBVIOUS
<1>3. screen \in [connected : BOOLEAN, mic : Mics \union {Unknown}]
  BY DEF ScreenTypes
<1> QED BY <1>1, <1>2, <1>3
-----------------------------------------------------------------------------
(* The callbacks keep the types.                                               *)
LEMMA CallbackTypes ==
  ASSUME DeviceTypeOK,
         OnConnect \/ MissedDisconnect \/ (\E b \in BOOLEAN : OnSubscribe(b))
           \/ (\E m \in Mics \union {Unknown} : OnWrite(m))
           \/ \E listed, ok \in BOOLEAN : OnDisconnect(listed, ok)
  PROVE  DeviceTypeOK'
<1> USE ServiceAssumption
<1>0. RadioTypes /\ SessionTypes /\ LinkTypes /\ ScreenTypes
  BY DeviceParts
<1>p. (DeviceTypeOK <=> RadioTypes /\ SessionTypes /\ LinkTypes /\ ScreenTypes)'
  BY DeviceParts, PTL
<1>1. RadioTypes'
  BY <1>0 DEF RadioTypes, OnConnect, MissedDisconnect, OnSubscribe, OnWrite, OnDisconnect, radio
<1>2. ScreenTypes'
  <2>1. CASE OnConnect
    <3>1. early' \in {early, TRUE}
      BY <2>1 DEF OnConnect
    <3>2. early' \in BOOLEAN
      BY <1>0, <3>1 DEF ScreenTypes
    <3> QED BY <1>0, <2>1, <3>2 DEF ScreenTypes, OnConnect, display
  <2>2. CASE UNCHANGED <<display, locals, pc>>
    BY <1>0, <2>2 DEF ScreenTypes, display, locals
  <2>3. OnConnect \/ UNCHANGED <<display, locals, pc>>
    BY DEF MissedDisconnect, OnSubscribe, OnWrite, OnDisconnect
  <2> QED BY <2>1, <2>2, <2>3
<1>3. SessionTypes'
  <2>1. CASE OnConnect
    <3>1. hostConnected' \in BOOLEAN /\ hostStatusReceived' \in BOOLEAN /\ deviceCommandSubscribed' \in BOOLEAN
          /\ statusChanged' \in BOOLEAN
      BY <2>1 DEF OnConnect
    <3> QED BY <1>0, <2>1, <3>1 DEF OnConnect, SessionTypes
  <2>2. CASE MissedDisconnect
    BY <1>0, <2>2 DEF MissedDisconnect, SessionTypes, session
  <2>3. ASSUME NEW b \in BOOLEAN, OnSubscribe(b) PROVE SessionTypes'
    <3>1. deviceCommandSubscribed' \in BOOLEAN /\ statusChanged' \in BOOLEAN
      BY <2>3 DEF OnSubscribe
    <3> QED BY <1>0, <2>3, <3>1 DEF OnSubscribe, SessionTypes
  <2>4. ASSUME NEW m \in Mics \union {Unknown}, OnWrite(m) PROVE SessionTypes'
    <3>1. hostStatusReceived' \in BOOLEAN /\ statusChanged' \in BOOLEAN
      BY <2>4 DEF OnWrite
    <3> QED BY <1>0, <2>4, <3>1 DEF OnWrite, SessionTypes
  <2>5. ASSUME NEW listed \in BOOLEAN, NEW ok \in BOOLEAN, OnDisconnect(listed, ok) PROVE SessionTypes'
    BY <1>0, <2>5, NoHostTypes DEF OnDisconnect
  <2> QED BY <2>1, <2>2, <2>3, <2>4, <2>5
<1>4. LinkTypes'
  <2>1. CASE OnConnect
    <3>1. advertising' \in BOOLEAN /\ peer' \in BOOLEAN
      BY <2>1 DEF OnConnect
    <3> QED BY <1>0, <2>1, <3>1 DEF OnConnect, LinkTypes
  <2>2. CASE MissedDisconnect
    <3>1. peer' \in BOOLEAN /\ dropping' \in BOOLEAN
      BY <2>2 DEF MissedDisconnect
    <3> QED BY <1>0, <2>2, <3>1 DEF MissedDisconnect, LinkTypes
  <2>3. ASSUME NEW b \in BOOLEAN, OnSubscribe(b) PROVE LinkTypes'
    BY <1>0, <2>3 DEF OnSubscribe, LinkTypes, link
  <2>4. ASSUME NEW m \in Mics \union {Unknown}, OnWrite(m) PROVE LinkTypes'
    BY <1>0, <2>4 DEF OnWrite, LinkTypes, link
  <2>5. ASSUME NEW listed \in BOOLEAN, NEW ok \in BOOLEAN, OnDisconnect(listed, ok) PROVE LinkTypes'
    <3>1. peer' \in BOOLEAN /\ dropping' \in BOOLEAN /\ due' = due
      BY <2>5 DEF OnDisconnect
    <3>2. advertising' \in BOOLEAN /\ sinceRestart' \in 0 .. RestartInterval
      <4>1. CASE running
        BY <1>0, <2>5, <4>1, RestartTypes DEF OnDisconnect
      <4>2. CASE ~running
        BY <1>0, <2>5, <4>2 DEF OnDisconnect, LinkTypes
      <4> QED BY <4>1, <4>2
    <3> QED BY <1>0, <3>1, <3>2 DEF LinkTypes
  <2> QED BY <2>1, <2>2, <2>3, <2>4, <2>5
<1> QED BY <1>1, <1>2, <1>3, <1>4, <1>p

MainStep ==
  \/ \E made, started \in BOOLEAN : Begin(made, started)
  \/ BeginRunning \/ UpdateRead \/ ReadPeers \/ Decide \/ ResetStale \/ ReadChanged \/ ClearChanged
  \/ Leave \/ StopRunning \/ Sleep \/ DeviceTick
  \/ \E ok \in BOOLEAN : Restart(ok)
  \/ \E job \in BOOLEAN : End(job)

(* The main task keeps the types.                                              *)
LEMMA MainTypes == DeviceTypeOK /\ MainStep => DeviceTypeOK'
<1> SUFFICES ASSUME DeviceTypeOK, MainStep PROVE DeviceTypeOK'
  OBVIOUS
<1> USE ServiceAssumption
<1>0. RadioTypes /\ SessionTypes /\ LinkTypes /\ ScreenTypes
  BY DeviceParts
<1>p. (DeviceTypeOK <=> RadioTypes /\ SessionTypes /\ LinkTypes /\ ScreenTypes)'
  BY DeviceParts, PTL
<1>b. /\ hostConnected \in BOOLEAN /\ microphone \in Mics \union {Unknown}
      /\ peer \in BOOLEAN /\ advertising \in BOOLEAN /\ running \in BOOLEAN /\ dropping \in BOOLEAN
      /\ stack \in BOOLEAN /\ server \in BOOLEAN /\ owns \in BOOLEAN /\ setting \in BOOLEAN
      /\ statusChanged \in BOOLEAN /\ refused \in BOOLEAN /\ bonded \in BOOLEAN
  BY <1>0 DEF RadioTypes, SessionTypes, LinkTypes
<1>1. ASSUME NEW made \in BOOLEAN, NEW started \in BOOLEAN, Begin(made, started) PROVE DeviceTypeOK'
  <2>1. owns' \in BOOLEAN /\ server' \in BOOLEAN /\ stack' \in BOOLEAN /\ advertising' \in BOOLEAN
        /\ peer' \in BOOLEAN /\ dropping' \in BOOLEAN
    <3>1. owns' \in {TRUE, FALSE} /\ server' \in {TRUE, FALSE} /\ stack' \in {TRUE, FALSE}
      BY <1>1, <1>b DEF Begin, StackOff
    <3>2. peer' \in {peer, FALSE} /\ dropping' \in {dropping, FALSE} /\ advertising' \in {TRUE, FALSE}
      BY <1>1, <1>b DEF Begin, StackOff
    <3> QED BY <3>1, <3>2, <1>b
  <2>2. RadioTypes'
    BY <1>0, <1>1, <2>1 DEF RadioTypes, Begin
  <2>3. SessionTypes'
    BY <1>0, <1>1 DEF SessionTypes, Begin, session
  <2>4. LinkTypes'
    BY <1>0, <1>1, <2>1 DEF LinkTypes, Begin
  <2>5. screen' \in [connected : BOOLEAN, mic : Mics \union {Unknown}]
    BY <1>0, <1>1, <1>b, ScreenType DEF Begin
  <2>6. ScreenTypes'
    BY <1>0, <1>1, <2>5 DEF ScreenTypes, Begin, locals
  <2> QED BY <2>2, <2>3, <2>4, <2>6, <1>p
<1>2. CASE BeginRunning
  <2>1. running' \in BOOLEAN /\ due' \in BOOLEAN
    BY <1>2 DEF BeginRunning
  <2>2. RadioTypes'
    BY <1>0, <1>2, <2>1 DEF RadioTypes, BeginRunning, radio
  <2>3. SessionTypes'
    BY <1>0, <1>2, NoHostTypes DEF BeginRunning
  <2>4. LinkTypes'
    BY <1>0, <1>2, <2>1 DEF LinkTypes, BeginRunning
  <2>5. screen' \in [connected : BOOLEAN, mic : Mics \union {Unknown}]
    BY <1>0, <1>2, <1>b, ScreenType DEF BeginRunning
  <2>6. ScreenTypes'
    BY <1>0, <1>2, <2>5 DEF ScreenTypes, BeginRunning, locals
  <2> QED BY <2>2, <2>3, <2>4, <2>6, <1>p
<1>3. CASE UpdateRead
  <2>1. due' \in BOOLEAN
    BY <1>3 DEF UpdateRead
  <2>2. RadioTypes' /\ SessionTypes'
    BY <1>0, <1>3 DEF RadioTypes, SessionTypes, UpdateRead, radio, session
  <2>3. LinkTypes'
    BY <1>0, <1>3, <2>1 DEF LinkTypes, UpdateRead, link
  <2>4. ScreenTypes'
    BY <1>0, <1>3 DEF ScreenTypes, UpdateRead, display, locals
  <2> QED BY <2>2, <2>3, <2>4, <1>p
<1>14. CASE ReadPeers
  <2>1. sawPeer' \in BOOLEAN
    BY <1>14, <1>b DEF ReadPeers
  <2>2. RadioTypes' /\ SessionTypes' /\ LinkTypes'
    BY <1>0, <1>14 DEF RadioTypes, SessionTypes, LinkTypes, ReadPeers, radio, session, link
  <2>3. ScreenTypes'
    BY <1>0, <1>14, <2>1 DEF ScreenTypes, ReadPeers, display
  <2> QED BY <2>2, <2>3, <1>p
<1>4. CASE Decide
  <2>1. sawPeer' \in BOOLEAN /\ early' \in BOOLEAN
    BY <1>4 DEF Decide
  <2>2. dropping' \in BOOLEAN
    <3>1. dropping' = (dropping \/ (sawPeer /\ HandshakeStale /\ peer))
      BY <1>4 DEF Decide
    <3> QED BY <3>1
  <2>3. SessionTypes'
    <3>1. CASE MissedLoss
      BY <1>0, <1>4, <3>1, NoHostTypes DEF Decide
    <3>2. CASE ~MissedLoss
      BY <1>0, <1>4, <3>2 DEF Decide, SessionTypes, session
    <3> QED BY <3>1, <3>2
  <2>4. RadioTypes'
    BY <1>0, <1>4 DEF RadioTypes, Decide, radio
  <2>5. LinkTypes'
    BY <1>0, <1>4, <2>2 DEF LinkTypes, Decide
  <2>6. ScreenTypes'
    <3>1. pc' \in {"restart", "stale", "status"}
      BY <1>4 DEF Decide
    <3> QED BY <1>0, <1>4, <2>1, <3>1 DEF ScreenTypes, Decide, display
  <2> QED BY <2>3, <2>4, <2>5, <2>6, <1>p
<1>5. CASE ResetStale
  <2>1. RadioTypes' /\ LinkTypes' /\ ScreenTypes'
    BY <1>0, <1>5 DEF RadioTypes, LinkTypes, ScreenTypes, ResetStale, radio, link, display, locals
  <2>2. SessionTypes'
    BY <1>0, <1>5, NoHostTypes DEF ResetStale
  <2> QED BY <2>1, <2>2, <1>p
<1>6. CASE ReadChanged
  <2>1. sawChange' \in BOOLEAN
    BY <1>6, <1>b DEF ReadChanged
  <2>2. screen' \in [connected : BOOLEAN, mic : Mics \union {Unknown}]
    BY <1>0, <1>6, <1>b, ScreenType DEF ReadChanged
  <2>3. RadioTypes' /\ LinkTypes' /\ SessionTypes'
    BY <1>0, <1>6 DEF RadioTypes, LinkTypes, SessionTypes, ReadChanged, radio, link, session
  <2>4. ScreenTypes'
    BY <1>0, <1>6, <2>1, <2>2 DEF ScreenTypes, ReadChanged
  <2> QED BY <2>3, <2>4, <1>p
<1>7. CASE ClearChanged
  <2>1. sawChange' \in BOOLEAN /\ statusChanged' \in BOOLEAN
    BY <1>7 DEF ClearChanged
  <2>2. screen' \in [connected : BOOLEAN, mic : Mics \union {Unknown}]
    <3>1. screen' = screen \/ screen' = [connected |-> hostConnected, mic |-> microphone]
      BY <1>7 DEF ClearChanged
    <3> QED BY <1>0, <1>b, <3>1, ScreenType DEF ScreenTypes
  <2>3. RadioTypes' /\ LinkTypes'
    BY <1>0, <1>7 DEF RadioTypes, LinkTypes, ClearChanged, radio, link
  <2>4. SessionTypes'
    BY <1>0, <1>7, <2>1 DEF SessionTypes, ClearChanged, session
  <2>5. ScreenTypes'
    BY <1>0, <1>7, <2>1, <2>2 DEF ScreenTypes, ClearChanged
  <2> QED BY <2>3, <2>4, <2>5, <1>p
<1>8. CASE Leave
  <2>1. advertising' \in BOOLEAN
    <3>1. advertising' = (advertising /\ ~running)
      BY <1>8 DEF Leave
    <3> QED BY <3>1
  <2>2. screen' \in [connected : BOOLEAN, mic : Mics \union {Unknown}]
    BY <1>8 DEF Leave, NoScreen
  <2>3. RadioTypes' /\ SessionTypes'
    BY <1>0, <1>8 DEF RadioTypes, SessionTypes, Leave, radio, session
  <2>4. LinkTypes'
    BY <1>0, <1>8, <2>1 DEF LinkTypes, Leave
  <2>5. ScreenTypes'
    BY <1>0, <1>8, <2>2 DEF ScreenTypes, Leave, locals
  <2> QED BY <2>3, <2>4, <2>5, <1>p
<1>9. CASE StopRunning
  <2>1. running' \in BOOLEAN /\ due' \in BOOLEAN
    BY <1>9 DEF StopRunning
  <2>2. dropping' \in BOOLEAN
    <3>1. dropping' = (dropping \/ (server /\ peer))
      BY <1>9 DEF StopRunning
    <3> QED BY <3>1
  <2>3. RadioTypes' /\ SessionTypes'
    BY <1>0, <1>9, <2>1 DEF RadioTypes, SessionTypes, StopRunning, radio, session
  <2>4. LinkTypes'
    BY <1>0, <1>9, <2>1, <2>2 DEF LinkTypes, StopRunning
  <2>5. ScreenTypes'
    BY <1>0, <1>9 DEF ScreenTypes, StopRunning, display, locals
  <2> QED BY <2>3, <2>4, <2>5, <1>p
<1>10. CASE Sleep
  <2>1. /\ refused' \in BOOLEAN /\ owns' \in BOOLEAN /\ running' \in BOOLEAN /\ server' \in BOOLEAN
        /\ hostConnected' \in BOOLEAN /\ hostStatusReceived' \in BOOLEAN
        /\ deviceCommandSubscribed' \in BOOLEAN /\ statusChanged' \in BOOLEAN
        /\ due' \in BOOLEAN /\ advertising' \in BOOLEAN /\ peer' \in BOOLEAN /\ dropping' \in BOOLEAN
    BY <1>10 DEF Sleep
  <2>2. stack' = setting /\ UNCHANGED <<setting, bonded>>
    BY <1>10 DEF Sleep
  <2>3. RadioTypes'
    BY <1>b, <2>1, <2>2 DEF RadioTypes
  <2>4. SessionTypes'
    BY <1>10, <2>1 DEF SessionTypes, Sleep
  <2>5. LinkTypes'
    BY <1>10, <2>1 DEF LinkTypes, Sleep
  <2>6. screen' \in [connected : BOOLEAN, mic : Mics \union {Unknown}]
    BY <1>10 DEF Sleep, NoScreen
  <2>7. ScreenTypes'
    BY <1>0, <1>10, <2>6 DEF ScreenTypes, Sleep, locals
  <2> QED BY <2>3, <2>4, <2>5, <2>7, <1>p
<1>11. CASE DeviceTick
  <2>1. due' \in BOOLEAN
    BY <1>11, <1>b DEF DeviceTick
  <2>2. sinceRestart' \in 0 .. RestartInterval
    BY <1>0, <1>11, AgedType DEF DeviceTick, LinkTypes
  <2>3. connectedFor' \in 0 .. Handshake + 1
    BY <1>0, <1>11, AgedType DEF DeviceTick, SessionTypes
  <2>4. noHostFor' \in 0 .. Grace
    BY <1>0, <1>11, AgedType DEF DeviceTick, ScreenTypes
  <2>5. RadioTypes'
    BY <1>0, <1>11 DEF RadioTypes, DeviceTick, radio
  <2>6. SessionTypes'
    BY <1>0, <1>11, <2>3 DEF SessionTypes, DeviceTick
  <2>7. LinkTypes'
    BY <1>0, <1>11, <2>1, <2>2 DEF LinkTypes, DeviceTick
  <2>8. ScreenTypes'
    BY <1>0, <1>11, <2>4 DEF ScreenTypes, DeviceTick, locals
  <2> QED BY <2>5, <2>6, <2>7, <2>8, <1>p
<1>12. ASSUME NEW ok \in BOOLEAN, Restart(ok) PROVE DeviceTypeOK'
  <2>1. advertising' \in BOOLEAN /\ sinceRestart' \in 0 .. RestartInterval
    BY <1>0, <1>b, <1>12, RestartTypes DEF Restart
  <2>2. RadioTypes' /\ SessionTypes'
    BY <1>0, <1>12 DEF RadioTypes, SessionTypes, Restart, radio, session
  <2>3. LinkTypes'
    BY <1>0, <1>12, <2>1 DEF LinkTypes, Restart
  <2>4. ScreenTypes'
    BY <1>0, <1>12 DEF ScreenTypes, Restart, display, locals
  <2> QED BY <2>2, <2>3, <2>4, <1>p
<1>13. ASSUME NEW job \in BOOLEAN, End(job) PROVE DeviceTypeOK'
  <2>1. owns' \in BOOLEAN
    BY <1>13 DEF End
  <2>2. server' \in BOOLEAN /\ refused' \in BOOLEAN
    <3>1. server' = (server /\ ~owns) /\ refused' = (refused \/ (owns /\ job))
      BY <1>13 DEF End
    <3> QED BY <3>1
  <2>3. stack' \in BOOLEAN /\ advertising' \in BOOLEAN /\ peer' \in BOOLEAN /\ dropping' \in BOOLEAN
    <3>1. /\ stack' \in {stack, FALSE} /\ advertising' \in {advertising, FALSE}
          /\ peer' \in {peer, FALSE} /\ dropping' \in {dropping, FALSE}
      BY <1>13 DEF End, StackOff
    <3> QED BY <1>b, <3>1
  <2>4. RadioTypes'
    BY <1>0, <1>13, <2>1, <2>2, <2>3 DEF RadioTypes, End
  <2>5. SessionTypes'
    BY <1>0, <1>13, NoHostTypes DEF End
  <2>6. LinkTypes'
    BY <1>0, <1>13, <2>3 DEF LinkTypes, End
  <2>7. ScreenTypes'
    BY <1>0, <1>13 DEF ScreenTypes, End, display, locals
  <2> QED BY <2>4, <2>5, <2>6, <2>7, <1>p
<1> QED BY <1>1, <1>2, <1>3, <1>4, <1>5, <1>6, <1>7, <1>8, <1>9, <1>10, <1>11, <1>12, <1>13, <1>14 DEF MainStep
-----------------------------------------------------------------------------
(* Every step of the two ends is one of the main task, of a callback, or none   *)
(* on the reader, and one of the handlers, or none, on the laptop.             *)
Callback ==
  \/ OnConnect \/ MissedDisconnect \/ \E b \in BOOLEAN : OnSubscribe(b)
  \/ \E m \in Mics \union {Unknown} : OnWrite(m)
  \/ \E listed, ok \in BOOLEAN : OnDisconnect(listed, ok)

Handler ==
  \/ OnAdvertisementReceived \/ OnDeviceAdded \/ OpenSession \/ OpenFails \/ UseCharacteristics
  \/ Subscribe \/ SubscribeThrows \/ UseFails \/ OnSessionClosed \/ OnDeviceRemoved
  \/ StatusWritten \/ StatusFails \/ Watchdog \/ WatcherStops \/ MicChanges \/ HostLeaves

DeviceStep == MainStep \/ Callback \/ UNCHANGED deviceVars
HostStep == Handler \/ UNCHANGED hostVars

(* The steps of Undisturbed.                                                   *)
LEMMA UndisturbedKinds == TypeOK /\ Undisturbed => DeviceStep /\ HostStep
<1> SUFFICES ASSUME TypeOK, Undisturbed PROVE DeviceStep /\ HostStep
  OBVIOUS
<1>1. CASE MainTask
  BY <1>1 DEF MainTask, Device, DeviceStep, HostStep, MainStep
<1>2. CASE Advertise(TRUE)
  BY <1>2 DEF Advertise, Device, DeviceStep, HostStep, MainStep
<1>3. CASE PromptTick
  BY <1>3 DEF PromptTick, Tick, Device, DeviceStep, HostStep, MainStep
<1>4. CASE \E listed \in BOOLEAN : LinkEnds(listed, TRUE)
  BY <1>4 DEF LinkEnds, Device, DeviceStep, HostStep, Callback
<1>5. CASE SessionCloses \/ HearAdvertisement \/ HearService \/ Laptop(Watchdog) \/ WriteFails
  BY <1>5 DEF SessionCloses, HearAdvertisement, HearService, WriteFails, Laptop, DeviceStep, HostStep, Handler
<1>6. CASE HandlerStep
  BY <1>6 DEF HandlerStep, LinkUp, SubscribeCommands, Laptop, DeviceStep, HostStep, Handler, Callback
<1>7. CASE WriteStatus
  <2>1. mic \in Mics \union {Unknown}
    BY LinkAssumption DEF TypeOK, HostTypeOK
  <2>2. OnWrite(mic) /\ StatusWritten
    BY <1>7 DEF WriteStatus
  <2>3. \E m \in Mics \union {Unknown} : OnWrite(m)
    BY <2>1, <2>2
  <2> QED BY <2>2, <2>3 DEF DeviceStep, HostStep, Handler, Callback
<1> QED BY <1>1, <1>2, <1>3, <1>4, <1>5, <1>6, <1>7 DEF Undisturbed

(* The steps of Disturbance.                                                   *)
LEMMA DisturbanceKinds == Disturbance => DeviceStep /\ HostStep
<1> SUFFICES ASSUME Disturbance PROVE DeviceStep /\ HostStep
  OBVIOUS
<1>1. CASE User \/ Tick
  BY <1>1 DEF User, Tick, Device, DeviceStep, HostStep, MainStep
<1>2. CASE ToggleMute \/ LaptopTrouble
  BY <1>2 DEF ToggleMute, LaptopTrouble, Laptop, DeviceStep, HostStep, Handler
<1>3. CASE Reattach \/ LossMissed \/ Unsubscribed
  BY <1>3 DEF Reattach, LossMissed, Unsubscribed, Device, DeviceStep, HostStep, Callback
<1>4. CASE \E listed, ok \in BOOLEAN : LinkLost(listed, ok)
  BY <1>4 DEF LinkLost, Device, DeviceStep, HostStep, Callback
<1>5. CASE Advertise(FALSE)
  BY <1>5 DEF Advertise, Device, DeviceStep, HostStep, MainStep
<1> QED BY <1>1, <1>2, <1>3, <1>4, <1>5 DEF Disturbance

(* The steps of the specification.                                             *)
LEMMA StepKinds == TypeOK /\ [Next]_vars => DeviceStep /\ HostStep /\ settled' \in BOOLEAN
<1> SUFFICES ASSUME TypeOK, [Next]_vars PROVE DeviceStep /\ HostStep /\ settled' \in BOOLEAN
  OBVIOUS
<1>1. settled' \in {settled, TRUE}
  BY DEF Next, Settle, vars
<1>2. DeviceStep /\ HostStep
  BY UndisturbedKinds, DisturbanceKinds DEF Next, Settle, vars, DeviceStep, HostStep
<1> QED BY <1>1, <1>2 DEF TypeOK

(* The handlers keep the types of the laptop.                                  *)
LEMMA HostTypes == HostTypeOK /\ HostStep => HostTypeOK'
<1> SUFFICES ASSUME HostTypeOK, HostStep PROVE HostTypeOK'
  OBVIOUS
<1>1. mic' \in Mic
  BY DEF HostTypeOK, HostStep, Handler, hostVars, OnAdvertisementReceived, OnDeviceAdded, OpenSession, OpenFails,
         UseCharacteristics, Subscribe, SubscribeThrows, UseFails, OnSessionClosed, OnDeviceRemoved, StatusWritten,
         StatusFails, Watchdog, WatcherStops, MicChanges, HostLeaves, Finish
<1>2. connecting' \in {"no", "opening", "using", "subscribing"}
  BY DEF HostTypeOK, HostStep, Handler, hostVars, OnAdvertisementReceived, OnDeviceAdded, OpenSession, OpenFails,
         UseCharacteristics, Subscribe, SubscribeThrows, UseFails, OnSessionClosed, OnDeviceRemoved, StatusWritten,
         StatusFails, Watchdog, WatcherStops, MicChanges, HostLeaves, Finish
<1>3. /\ open' \in {open, TRUE, FALSE} /\ characteristics' \in {characteristics, TRUE, FALSE}
      /\ gone' \in {gone, TRUE}
  BY DEF HostTypeOK, HostStep, Handler, hostVars, OnAdvertisementReceived, OnDeviceAdded, OpenSession, OpenFails,
         UseCharacteristics, Subscribe, SubscribeThrows, UseFails, OnSessionClosed, OnDeviceRemoved, StatusWritten,
         StatusFails, Watchdog, WatcherStops, MicChanges, HostLeaves, Finish, ResetGattState
<1>4. watching' \in {watching, TRUE, FALSE}
  BY DEF HostTypeOK, HostStep, Handler, hostVars, OnAdvertisementReceived, OnDeviceAdded, OpenSession, OpenFails,
         UseCharacteristics, Subscribe, SubscribeThrows, UseFails, OnSessionClosed, OnDeviceRemoved, StatusWritten,
         StatusFails, Watchdog, WatcherStops, MicChanges, HostLeaves, Finish, RestartWatcherIfNeeded
<1> QED BY <1>1, <1>2, <1>3, <1>4 DEF HostTypeOK
-----------------------------------------------------------------------------
(* The radio.  Most steps leave alone what RadioOwned speaks of.               *)
RadioVars == <<setting, refused, stack, owns, running>>

(* Every step keeps track of whom the radio belongs to.                        *)
LEMMA RadioStep == TypeOK /\ RadioOwned /\ DeviceStep => RadioOwned'
<1> SUFFICES ASSUME TypeOK, RadioOwned, DeviceStep PROVE RadioOwned'
  OBVIOUS
<1>b. setting \in BOOLEAN /\ refused \in BOOLEAN /\ stack \in BOOLEAN /\ owns \in BOOLEAN /\ running \in BOOLEAN
  BY DEF TypeOK, DeviceTypeOK
<1>1. CASE UNCHANGED <<RadioVars, pc>>
  BY <1>1 DEF RadioVars, RadioOwned
<1>2. CASE Callback \/ DeviceTick \/ UNCHANGED deviceVars
  <2>1. UNCHANGED <<RadioVars, pc>>
    BY <1>2 DEF Callback, DeviceTick, deviceVars, RadioVars, radio, OnConnect, MissedDisconnect, OnSubscribe, OnWrite, OnDisconnect
  <2> QED BY <1>1, <2>1
<1>3. CASE UpdateRead \/ ReadPeers \/ Decide \/ ResetStale \/ ReadChanged \/ ClearChanged \/ \E ok \in BOOLEAN : Restart(ok)
  <2>1. UNCHANGED RadioVars /\ pc \notin {"home", "begun", "closing"} /\ pc' # "home"
    BY <1>3 DEF RadioVars, radio, UpdateRead, ReadPeers, Decide, ResetStale, ReadChanged, ClearChanged, Restart
  <2> QED BY <2>1 DEF RadioVars, RadioOwned
<1>4. ASSUME NEW made \in BOOLEAN, NEW started \in BOOLEAN, Begin(made, started) PROVE RadioOwned'
  <2>1. /\ pc = "home" /\ ~owns /\ UNCHANGED <<setting, refused>>
        /\ owns' = (~stack /\ made /\ started)
        /\ stack' = (stack \/ (made /\ started))
        /\ pc' = IF made /\ started THEN "begun" ELSE "loop"
    BY <1>4, <1>b DEF Begin, StackOff, RadioOwned
  <2>2. ~refused => stack = setting
    BY <2>1 DEF RadioOwned
  <2>3. CASE stack
    BY <1>b, <2>1, <2>2, <2>3 DEF RadioOwned
  <2>4. CASE ~stack /\ made /\ started
    BY <1>b, <2>1, <2>2, <2>4 DEF RadioOwned
  <2>5. CASE ~stack /\ ~(made /\ started)
    BY <1>b, <2>1, <2>2, <2>5 DEF RadioOwned
  <2> QED BY <2>3, <2>4, <2>5
<1>5. CASE BeginRunning
  <2>1. UNCHANGED <<setting, refused, stack, owns>> /\ running' /\ pc' = "loop"
    BY <1>5 DEF BeginRunning, radio
  <2> QED BY <2>1 DEF RadioOwned
<1>6. CASE Leave
  <2>1. UNCHANGED RadioVars /\ pc = "loop" /\ pc' = IF running THEN "stopped" ELSE "home"
    BY <1>6 DEF Leave, RadioVars, radio
  <2> QED BY <2>1 DEF RadioVars, RadioOwned
<1>7. CASE StopRunning
  <2>1. UNCHANGED <<setting, refused, stack, owns>> /\ pc' = "closing"
    BY <1>7 DEF StopRunning, radio
  <2> QED BY <2>1 DEF RadioOwned
<1>8. CASE Sleep
  <2>1. stack' = setting /\ owns' = FALSE /\ UNCHANGED setting
    BY <1>8 DEF Sleep
  <2> QED BY <2>1 DEF RadioOwned
<1>9. ASSUME NEW job \in BOOLEAN, End(job) PROVE RadioOwned'
  <2>1. /\ owns' = FALSE /\ UNCHANGED setting
        /\ refused' = (refused \/ (owns /\ job))
        /\ IF owns /\ ~job THEN stack' = FALSE ELSE stack' = stack
    BY <1>9 DEF End, StackOff
  <2>2. CASE owns /\ job
    BY <2>1, <2>2 DEF RadioOwned
  <2>3. CASE owns /\ ~job
    BY <1>b, <2>1, <2>3 DEF RadioOwned
  <2>4. CASE ~owns
    BY <1>b, <2>1, <2>4 DEF RadioOwned
  <2> QED BY <2>2, <2>3, <2>4
<1> QED BY <1>2, <1>3, <1>4, <1>5, <1>6, <1>7, <1>8, <1>9 DEF DeviceStep, MainStep
-----------------------------------------------------------------------------
(* The initial states satisfy the invariant.                                   *)
LEMMA InitInv == Init => Inv
<1> SUFFICES ASSUME Init PROVE Inv
  OBVIOUS
<1> USE ServiceAssumption
<1>1. /\ setting \in BOOLEAN /\ bonded \in BOOLEAN /\ stack = setting /\ refused = FALSE /\ owns = FALSE
      /\ running = FALSE /\ server = FALSE
  BY DEF Init, DeviceInit
<1>2. RadioTypes
  BY <1>1 DEF RadioTypes
<1>3. SessionTypes
  <2>1. /\ hostConnected \in BOOLEAN /\ hostStatusReceived \in BOOLEAN
        /\ deviceCommandSubscribed \in BOOLEAN /\ statusChanged \in BOOLEAN
    BY DEF Init, DeviceInit
  <2> QED BY <2>1 DEF Init, DeviceInit, SessionTypes
<1>4. LinkTypes
  <2>1. due \in BOOLEAN /\ advertising \in BOOLEAN /\ peer \in BOOLEAN /\ dropping \in BOOLEAN
    BY DEF Init, DeviceInit
  <2> QED BY <2>1 DEF Init, DeviceInit, LinkTypes
<1>5. ScreenTypes
  <2>1. sawPeer \in BOOLEAN /\ sawChange \in BOOLEAN /\ early \in BOOLEAN
    BY DEF Init, DeviceInit
  <2>2. screen \in [connected : BOOLEAN, mic : Mics \union {Unknown}]
    BY DEF Init, DeviceInit, NoScreen
  <2> QED BY <2>1, <2>2 DEF Init, DeviceInit, ScreenTypes
<1>6. HostTypeOK
  <2>1. open \in BOOLEAN /\ characteristics \in BOOLEAN /\ watching \in BOOLEAN /\ gone \in BOOLEAN
    BY DEF Init, HostInit
  <2> QED BY <2>1 DEF Init, HostInit, HostTypeOK
<1>7. settled \in BOOLEAN
  BY DEF Init
<1>8. RadioOwned
  BY <1>1 DEF RadioOwned
<1> QED BY <1>2, <1>3, <1>4, <1>5, <1>6, <1>7, <1>8, DeviceParts DEF Inv, TypeOK

(* Every step keeps the invariant.                                             *)
LEMMA InvStep == Inv /\ [Next]_vars => Inv'
<1> SUFFICES ASSUME Inv, [Next]_vars PROVE Inv'
  OBVIOUS
<1>1. TypeOK /\ RadioOwned /\ DeviceStep /\ HostStep /\ settled' \in BOOLEAN
  BY StepKinds DEF Inv
<1>2. DeviceTypeOK'
  <2>1. UNCHANGED deviceVars => DeviceTypeOK'
    <3> SUFFICES ASSUME UNCHANGED deviceVars PROVE DeviceTypeOK'
      OBVIOUS
    <3>1. DeviceTypeOK
      BY <1>1 DEF TypeOK
    <3> QED BY <3>1 DEF deviceVars, radio, link, session, display, locals, DeviceTypeOK
  <2>2. Callback => DeviceTypeOK'
    BY <1>1, CallbackTypes DEF Callback, TypeOK
  <2> QED BY <1>1, <2>1, <2>2, MainTypes DEF DeviceStep, TypeOK
<1>3. HostTypeOK'
  BY <1>1, HostTypes DEF TypeOK
<1>4. RadioOwned'
  BY <1>1, RadioStep
<1> QED BY <1>1, <1>2, <1>3, <1>4 DEF Inv, TypeOK

(* The variables of both ends keep their types.                                *)
THEOREM TypeCorrect == Spec => []TypeOK
<1>1. Inv => TypeOK
  BY DEF Inv
<1> QED BY InitInv, InvStep, <1>1, PTL DEF Spec

(* Outside of the companion's screen the radio is as the user wants it, unless  *)
(* a reconnect job has refused the switch-off.                                 *)
THEOREM RadioIsGivenBack == Spec => []RadioGivenBack
<1>1. Inv => RadioGivenBack
  BY DEF Inv, RadioOwned, RadioGivenBack
<1> QED BY InitInv, InvStep, <1>1, PTL DEF Spec
=============================================================================
