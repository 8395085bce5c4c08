--------------------------- MODULE HidInput_proofs ---------------------------
(* Proofs about the input path: its types, that a virtual button that is down  *)
(* belongs to a remote, and that the last report of a remote decides.          *)
EXTENDS HidInput, SequenceTheorems, TLAPS

(* An age that grows stays below its cap.                                      *)
LEMMA OlderType == \A cap \in Nat : \A age \in 0 .. cap : Older(age, cap) \in 0 .. cap
BY DEF Older
-----------------------------------------------------------------------------
(* The operators on the virtual buttons: types, and what becomes of the        *)
(* desired state.                                                              *)

(* No button is down at first.                                                 *)
LEMMA NoneType == NoVirtualButtons \in VirtualButtonState /\ NoVirtualButtons.desired = {}
BY TimesAssumption DEF NoVirtualButtons, VirtualButtonState

(* A press adds at most its button.                                            *)
LEMMA PressType ==
  ASSUME NEW g \in VirtualButtonState, NEW b \in Buttons
  PROVE  /\ pressVirtual(g, b) \in VirtualButtonState
         /\ pressVirtual(g, b).desired \subseteq g.desired \union {b}
<1> USE TimesAssumption
<1>1. g.desired \in SUBSET Buttons /\ g.current \in SUBSET Buttons
      /\ g.pressAge \in [Buttons -> 0 .. LongPress] /\ g.heldFor \in [Buttons -> 0 .. LongPress]
      /\ g.quietFor \in [Buttons -> 0 .. RepressDebounce] /\ g.finishAge \in [Buttons -> 0 .. RepressDebounce]
  BY DEF VirtualButtonState
<1> DEFINE h == [desired |-> g.desired \union {b}, current |-> g.current,
                 pressAge |-> [g.pressAge EXCEPT ![b] = 0], heldFor |-> [g.heldFor EXCEPT ![b] = 0],
                 quietFor |-> [g.quietFor EXCEPT ![b] = 0], finishAge |-> g.finishAge]
<1>2. h \in VirtualButtonState /\ h.desired = g.desired \union {b}
  <2>1. /\ [g.pressAge EXCEPT ![b] = 0] \in [Buttons -> 0 .. LongPress]
        /\ [g.heldFor EXCEPT ![b] = 0] \in [Buttons -> 0 .. LongPress]
        /\ [g.quietFor EXCEPT ![b] = 0] \in [Buttons -> 0 .. RepressDebounce]
    BY <1>1
  <2>2. g.desired \union {b} \in SUBSET Buttons
    BY <1>1
  <2> QED BY <1>1, <2>1, <2>2 DEF VirtualButtonState
<1>3. pressVirtual(g, b) = g \/ pressVirtual(g, b) = h
  BY DEF pressVirtual, VirtualButtonState
<1> QED BY <1>2, <1>3

(* A release takes its buttons away.                                           *)
LEMMA ReleaseType ==
  ASSUME NEW g \in VirtualButtonState, NEW B
  PROVE  /\ releaseVirtual(g, B) \in VirtualButtonState
         /\ releaseVirtual(g, B).desired = g.desired \ B
<1> USE TimesAssumption
<1>1. g.desired \in SUBSET Buttons /\ g.current \in SUBSET Buttons
      /\ g.pressAge \in [Buttons -> 0 .. LongPress] /\ g.heldFor \in [Buttons -> 0 .. LongPress]
      /\ g.quietFor \in [Buttons -> 0 .. RepressDebounce] /\ g.finishAge \in [Buttons -> 0 .. RepressDebounce]
  BY DEF VirtualButtonState
<1> DEFINE down == B \intersect g.desired
           press == [b \in Buttons |-> IF b \in down THEN 0 ELSE g.pressAge[b]]
           held == [b \in Buttons |-> IF b \in down THEN 0 ELSE g.heldFor[b]]
           quiet == [b \in Buttons |-> IF b \in down THEN 0 ELSE g.quietFor[b]]
           finish == [b \in Buttons |-> IF b \in down THEN g.quietFor[b] ELSE g.finishAge[b]]
<1>2. /\ press \in [Buttons -> 0 .. LongPress] /\ held \in [Buttons -> 0 .. LongPress]
      /\ quiet \in [Buttons -> 0 .. RepressDebounce] /\ finish \in [Buttons -> 0 .. RepressDebounce]
  BY <1>1
<1>3. releaseVirtual(g, B) = [g EXCEPT !.desired = g.desired \ B, !.finishAge = finish, !.pressAge = press,
                                       !.heldFor = held, !.quietFor = quiet]
  BY DEF releaseVirtual
<1> HIDE DEF press, held, quiet, finish
<1>4. releaseVirtual(g, B) = [desired |-> g.desired \ B, current |-> g.current, pressAge |-> press,
                              heldFor |-> held, quietFor |-> quiet, finishAge |-> finish]
  BY <1>3 DEF VirtualButtonState
<1> QED BY <1>1, <1>2, <1>4 DEF VirtualButtonState

(* Activity and time leave the desired state alone; update() takes it over.    *)
LEMMA UpdateTypes ==
  ASSUME NEW g \in VirtualButtonState
  PROVE  /\ \A b \in Buttons : /\ updateVirtualButtonActivity(g, b) \in VirtualButtonState
                               /\ updateVirtualButtonActivity(g, b).desired = g.desired
         /\ updateVirtual(g) \in VirtualButtonState /\ updateVirtual(g).desired = g.desired
         /\ ageVirtual(g) \in VirtualButtonState /\ ageVirtual(g).desired = g.desired
<1> USE TimesAssumption
<1>1. g.desired \in SUBSET Buttons /\ g.current \in SUBSET Buttons
      /\ g.pressAge \in [Buttons -> 0 .. LongPress] /\ g.heldFor \in [Buttons -> 0 .. LongPress]
      /\ g.quietFor \in [Buttons -> 0 .. RepressDebounce] /\ g.finishAge \in [Buttons -> 0 .. RepressDebounce]
  BY DEF VirtualButtonState
<1>2. ASSUME NEW b \in Buttons
      PROVE  /\ updateVirtualButtonActivity(g, b) \in VirtualButtonState
             /\ updateVirtualButtonActivity(g, b).desired = g.desired
  <2> DEFINE h == [desired |-> g.desired, current |-> g.current,
                   pressAge |-> g.pressAge, heldFor |-> [g.heldFor EXCEPT ![b] = g.pressAge[b]],
                   quietFor |-> [g.quietFor EXCEPT ![b] = 0], finishAge |-> g.finishAge]
  <2>1. h \in VirtualButtonState /\ h.desired = g.desired
    <3>1. /\ [g.heldFor EXCEPT ![b] = g.pressAge[b]] \in [Buttons -> 0 .. LongPress]
          /\ [g.quietFor EXCEPT ![b] = 0] \in [Buttons -> 0 .. RepressDebounce]
      BY <1>1
    <3> QED BY <1>1, <3>1 DEF VirtualButtonState
  <2>2. updateVirtualButtonActivity(g, b) \in {g, h}
    BY DEF updateVirtualButtonActivity, VirtualButtonState
  <2> QED BY <2>1, <2>2
<1>3. updateVirtual(g) \in VirtualButtonState /\ updateVirtual(g).desired = g.desired
  BY <1>1 DEF updateVirtual, VirtualButtonState
<1>4. ageVirtual(g) \in VirtualButtonState /\ ageVirtual(g).desired = g.desired
  <2> DEFINE press == [b \in Buttons |-> IF b \in g.desired THEN Older(g.pressAge[b], LongPress) ELSE g.pressAge[b]]
             quiet == [b \in Buttons |-> IF b \in g.desired THEN Older(g.quietFor[b], RepressDebounce) ELSE g.quietFor[b]]
             finish == [b \in Buttons |-> Older(g.finishAge[b], RepressDebounce)]
  <2>1. /\ \A c \in Buttons : Older(g.pressAge[c], LongPress) \in 0 .. LongPress
        /\ \A c \in Buttons : Older(g.quietFor[c], RepressDebounce) \in 0 .. RepressDebounce
        /\ \A c \in Buttons : Older(g.finishAge[c], RepressDebounce) \in 0 .. RepressDebounce
    BY <1>1, OlderType
  <2>2. /\ press \in [Buttons -> 0 .. LongPress] /\ quiet \in [Buttons -> 0 .. RepressDebounce]
        /\ finish \in [Buttons -> 0 .. RepressDebounce]
    BY <1>1, <2>1
  <2>3. ageVirtual(g) = [g EXCEPT !.pressAge = press, !.quietFor = quiet, !.finishAge = finish]
    BY DEF ageVirtual
  <2> HIDE DEF press, quiet, finish
  <2>4. ageVirtual(g) = [desired |-> g.desired, current |-> g.current, pressAge |-> press,
                         heldFor |-> g.heldFor, quietFor |-> quiet, finishAge |-> finish]
    BY <2>3 DEF VirtualButtonState
  <2> QED BY <1>1, <2>2, <2>4 DEF VirtualButtonState
<1> QED BY <1>2, <1>3, <1>4

(* A button is pressed and released, or there is none.                         *)
LEMMA InjectType ==
  ASSUME NEW g \in VirtualButtonState, NEW b \in Buttons \union {NoButton}
  PROVE  /\ inject(g, b, FALSE) \in VirtualButtonState /\ inject(g, b, FALSE).desired = g.desired \ {b}
         /\ inject(g, b, TRUE) \in VirtualButtonState
         /\ inject(g, b, TRUE).desired \subseteq g.desired \union {b}
<1>1. CASE b = NoButton
  <2>1. g.desired \ {b} = g.desired
    BY <1>1, InputAssumption DEF VirtualButtonState
  <2> QED BY <1>1, <2>1 DEF inject
<1>2. CASE b # NoButton
  <2>1. /\ releaseVirtual(g, {b}) \in VirtualButtonState /\ releaseVirtual(g, {b}).desired = g.desired \ {b}
        /\ pressVirtual(g, b) \in VirtualButtonState /\ pressVirtual(g, b).desired \subseteq g.desired \union {b}
    BY <1>2, ReleaseType, PressType
  <2> QED BY <1>2, <2>1 DEF inject, setVirtualButtonState
<1> QED BY <1>1, <1>2
-----------------------------------------------------------------------------
(* The handling of a report, on a device entry and the virtual buttons.        *)
States == [d : DeviceState, g : VirtualButtonState]

(* What a part of the handling may do: a button that is down afterwards, but    *)
(* for the one that the remote holds then, was down before and not the         *)
(* remote's.                                                                   *)
Keeps(s, t) == t.g.desired \ {t.d.active} \subseteq s.g.desired \ {s.d.active}

(* The remote holds no button, or one whose release is pending.                *)
Quiet(x) == x.active = NoButton \/ x.pendingKey # NoKey

(* Keeps is transitive.                                                        *)
LEMMA KeepsTransitive == \A s, t, u \in States : Keeps(s, t) /\ Keeps(t, u) => Keeps(s, u)
BY DEF Keeps

(* An entry that lets go.                                                      *)
LEMMA EntryTypes ==
  \A x \in DeviceState :
    /\ LetGo(x) \in DeviceState /\ LetGo(x).active = NoButton
    /\ NotPending(x) \in DeviceState /\ NotPending(x).active = x.active
    /\ [x EXCEPT !.idle = 0] \in DeviceState
    /\ [x EXCEPT !.idle = 0].active = x.active /\ [x EXCEPT !.idle = 0].pendingKey = x.pendingKey
    /\ [x EXCEPT !.eventAge = 0] \in DeviceState
    /\ [x EXCEPT !.eventAge = 0].active = x.active /\ [x EXCEPT !.eventAge = 0].pendingKey = x.pendingKey
<1> USE InputAssumption
<1> SUFFICES ASSUME NEW x \in DeviceState
             PROVE  /\ LetGo(x) \in DeviceState /\ LetGo(x).active = NoButton
                    /\ NotPending(x) \in DeviceState /\ NotPending(x).active = x.active
                    /\ [x EXCEPT !.idle = 0] \in DeviceState
                    /\ [x EXCEPT !.idle = 0].active = x.active /\ [x EXCEPT !.idle = 0].pendingKey = x.pendingKey
                    /\ [x EXCEPT !.eventAge = 0] \in DeviceState
                    /\ [x EXCEPT !.eventAge = 0].active = x.active /\ [x EXCEPT !.eventAge = 0].pendingKey = x.pendingKey
  OBVIOUS
<1>0. /\ 0 \in 0 .. LargestOf(StaleDefault, StaleReader) + 1 /\ 0 \in 0 .. HoldCap /\ 0 \in 0 .. BrickGrace
  BY DEF LargestOf, HoldCap
<1>1. LetGo(x) \in DeviceState /\ LetGo(x).active = NoButton
  BY <1>0 DEF LetGo, DeviceState
<1>2. NotPending(x) \in DeviceState /\ NotPending(x).active = x.active
  BY <1>0 DEF NotPending, DeviceState
<1>3. /\ [x EXCEPT !.idle = 0] \in DeviceState
      /\ [x EXCEPT !.idle = 0].active = x.active /\ [x EXCEPT !.idle = 0].pendingKey = x.pendingKey
  BY <1>0 DEF DeviceState
<1>4. /\ [x EXCEPT !.eventAge = 0] \in DeviceState
      /\ [x EXCEPT !.eventAge = 0].active = x.active /\ [x EXCEPT !.eventAge = 0].pendingKey = x.pendingKey
  BY <1>0 DEF DeviceState
<1> QED BY <1>1, <1>2, <1>3, <1>4

(* The key codes stand for buttons or for none.                                *)
LEMMA MapType == \A d \in Devices, key \in AllKeys \union {NoKey} : mapKeycodeToButton(d, key) \in Buttons \union {NoButton}
BY InputAssumption DEF mapKeycodeToButton, Buttons, AllKeys, NoKey

(* A release.                                                                  *)
LEMMA ReleaseKeeps ==
  ASSUME NEW s \in States
  PROVE  /\ releaseInjectedButton(s) \in States /\ Keeps(s, releaseInjectedButton(s))
         /\ releaseInjectedButton(s).d.active = NoButton
<1>1. s.d \in DeviceState /\ s.g \in VirtualButtonState /\ s.d.active \in Buttons \union {NoButton}
  BY DEF States, DeviceState
<1>2. NotPending(LetGo(s.d)) \in DeviceState /\ NotPending(LetGo(s.d)).active = NoButton
  <2>1. LetGo(s.d) \in DeviceState /\ LetGo(s.d).active = NoButton
    BY <1>1, EntryTypes, Zenon
  <2> QED BY <2>1, EntryTypes, Zenon
<1>3. inject(s.g, s.d.active, FALSE) \in VirtualButtonState /\ inject(s.g, s.d.active, FALSE).desired = s.g.desired \ {s.d.active}
  BY <1>1, InjectType
<1> QED BY <1>2, <1>3 DEF releaseInjectedButton, Keeps, States

(* A Game Brick hold that is given up, and the note of activity.               *)
LEMMA ActivityKeeps ==
  ASSUME NEW s \in States, NEW d \in Devices
  PROVE  /\ ClearStaleHold(d, s) \in States /\ Keeps(s, ClearStaleHold(d, s))
         /\ Quiet(s.d) => Quiet(ClearStaleHold(d, s).d)
         /\ NoteActivity(d, s) \in States /\ Keeps(s, NoteActivity(d, s))
         /\ Quiet(s.d) => Quiet(NoteActivity(d, s).d)
<1>1. s.d \in DeviceState /\ s.g \in VirtualButtonState /\ s.d.active \in Buttons \union {NoButton}
  BY DEF States, DeviceState
<1>2. /\ ClearStaleHold(d, s) \in States /\ Keeps(s, ClearStaleHold(d, s))
      /\ Quiet(s.d) => Quiet(ClearStaleHold(d, s).d)
  <2>1. LetGo(s.d) \in DeviceState /\ LetGo(s.d).active = NoButton
    BY <1>1, EntryTypes
  <2>2. inject(s.g, s.d.active, FALSE) \in VirtualButtonState /\ inject(s.g, s.d.active, FALSE).desired = s.g.desired \ {s.d.active}
    BY <1>1, InjectType
  <2>3. ClearStaleHold(d, s) \in {s, [d |-> LetGo(s.d), g |-> inject(s.g, s.d.active, FALSE)]}
    BY DEF ClearStaleHold
  <2> DEFINE x == LetGo(s.d)
             h == inject(s.g, s.d.active, FALSE)
             t == [d |-> x, g |-> h]
  <2> HIDE DEF x, h
  <2>4. t.d = x /\ t.g = h /\ x \in DeviceState /\ x.active = NoButton
        /\ h \in VirtualButtonState /\ h.desired = s.g.desired \ {s.d.active}
    BY <2>1, <2>2 DEF x, h
  <2>5. t \in States /\ Keeps(s, t) /\ Quiet(t.d)
    BY <2>4 DEF Keeps, States, Quiet
  <2>6. Keeps(s, s)
    BY DEF Keeps
  <2>7. ClearStaleHold(d, s) \in {s, t}
    BY <2>3 DEF x, h
  <2> QED BY <2>5, <2>6, <2>7
<1>3. /\ NoteActivity(d, s) \in States /\ Keeps(s, NoteActivity(d, s))
      /\ Quiet(s.d) => Quiet(NoteActivity(d, s).d)
  <2>1. /\ [s.d EXCEPT !.idle = 0] \in DeviceState
        /\ [s.d EXCEPT !.idle = 0].active = s.d.active /\ [s.d EXCEPT !.idle = 0].pendingKey = s.d.pendingKey
    BY <1>1, EntryTypes
  <2>2. NoteActivity(d, s).d = [s.d EXCEPT !.idle = 0]
    BY DEF NoteActivity
  <2>3. NoteActivity(d, s).g \in VirtualButtonState /\ NoteActivity(d, s).g.desired = s.g.desired
    <3>1. s.d.active # NoButton => s.d.active \in Buttons
      BY <1>1
    <3> QED BY <1>1, <3>1, UpdateTypes DEF NoteActivity
  <2>4. NoteActivity(d, s) = [d |-> NoteActivity(d, s).d, g |-> NoteActivity(d, s).g]
    BY DEF NoteActivity
  <2>5. NoteActivity(d, s) \in States
    BY <2>1, <2>2, <2>3, <2>4 DEF States
  <2> QED BY <2>1, <2>2, <2>3, <2>5 DEF Keeps, Quiet
<1> QED BY <1>2, <1>3

(* A pending release is dropped, carried out, or not there.                    *)
LEMMA ResolveKeeps ==
  ASSUME NEW s \in States, NEW d \in Devices, NEW r \in Reports, r # NoiseFrame
  PROVE  /\ ResolvePending(d, s, r).s \in States /\ Keeps(s, ResolvePending(d, s, r).s)
         /\ ResolvePending(d, s, r).button \in Buttons \union {NoButton}
         /\ ~r.down => ResolvePending(d, s, r).button = NoButton
<1>1. s.d \in DeviceState /\ s.g \in VirtualButtonState /\ s.d.active \in Buttons \union {NoButton}
  BY DEF States, DeviceState
<1>2. MappedButton(d, s, r) \in Buttons \union {NoButton} /\ (~r.down => MappedButton(d, s, r) = NoButton)
  <2>1. r.key \in AllKeys \union {NoKey}
    BY DEF Reports
  <2> QED BY <1>1, <2>1, MapType DEF MappedButton
<1> DEFINE mapped == MappedButton(d, s, r)
           dropped == [s EXCEPT !.d = NotPending(s.d)]
<1>3. dropped \in States /\ Keeps(s, dropped)
  <2>1. NotPending(s.d) \in DeviceState /\ NotPending(s.d).active = s.d.active
    BY <1>1, EntryTypes
  <2>2. dropped = [d |-> NotPending(s.d), g |-> s.g]
    BY DEF States
  <2> QED BY <1>1, <2>1, <2>2 DEF States, Keeps
<1>4. releaseInjectedButton(s) \in States /\ Keeps(s, releaseInjectedButton(s))
  BY ReleaseKeeps
<1>5. Keeps(s, s)
  BY DEF Keeps
<1>6. \/ ResolvePending(d, s, r) = [s |-> s, button |-> mapped]
      \/ r.down /\ ResolvePending(d, s, r) = [s |-> dropped, button |-> s.d.active]
      \/ r.down /\ ResolvePending(d, s, r) = [s |-> releaseInjectedButton(s), button |-> mapped]
  BY DEF ResolvePending
<1> HIDE DEF dropped, mapped
<1> QED BY <1>1, <1>2, <1>3, <1>4, <1>5, <1>6 DEF mapped

(* No button is asked for: the remote comes to rest.                           *)
LEMMA KeyUpKeeps ==
  ASSUME NEW s \in States, NEW d \in Devices, NEW r \in Reports, r # NoiseFrame
  PROVE  KeyUp(d, s, r) \in States /\ Keeps(s, KeyUp(d, s, r)) /\ Quiet(KeyUp(d, s, r).d)
<1> USE InputAssumption
<1>1. s.d \in DeviceState /\ s.g \in VirtualButtonState
  BY DEF States
<1>2. CASE ActionButton(d, r) # NoButton /\ s.d.active = ActionButton(d, r)
  <2>1. r.key \in AllKeys /\ r.key # NoKey
    BY <1>2 DEF ActionButton, ActionKeys, AllKeys, NoKey
  <2> DEFINE x == [s.d EXCEPT !.pendingKey = r.key, !.pendingButton = s.d.active, !.pendingAge = 0]
  <2>2. KeyUp(d, s, r) = [d |-> x, g |-> s.g]
    BY <1>2 DEF KeyUp, States
  <2>3. x \in DeviceState /\ x.active = s.d.active /\ x.pendingKey = r.key
    <3>1. 0 \in 0 .. BrickGrace /\ s.d.active \in Buttons \union {NoButton}
      BY <1>1 DEF DeviceState
    <3> QED BY <1>1, <2>1, <3>1 DEF DeviceState
  <2> HIDE DEF x
  <2>4. KeyUp(d, s, r).d = x /\ KeyUp(d, s, r).g = s.g /\ KeyUp(d, s, r) \in States
    BY <1>1, <2>2, <2>3 DEF States
  <2> QED BY <2>1, <2>3, <2>4 DEF Keeps, Quiet
<1>3. CASE ~(ActionButton(d, r) # NoButton /\ s.d.active = ActionButton(d, r))
  <2>1. KeyUp(d, s, r) = releaseInjectedButton(s)
    BY <1>3 DEF KeyUp
  <2> QED BY <2>1, ReleaseKeeps DEF Quiet
<1> QED BY <1>2, <1>3

(* A button is asked for: it becomes the remote's.                             *)
LEMMA KeyDownKeeps ==
  ASSUME NEW s \in States, NEW d \in Devices, NEW r \in Reports, r # NoiseFrame,
         NEW button \in Buttons
  PROVE  KeyDown(d, s, r, button) \in States /\ Keeps(s, KeyDown(d, s, r, button))
<1> USE InputAssumption
<1> DEFINE free == IF s.d.active # NoButton /\ s.d.active # button THEN releaseInjectedButton(s) ELSE s
           x == [free.d EXCEPT !.active = button,
                   !.injectedKey = IF style[d] = "brick" THEN r.key ELSE @,
                   !.injectedAge = IF style[d] = "brick" THEN 0 ELSE @]
           pressed == inject(free.g, button, TRUE)
           h == IF style[d] = "free2" THEN updateVirtualButtonActivity(pressed, button) ELSE pressed
<1>1. free \in States /\ Keeps(s, free)
  <2>1. Keeps(s, s)
    BY DEF Keeps
  <2> QED BY <2>1, ReleaseKeeps
<1>2. KeyDown(d, s, r, button) = free \/ (free.d.active = NoButton /\ KeyDown(d, s, r, button) = [d |-> x, g |-> h])
  BY DEF KeyDown
<1> HIDE DEF free
<1>3. free.d \in DeviceState /\ free.g \in VirtualButtonState
  BY <1>1 DEF States
<1>4. x \in DeviceState /\ x.active = button
  <2>1. r.key \in AllKeys \union {NoKey} /\ 0 \in 0 .. BrickDuplicate
    BY DEF Reports
  <2> QED BY <1>3, <2>1 DEF DeviceState
<1>5. h \in VirtualButtonState /\ h.desired \subseteq free.g.desired \union {button}
  <2>1. pressed \in VirtualButtonState /\ pressed.desired \subseteq free.g.desired \union {button}
    BY <1>3, InjectType
  <2> HIDE DEF pressed
  <2>2. /\ updateVirtualButtonActivity(pressed, button) \in VirtualButtonState
        /\ updateVirtualButtonActivity(pressed, button).desired = pressed.desired
    BY <2>1, UpdateTypes
  <2> QED BY <2>1, <2>2
<1> HIDE DEF x, h
<1>6. CASE free.d.active = NoButton /\ KeyDown(d, s, r, button) = [d |-> x, g |-> h]
  <2>1. KeyDown(d, s, r, button) \in States
    BY <1>4, <1>5, <1>6 DEF States
  <2>2. NoButton \notin free.g.desired
    BY <1>3 DEF VirtualButtonState
  <2>3. Keeps(free, KeyDown(d, s, r, button))
    BY <1>4, <1>5, <1>6, <2>2 DEF Keeps
  <2> QED BY <1>1, <2>1, <2>3, KeepsTransitive
<1> QED BY <1>1, <1>2, <1>6

(* A key or its end.                                                           *)
LEMMA DecideKeeps ==
  ASSUME NEW s \in States, NEW d \in Devices, NEW r \in Reports, r # NoiseFrame
  PROVE  /\ Decide(d, s, r) \in States /\ Keeps(s, Decide(d, s, r))
         /\ ~r.down => Quiet(Decide(d, s, r).d)
<1> DEFINE p == ResolvePending(d, s, r)
           done == IF p.button = NoButton THEN KeyUp(d, p.s, r) ELSE KeyDown(d, p.s, r, p.button)
<1>1. p.s \in States /\ Keeps(s, p.s) /\ p.button \in Buttons \union {NoButton} /\ (~r.down => p.button = NoButton)
  BY ResolveKeeps
<1>2. Decide(d, s, r) = [done EXCEPT !.d.eventAge = 0]
  BY DEF Decide
<1> HIDE DEF p
<1>3. done \in States /\ Keeps(p.s, done) /\ (~r.down => Quiet(done.d))
  <2>1. CASE p.button = NoButton
    BY <1>1, <2>1, KeyUpKeeps
  <2>2. CASE p.button # NoButton
    BY <1>1, <2>2, KeyDownKeeps
  <2> QED BY <2>1, <2>2
<1> HIDE DEF done
<1>4. Decide(d, s, r) = [d |-> [done.d EXCEPT !.eventAge = 0], g |-> done.g]
  BY <1>2, <1>3 DEF States
<1>5. /\ done.d \in DeviceState /\ done.g \in VirtualButtonState
      /\ [done.d EXCEPT !.eventAge = 0] \in DeviceState
      /\ [done.d EXCEPT !.eventAge = 0].active = done.d.active
      /\ [done.d EXCEPT !.eventAge = 0].pendingKey = done.d.pendingKey
  BY <1>3, EntryTypes DEF States
<1> DEFINE x == [done.d EXCEPT !.eventAge = 0]
<1>a. x \in DeviceState /\ x.active = done.d.active /\ x.pendingKey = done.d.pendingKey
      /\ done.g \in VirtualButtonState /\ Decide(d, s, r) = [d |-> x, g |-> done.g]
  BY <1>4, <1>5
<1> HIDE DEF x
<1>b. Decide(d, s, r).d = x /\ Decide(d, s, r).g = done.g /\ Decide(d, s, r) \in States
  BY <1>a DEF States
<1>6. Decide(d, s, r) \in States /\ Keeps(done, Decide(d, s, r))
  BY <1>a, <1>b DEF Keeps
<1>7. ~r.down => Quiet(Decide(d, s, r).d)
  BY <1>3, <1>a, <1>b DEF Quiet
<1> QED BY <1>1, <1>3, <1>6, <1>7, KeepsTransitive

(* The whole handling of a report.                                             *)
LEMMA ProcessedKeeps ==
  ASSUME NEW d \in Devices, NEW r \in Reports, dev[d] \in DeviceState, gpio \in VirtualButtonState
  PROVE  /\ Processed(d, r).d \in DeviceState /\ Processed(d, r).g \in VirtualButtonState
         /\ Processed(d, r).g.desired \ {Processed(d, r).d.active} \subseteq gpio.desired \ {dev[d].active}
         /\ r = NoiseFrame => (Quiet(dev[d]) => Quiet(Processed(d, r).d))
         /\ (r # NoiseFrame /\ ~r.down) => Quiet(Processed(d, r).d)
<1> DEFINE z == [d |-> dev[d], g |-> gpio]
           c == ClearStaleHold(d, z)
           s == NoteActivity(d, c)
           armed == [s EXCEPT !.d.seenRelease = @ \/ style[d] = "brick" \/ ~r.down]
           t == Processed(d, r)
<1>1. z \in States /\ z.d = dev[d] /\ z.g = gpio
  BY DEF States
<1> HIDE DEF z
<1>2. c \in States /\ Keeps(z, c) /\ (Quiet(z.d) => Quiet(c.d))
  BY <1>1, ActivityKeeps
<1> HIDE DEF c
<1>3. s \in States /\ Keeps(c, s) /\ (Quiet(c.d) => Quiet(s.d))
  BY <1>2, ActivityKeeps
<1>t. t = IF r = NoiseFrame THEN s
          ELSE IF r.key = NoKey \/ ~armed.d.seenRelease THEN releaseInjectedButton(armed)
          ELSE Decide(d, armed, r)
  BY DEF Processed, z, c
<1> HIDE DEF s
<1>4. Keeps(z, s) /\ (Quiet(z.d) => Quiet(s.d))
  BY <1>1, <1>2, <1>3, KeepsTransitive
<1>5. armed \in States /\ Keeps(s, armed)
  <2> DEFINE x == [s.d EXCEPT !.seenRelease = @ \/ style[d] = "brick" \/ ~r.down]
  <2>1. armed = [d |-> x, g |-> s.g]
    BY <1>3 DEF States
  <2>2. x \in DeviceState /\ x.active = s.d.active
    <3> DEFINE seen == s.d.seenRelease \/ style[d] = "brick" \/ ~r.down
    <3>1. s.d \in DeviceState /\ seen \in BOOLEAN
      BY <1>3 DEF States
    <3>2. x = [s.d EXCEPT !.seenRelease = seen]
      BY <3>1 DEF DeviceState
    <3> HIDE DEF seen, x
    <3> QED BY <3>1, <3>2 DEF DeviceState
  <2> HIDE DEF x
  <2>3. armed.d = x /\ armed.g = s.g /\ armed \in States
    BY <1>3, <2>1, <2>2 DEF States
  <2> QED BY <2>2, <2>3 DEF Keeps
<1> HIDE DEF armed
<1>6. Keeps(z, armed)
  BY <1>1, <1>3, <1>4, <1>5, KeepsTransitive
<1>7. CASE r = NoiseFrame
  BY <1>1, <1>3, <1>4, <1>7, <1>t DEF Keeps, States
<1>8. CASE r # NoiseFrame /\ t = releaseInjectedButton(armed)
  <2>1. t \in States /\ Keeps(armed, t) /\ t.d.active = NoButton
    BY <1>5, <1>8, ReleaseKeeps
  <2> HIDE DEF t
  <2>2. Keeps(z, t)
    BY <1>1, <1>5, <1>6, <2>1, KeepsTransitive
  <2>3. Quiet(t.d)
    BY <2>1 DEF Quiet
  <2> QED BY <1>1, <1>8, <2>1, <2>2, <2>3 DEF Keeps, States, t
<1>9. CASE r # NoiseFrame /\ t = Decide(d, armed, r)
  <2>1. t \in States /\ Keeps(armed, t) /\ (~r.down => Quiet(t.d))
    BY <1>5, <1>9, DecideKeeps
  <2> HIDE DEF t
  <2>2. Keeps(z, t)
    BY <1>1, <1>5, <1>6, <2>1, KeepsTransitive
  <2> QED BY <1>1, <1>9, <2>1, <2>2 DEF Keeps, States, t
<1> QED BY <1>t, <1>7, <1>8, <1>9
-----------------------------------------------------------------------------
(* The queue.  Of a remote it holds nothing but noise; its last report in it   *)
(* that is not noise says that no key is down.                                 *)
Silent(q, e) == \A i \in 1 .. Len(q) : q[i][1] = e => q[i][2] = NoiseFrame
EndsUp(q, e) ==
  \A i \in 1 .. Len(q) :
    /\ q[i][1] = e /\ q[i][2] # NoiseFrame
    /\ \A j \in i + 1 .. Len(q) : q[j][1] = e => q[j][2] = NoiseFrame
    => ~q[i][2].down

(* What the decoder makes of a frame is a report.                              *)
LEMMA ReportsType == style \in [Devices -> Styles] => \A d \in Devices : ReportsOf(d) \subseteq Reports
<1> SUFFICES ASSUME style \in [Devices -> Styles], NEW d \in Devices, NEW r \in ReportsOf(d)
             PROVE  r \in Reports
  OBVIOUS
<1>1. Keys[style[d]] \subseteq AllKeys
  BY InputAssumption
<1>a. NoiseFrame \in Reports
  BY DEF Reports
<1>2. \A k \in AllKeys \union {NoKey}, down \in BOOLEAN : Frame(k, down) \in Reports
  BY DEF Frame, Reports
<1>3. CASE style[d] = "brick"
  <2>1. \/ \E k \in Keys[style[d]], down \in BOOLEAN : r = Frame(k, down)
        \/ r = Frame(NoKey, FALSE) \/ r = NoiseFrame
    BY <1>3 DEF ReportsOf, Frame
  <2> QED BY <1>1, <1>a, <1>2, <2>1
<1>4. CASE style[d] # "brick"
  <2>1. (\E k \in Keys[style[d]] : r = Frame(k, TRUE)) \/ r = Frame(NoKey, FALSE)
    BY <1>4 DEF ReportsOf, Frame
  <2> QED BY <1>1, <1>2, <2>1
<1> QED BY <1>3, <1>4

(* The queue without its head.                                                 *)
LEMMA TailFacts ==
  ASSUME NEW q \in Seq(Devices \X Reports), q # <<>>, NEW e
  PROVE  /\ Tail(q) \in Seq(Devices \X Reports) /\ Len(Tail(q)) = Len(q) - 1
         /\ Head(q)[1] \in Devices /\ Head(q)[2] \in Reports
         /\ EndsUp(q, e) => EndsUp(Tail(q), e)
         /\ Silent(Tail(q), e) /\ (Head(q)[1] = e => Head(q)[2] = NoiseFrame) => Silent(q, e)
         /\ Silent(Tail(q), e) /\ EndsUp(q, e) /\ Head(q)[1] = e /\ Head(q)[2] # NoiseFrame
              => ~Head(q)[2].down
<1>1. Len(q) \in Nat \ {0} /\ Head(q) = q[1] /\ q[1] \in Devices \X Reports
  BY EmptySeq, LenProperties, ElementOfSeq
<1>2. /\ Tail(q) \in Seq(Devices \X Reports) /\ Len(Tail(q)) = Len(q) - 1
      /\ \A i \in 1 .. Len(q) - 1 : Tail(q)[i] = q[i + 1]
  BY <1>1
<1>3. \A i \in 2 .. Len(q) : i - 1 \in 1 .. Len(q) - 1 /\ Tail(q)[i - 1] = q[i]
  BY <1>1, <1>2
<1>4. Head(q)[1] \in Devices /\ Head(q)[2] \in Reports
  BY <1>1
<1> DEFINE t == Tail(q)
<1>5. Len(t) = Len(q) - 1 /\ (\A i \in 1 .. Len(q) - 1 : t[i] = q[i + 1]) /\ (\A i \in 2 .. Len(q) : t[i - 1] = q[i])
  BY <1>2, <1>3
<1> HIDE DEF t
<1>6. Silent(t, e) => \A j \in 2 .. Len(q) : q[j][1] = e => q[j][2] = NoiseFrame
  <2> SUFFICES ASSUME Silent(t, e), NEW j \in 2 .. Len(q), q[j][1] = e PROVE q[j][2] = NoiseFrame
    OBVIOUS
  <2>1. j - 1 \in 1 .. Len(t) /\ t[j - 1] = q[j]
    BY <1>3, <1>5
  <2> QED BY <2>1 DEF Silent
<1>7. EndsUp(q, e) => EndsUp(t, e)
  <2> SUFFICES ASSUME EndsUp(q, e), NEW i \in 1 .. Len(t), t[i][1] = e, t[i][2] # NoiseFrame,
                      \A j \in i + 1 .. Len(t) : t[j][1] = e => t[j][2] = NoiseFrame
               PROVE  ~t[i][2].down
    BY DEF EndsUp
  <2>1. i \in 1 .. Len(q) - 1 /\ i + 1 \in 1 .. Len(q) /\ q[i + 1] = t[i]
    BY <1>1, <1>5
  <2>2. ASSUME NEW j \in (i + 1) + 1 .. Len(q), q[j][1] = e PROVE q[j][2] = NoiseFrame
    <3>1. j - 1 \in i + 1 .. Len(t) /\ t[j - 1] = q[j]
      BY <1>1, <1>5, <2>1
    <3> QED BY <2>2, <3>1
  <2> QED BY <2>1, <2>2 DEF EndsUp
<1>8. Silent(t, e) /\ (Head(q)[1] = e => Head(q)[2] = NoiseFrame) => Silent(q, e)
  <2>1. \A i \in 1 .. Len(q) : i = 1 \/ i \in 2 .. Len(q)
    BY <1>1
  <2> QED BY <1>1, <1>6, <2>1 DEF Silent
<1>9. Silent(t, e) /\ EndsUp(q, e) /\ Head(q)[1] = e /\ Head(q)[2] # NoiseFrame => ~Head(q)[2].down
  <2>1. 1 \in 1 .. Len(q) /\ 1 + 1 .. Len(q) = 2 .. Len(q)
    BY <1>1
  <2> QED BY <1>1, <1>6, <2>1 DEF EndsUp
<1> QED BY <1>2, <1>4, <1>7, <1>8, <1>9 DEF t

(* The queue with one more report.                                             *)
LEMMA AppendFacts ==
  ASSUME NEW q \in Seq(Devices \X Reports), NEW d \in Devices, NEW r \in Reports, NEW e
  PROVE  /\ Append(q, <<d, r>>) \in Seq(Devices \X Reports) /\ Len(Append(q, <<d, r>>)) = Len(q) + 1
         /\ Silent(Append(q, <<d, r>>), e) => Silent(q, e) /\ (d = e => r = NoiseFrame)
         /\ EndsUp(q, e) /\ (d # e \/ r = NoiseFrame) => EndsUp(Append(q, <<d, r>>), e)
         /\ r # NoiseFrame => ~Silent(Append(q, <<d, r>>), d)
         /\ r # NoiseFrame /\ ~r.down => EndsUp(Append(q, <<d, r>>), d)
<1> DEFINE a == Append(q, <<d, r>>)
<1>1. /\ a \in Seq(Devices \X Reports) /\ Len(q) \in Nat /\ Len(a) = Len(q) + 1
      /\ \A i \in 1 .. Len(q) : a[i] = q[i]
      /\ a[Len(q) + 1] = <<d, r>>
  BY LenProperties, AppendProperties
<1> HIDE DEF a
<1>2. \A i \in 1 .. Len(a) : i \in 1 .. Len(q) \/ i = Len(q) + 1
  BY <1>1
<1>3. a[Len(q) + 1][1] = d /\ a[Len(q) + 1][2] = r /\ Len(q) + 1 \in 1 .. Len(a) /\ 1 .. Len(q) \subseteq 1 .. Len(a)
  BY <1>1
<1>4. Silent(a, e) => Silent(q, e) /\ (d = e => r = NoiseFrame)
  BY <1>1, <1>3 DEF Silent
<1>5. EndsUp(q, e) /\ (d # e \/ r = NoiseFrame) => EndsUp(a, e)
  <2> SUFFICES ASSUME EndsUp(q, e), d # e \/ r = NoiseFrame, NEW i \in 1 .. Len(a), a[i][1] = e, a[i][2] # NoiseFrame,
                      \A j \in i + 1 .. Len(a) : a[j][1] = e => a[j][2] = NoiseFrame
               PROVE  ~a[i][2].down
    BY DEF EndsUp
  <2>1. i \in 1 .. Len(q) /\ a[i] = q[i]
    BY <1>1, <1>2, <1>3
  <2>2. \A j \in i + 1 .. Len(q) : j \in i + 1 .. Len(a) /\ a[j] = q[j]
    BY <1>1, <2>1
  <2>3. \A j \in i + 1 .. Len(q) : q[j][1] = e => q[j][2] = NoiseFrame
    BY <2>2
  <2>4. q[i][1] = e /\ q[i][2] # NoiseFrame
    BY <2>1
  <2> QED BY <2>1, <2>3, <2>4, Zenon DEF EndsUp
<1>a. r # NoiseFrame => ~Silent(a, d)
  BY <1>3 DEF Silent
<1>6. r # NoiseFrame /\ ~r.down => EndsUp(a, d)
  <2> SUFFICES ASSUME r # NoiseFrame, ~r.down, NEW i \in 1 .. Len(a),
                      \A j \in i + 1 .. Len(a) : a[j][1] = d => a[j][2] = NoiseFrame
               PROVE  ~a[i][2].down
    BY DEF EndsUp
  <2>1. CASE i = Len(q) + 1
    BY <1>3, <2>1
  <2>2. CASE i \in 1 .. Len(q)
    <3>1. Len(q) + 1 \in i + 1 .. Len(a)
      BY <1>1, <2>2
    <3> QED BY <1>3, <3>1
  <2> QED BY <1>2, <2>1, <2>2
<1> QED BY <1>1, <1>4, <1>5, <1>6, <1>a DEF a
-----------------------------------------------------------------------------
(* The invariant.                                                              *)
SimpleType ==
  /\ style \in [Devices -> Styles] /\ linked \subseteq Devices /\ lossEvents \subseteq Devices
  /\ enabled \in BOOLEAN /\ job \in BOOLEAN /\ reader \in BOOLEAN
  /\ pc \in {"update", "upkeep", "input"}
  /\ batch \in 0 .. BatchLength /\ sinceMaint \in 0 .. Maintenance /\ handsOff \in BOOLEAN
EntriesType == tracked \subseteq Devices /\ dev \in [Devices -> DeviceState]
ButtonsType == gpio \in VirtualButtonState
QueueType == queue \in Seq(Devices \X Reports) /\ Len(queue) <= QueueLength
HistoryType == letGo \subseteq Devices /\ orphaned \subseteq Buttons

(* What the queue still says of a remote that has let go: its last report in   *)
(* it is a release, and with none in it, the release is already carried out.   *)
Last == \A e \in letGo : EndsUp(queue, e) /\ (Silent(queue, e) => Quiet(dev[e]))

(* While Bluetooth is off, the queue is empty.                                 *)
Dry == ~enabled => queue = <<>>

Inv == TypeOK /\ HeldHasOwner /\ Last /\ Dry

(* The types in parts.                                                         *)
LEMMA TypeParts == TypeOK <=> SimpleType /\ EntriesType /\ ButtonsType /\ QueueType /\ HistoryType
BY Zenon DEF TypeOK, SimpleType, EntriesType, ButtonsType, QueueType, HistoryType

(* The same after a step.                                                      *)
LEMMA TypePartsNext == TypeOK' <=> SimpleType' /\ EntriesType' /\ ButtonsType' /\ QueueType' /\ HistoryType'
BY TypeParts, PTL

(* A remote that is entered holds nothing.                                     *)
LEMMA NewDeviceFacts == NewDevice \in DeviceState /\ NewDevice.active = NoButton /\ Quiet(NewDevice)
<1>1. /\ 0 \in 0 .. LargestOf(StaleDefault, StaleReader) + 1 /\ 0 \in 0 .. HoldCap /\ 0 \in 0 .. BrickGrace
      /\ BrickDuplicate \in 0 .. BrickDuplicate
  BY InputAssumption DEF LargestOf, HoldCap
<1> QED BY <1>1 DEF NewDevice, DeviceState, Quiet

(* Every queue begins with nothing to say.                                     *)
LEMMA InitInv == Init => Inv
<1> SUFFICES ASSUME Init PROVE Inv
  OBVIOUS
<1> USE DEF Init
<1>1. SimpleType
  <2>1. 0 \in 0 .. BatchLength /\ 0 \in 0 .. Maintenance
    BY InputAssumption
  <2>2. enabled \in BOOLEAN
    BY Zenon
  <2> QED BY <2>1, <2>2 DEF SimpleType
<1>2. EntriesType
  BY NewDeviceFacts DEF EntriesType
<1>3. ButtonsType /\ gpio.desired = {}
  BY NoneType DEF ButtonsType
<1>4. queue = <<>> /\ Len(queue) = 0 /\ queue \in Seq(Devices \X Reports)
  BY EmptySeq
<1>5. QueueType
  BY <1>4, InputAssumption DEF QueueType
<1>6. HistoryType /\ letGo = {}
  BY DEF HistoryType
<1>7. TypeOK
  BY <1>1, <1>2, <1>3, <1>5, <1>6, TypeParts
<1>8. HeldHasOwner
  BY <1>3 DEF HeldHasOwner
<1>9. Last
  BY <1>6 DEF Last
<1> QED BY <1>7, <1>8, <1>9 DEF Inv, Dry

(* With Bluetooth off nothing is queued.                                       *)
LEMMA DryStep == Dry /\ [Next]_vars => Dry'
<1> SUFFICES ASSUME Dry, [Next]_vars PROVE Dry'
  OBVIOUS
<1> USE DEF Dry, deviceVars, loopVars, history
<1>1. CASE UNCHANGED vars
  BY <1>1 DEF vars
<1>2. ASSUME NEW d \in Devices, LinkLost(d) \/ Connect(d) \/ DisconnectFromDevice(d)
                                \/ \E r \in ReportsOf(d) : QueueInputReport(d, r)
      PROVE  Dry'
  BY <1>2 DEF LinkLost, Connect, DisconnectFromDevice, QueueInputReport
<1>3. CASE PutDown \/ EndJob \/ StartPairing \/ Disable \/ Enable \/ GpioUpdate \/ SkipUpkeep
  BY <1>3 DEF PutDown, EndJob, StartPairing, Disable, Enable, GpioUpdate, SkipUpkeep
<1>4. CASE UpdateActivity \/ ProcessReport \/ CheckAutoReconnect
  BY <1>4 DEF UpdateActivity, ProcessReport, CheckAutoReconnect
<1>5. CASE Tick
  <2>1. UNCHANGED <<queue, enabled>>
    BY <1>5, Zenon DEF Tick
  <2> QED BY <2>1
<1> QED BY <1>1, <1>2, <1>3, <1>4, <1>5 DEF Next, HostTask, Worker, MainLoop, UserCommand

(* The plain variables keep their types.                                       *)
LEMMA SimpleTypes == SimpleType /\ [Next]_vars => SimpleType'
<1> SUFFICES ASSUME SimpleType, [Next]_vars PROVE SimpleType'
  OBVIOUS
<1> USE InputAssumption DEF SimpleType, deviceVars, loopVars, history
<1>1. CASE UNCHANGED vars
  BY <1>1 DEF vars
<1>2. ASSUME NEW d \in Devices, LinkLost(d) \/ Connect(d) \/ DisconnectFromDevice(d)
                                \/ \E r \in ReportsOf(d) : QueueInputReport(d, r)
      PROVE  SimpleType'
  BY <1>2 DEF LinkLost, Connect, DisconnectFromDevice, QueueInputReport
<1>3. CASE PutDown \/ EndJob \/ StartPairing \/ Disable \/ Enable
  BY <1>3 DEF PutDown, EndJob, StartPairing, Disable, Enable
<1>4. CASE GpioUpdate \/ SkipUpkeep
  BY <1>4 DEF GpioUpdate, SkipUpkeep
<1>5. CASE UpdateActivity
  BY <1>5 DEF UpdateActivity
<1>6. CASE ProcessReport
  BY <1>6 DEF ProcessReport
<1>7. CASE CheckAutoReconnect
  <2>1. job' \in BOOLEAN
    BY <1>7 DEF CheckAutoReconnect
  <2> QED BY <1>7, <2>1 DEF CheckAutoReconnect
<1>8. CASE Tick
  <2>1. /\ sinceMaint' = Older(sinceMaint, Maintenance)
        /\ UNCHANGED <<style, tracked, linked, lossEvents, queue, enabled, job, reader, pc, batch, handsOff, history>>
    BY <1>8, Zenon DEF Tick
  <2>2. sinceMaint' \in 0 .. Maintenance
    BY <2>1, OlderType
  <2> QED BY <2>1, <2>2
<1> QED BY <1>1, <1>2, <1>3, <1>4, <1>5, <1>6, <1>7, <1>8 DEF Next, HostTask, Worker, MainLoop, UserCommand
-----------------------------------------------------------------------------
(* What an action may do to the invariant, by its effect.                      *)

(* The queue and the history stay, and no remote at rest takes a button.       *)
LEMMA LastKept ==
  ASSUME Last, queue' = queue, letGo' \subseteq letGo,
         \A e \in letGo' : Quiet(dev[e]) => Quiet(dev'[e])
  PROVE  Last'
BY DEF Last

(* Entries and virtual buttons stay.                                           *)
LEMMA OwnerKept ==
  ASSUME HeldHasOwner, UNCHANGED <<tracked, dev, orphaned>>, gpio'.desired = gpio.desired
  PROVE  HeldHasOwner'
BY DEF HeldHasOwner

(* The buttons of some entries are released; the others stay as they are.      *)
LEMMA ErasedKept ==
  ASSUME HeldHasOwner, ButtonsType, NEW D, gpio' = Erased(gpio, D), orphaned' = orphaned,
         \A e \in tracked \ D : e \in tracked' /\ dev'[e] = dev[e]
  PROVE  ButtonsType' /\ HeldHasOwner'
<1> DEFINE B == {dev[e].active : e \in D \intersect tracked}
<1>1. gpio' \in VirtualButtonState /\ gpio'.desired = gpio.desired \ B
  BY ReleaseType DEF Erased, ButtonsType
<1>2. ASSUME NEW b \in gpio'.desired PROVE b \in {dev'[e].active : e \in tracked'} \union orphaned'
  <2>1. b \in gpio.desired /\ b \notin B
    BY <1>1, <1>2
  <2>2. CASE b \in orphaned
    BY <2>2
  <2>3. CASE b \notin orphaned
    <3>1. PICK e \in tracked : b = dev[e].active
      BY <2>1, <2>3 DEF HeldHasOwner
    <3>2. e \notin D
      BY <2>1, <3>1
    <3> QED BY <3>1, <3>2
  <2> QED BY <2>2, <2>3
<1> QED BY <1>1, <1>2 DEF HeldHasOwner, ButtonsType
-----------------------------------------------------------------------------
(* A report is queued, and a full queue loses its oldest one.                  *)
LEMMA QueueStep ==
  ASSUME Inv, NEW d \in Devices, NEW r \in ReportsOf(d), QueueInputReport(d, r)
  PROVE  QueueType' /\ HistoryType' /\ Last'
<1> USE DEF Inv
<1>0. /\ queue \in Seq(Devices \X Reports) /\ Len(queue) \in Nat /\ Len(queue) <= QueueLength
      /\ QueueLength \in Nat \ {0} /\ r \in Reports
  BY TypeParts, LenProperties, InputAssumption, ReportsType DEF QueueType, SimpleType
<1> DEFINE full == Len(queue) = QueueLength
           kept == IF full THEN Tail(queue) ELSE queue
           forgotten(e) == full /\ Head(queue)[1] = e
                             /\ \A i \in 1 .. Len(kept) : kept[i][1] = e => kept[i][2] = NoiseFrame
<1>1. /\ queue' = Append(kept, <<d, r>>)
      /\ letGo' = {e \in Devices : IF e = d /\ r # NoiseFrame THEN ~r.down ELSE e \in letGo /\ ~forgotten(e)}
      /\ UNCHANGED <<dev, orphaned>>
  BY DEF QueueInputReport, deviceVars
<1>2. full => queue # <<>>
  BY <1>0, EmptySeq
<1>3. kept \in Seq(Devices \X Reports) /\ Len(kept) <= QueueLength - 1
  BY <1>0, <1>2, TailFacts, LenProperties
<1>4. \A e : EndsUp(queue, e) => EndsUp(kept, e)
  BY <1>0, <1>2, TailFacts
<1>5. \A e : Silent(kept, e) /\ ~forgotten(e) => Silent(queue, e)
  <2> SUFFICES ASSUME NEW e, Silent(kept, e), ~forgotten(e) PROVE Silent(queue, e)
    OBVIOUS
  <2>1. CASE ~full
    BY <2>1
  <2>2. CASE full
    <3>1. kept = Tail(queue)
      BY <2>2
    <3>2. Head(queue)[1] # e
      BY <2>2 DEF Silent
    <3> HIDE DEF kept, forgotten
    <3> QED BY <1>0, <1>2, <2>2, <3>1, <3>2, TailFacts
  <2> QED BY <2>1, <2>2
<1> HIDE DEF kept, full, forgotten
<1>6. QueueType'
  BY <1>0, <1>1, <1>3, AppendFacts DEF QueueType
<1>7. HistoryType'
  BY <1>1, TypeParts DEF HistoryType
<1>8. ASSUME NEW e \in letGo' PROVE EndsUp(queue', e) /\ (Silent(queue', e) => Quiet(dev'[e]))
  <2>1. e \in Devices /\ IF e = d /\ r # NoiseFrame THEN ~r.down ELSE e \in letGo /\ ~forgotten(e)
    BY <1>1, <1>8
  <2>2. CASE e = d /\ r # NoiseFrame
    <3>0. ~r.down
      BY <2>1, <2>2
    <3>1. EndsUp(Append(kept, <<d, r>>), d)
      BY <1>0, <1>3, <2>2, <3>0, AppendFacts
    <3>2. ~Silent(Append(kept, <<d, r>>), d)
      BY <1>0, <1>3, <2>2, AppendFacts
    <3> QED BY <1>1, <2>2, <3>1, <3>2
  <2>3. CASE ~(e = d /\ r # NoiseFrame)
    <3>1. e \in letGo /\ ~forgotten(e)
      BY <2>1, <2>3
    <3>2. EndsUp(queue, e) /\ (Silent(queue, e) => Quiet(dev[e]))
      BY <3>1 DEF Last
    <3>3. EndsUp(queue', e) /\ (Silent(queue', e) => Silent(kept, e))
      BY <1>0, <1>1, <1>3, <1>4, <2>3, <3>2, AppendFacts
    <3> QED BY <1>1, <1>5, <3>1, <3>2, <3>3
  <2> QED BY <2>2, <2>3
<1>9. Last'
  BY <1>8 DEF Last
<1> QED BY <1>6, <1>7, <1>9

(* A report is taken from the queue.                                           *)
LEMMA ProcessStep ==
  ASSUME Inv, ProcessReport
  PROVE  EntriesType' /\ ButtonsType' /\ QueueType' /\ HistoryType' /\ HeldHasOwner' /\ Last'
<1> USE DEF Inv
<1> DEFINE d == Head(queue)[1]
           r == Head(queue)[2]
           after == Processed(d, r)
<1>0. /\ queue \in Seq(Devices \X Reports) /\ Len(queue) <= QueueLength /\ queue # <<>>
      /\ tracked \subseteq Devices /\ dev \in [Devices -> DeviceState] /\ gpio \in VirtualButtonState
      /\ letGo \subseteq Devices /\ orphaned \subseteq Buttons
  BY TypeParts DEF ProcessReport, QueueType, EntriesType, ButtonsType, HistoryType
<1>1. /\ queue' = Tail(queue) /\ tracked' = tracked
      /\ \/ /\ d \in tracked
            /\ dev' = [dev EXCEPT ![d] = after.d] /\ gpio' = after.g
            /\ letGo' = letGo /\ orphaned' = orphaned
         \/ /\ letGo' = letGo \ {d}
            /\ dev' = dev /\ gpio' = gpio /\ orphaned' = orphaned
  BY DEF ProcessReport, history
<1>2. /\ d \in Devices /\ r \in Reports
      /\ queue' \in Seq(Devices \X Reports) /\ Len(queue') = Len(queue) - 1
      /\ \A e : /\ EndsUp(queue, e) => EndsUp(queue', e)
                /\ Silent(queue', e) /\ (d = e => r = NoiseFrame) => Silent(queue, e)
                /\ Silent(queue', e) /\ EndsUp(queue, e) /\ d = e /\ r # NoiseFrame => ~r.down
  BY <1>0, <1>1, TailFacts
<1> HIDE DEF d, r
<1>3. QueueType'
  <2>1. Len(queue) \in Nat /\ QueueLength \in Nat
    BY <1>0, LenProperties, InputAssumption
  <2> QED BY <1>0, <1>2, <2>1 DEF QueueType
<1>4. CASE /\ letGo' = letGo \ {d}
           /\ dev' = dev /\ gpio' = gpio /\ orphaned' = orphaned
  <2>1. EntriesType' /\ ButtonsType' /\ HistoryType'
    BY <1>0, <1>1, <1>4 DEF EntriesType, ButtonsType, HistoryType
  <2>2. HeldHasOwner'
    BY <1>1, <1>4, OwnerKept
  <2>3. Last'
    BY <1>2, <1>4 DEF Last
  <2> QED BY <1>3, <2>1, <2>2, <2>3
<1>5. CASE /\ d \in tracked
           /\ dev' = [dev EXCEPT ![d] = after.d] /\ gpio' = after.g
           /\ letGo' = letGo /\ orphaned' = orphaned
  <2>1. /\ after.d \in DeviceState /\ after.g \in VirtualButtonState
        /\ after.g.desired \ {after.d.active} \subseteq gpio.desired \ {dev[d].active}
        /\ r = NoiseFrame => (Quiet(dev[d]) => Quiet(after.d))
        /\ (r # NoiseFrame /\ ~r.down) => Quiet(after.d)
    BY <1>0, <1>2, ProcessedKeeps
  <2> HIDE DEF after
  <2>2. EntriesType' /\ ButtonsType' /\ HistoryType'
    BY <1>0, <1>1, <1>5, <2>1 DEF EntriesType, ButtonsType, HistoryType
  <2>3. dev'[d] = after.d /\ \A e \in Devices \ {d} : dev'[e] = dev[e]
    BY <1>0, <1>2, <1>5
  <2>4. HeldHasOwner'
    <3> SUFFICES ASSUME NEW b \in gpio'.desired, b \notin orphaned'
                 PROVE  \E e \in tracked' : b = dev'[e].active
      BY DEF HeldHasOwner
    <3>1. CASE b = after.d.active
      BY <1>1, <1>5, <2>3, <3>1
    <3>2. CASE b # after.d.active
      <4>1. b \in gpio.desired /\ b # dev[d].active
        BY <1>5, <2>1, <3>2
      <4>2. PICK e \in tracked : b = dev[e].active
        BY <1>5, <4>1 DEF HeldHasOwner
      <4> QED BY <1>0, <1>1, <2>3, <4>1, <4>2
    <3> QED BY <3>1, <3>2
  <2>5. Last'
    <3> SUFFICES ASSUME NEW e \in letGo'
                 PROVE  EndsUp(queue', e) /\ (Silent(queue', e) => Quiet(dev'[e]))
      BY DEF Last
    <3>1. EndsUp(queue, e) /\ (Silent(queue, e) => Quiet(dev[e])) /\ e \in Devices
      BY <1>0, <1>5 DEF Last
    <3>2. EndsUp(queue', e)
      BY <1>2, <3>1
    <3>3. CASE e # d
      BY <1>2, <2>3, <3>1, <3>2, <3>3
    <3>4. CASE e = d
      BY <1>2, <2>1, <2>3, <3>1, <3>2, <3>4
    <3> QED BY <3>3, <3>4
  <2> QED BY <1>3, <2>2, <2>4, <2>5
<1> QED BY <1>1, <1>4, <1>5

(* A connection enters a remote; what its old entry held is an orphan.         *)
LEMMA ConnectStep ==
  ASSUME Inv, NEW d \in Devices, Connect(d)
  PROVE  EntriesType' /\ ButtonsType' /\ QueueType' /\ HistoryType' /\ HeldHasOwner' /\ Last'
<1> USE DEF Inv
<1>0. /\ tracked \subseteq Devices /\ dev \in [Devices -> DeviceState] /\ gpio \in VirtualButtonState
      /\ letGo \subseteq Devices /\ orphaned \subseteq Buttons
  BY TypeParts DEF EntriesType, ButtonsType, HistoryType
<1>1. /\ tracked' = tracked \union {d} /\ dev' = [dev EXCEPT ![d] = NewDevice]
      /\ orphaned' = orphaned \union (IF d \in tracked THEN {dev[d].active} \ {NoButton} ELSE {})
      /\ queue' = queue /\ gpio' = gpio /\ letGo' = letGo
  BY DEF Connect
<1>2. dev'[d] = NewDevice /\ \A e \in Devices \ {d} : dev'[e] = dev[e]
  BY <1>0, <1>1
<1>3. QueueType' /\ ButtonsType' /\ EntriesType'
  BY <1>0, <1>1, NewDeviceFacts, TypeParts DEF QueueType, ButtonsType, EntriesType
<1>4. HistoryType'
  <2>1. dev[d].active \in Buttons \union {NoButton}
    BY <1>0 DEF DeviceState
  <2> QED BY <1>0, <1>1, <2>1 DEF HistoryType
<1>5. Last'
  <2>1. \A e \in letGo' : Quiet(dev[e]) => Quiet(dev'[e])
    BY <1>0, <1>1, <1>2, NewDeviceFacts
  <2> QED BY <1>1, <2>1, LastKept
<1>6. HeldHasOwner'
  <2> SUFFICES ASSUME NEW b \in gpio.desired, b \notin orphaned' PROVE \E e \in tracked' : b = dev'[e].active
    BY <1>1 DEF HeldHasOwner
  <2>1. b # NoButton /\ b \notin orphaned
    BY <1>0, <1>1, InputAssumption DEF VirtualButtonState
  <2>2. PICK e \in tracked : b = dev[e].active
    BY <2>1 DEF HeldHasOwner
  <2>3. e # d
    BY <1>1, <2>1, <2>2
  <2> QED BY <1>0, <1>1, <1>2, <2>2, <2>3
<1> QED BY <1>3, <1>4, <1>5, <1>6

(* The upkeep.                                                                 *)
LEMMA UpkeepStep ==
  ASSUME Inv, UpdateActivity
  PROVE  EntriesType' /\ ButtonsType' /\ HeldHasOwner' /\ Last'
<1> USE DEF Inv
<1>0. /\ tracked \subseteq Devices /\ dev \in [Devices -> DeviceState] /\ ButtonsType /\ letGo \subseteq Devices
  BY TypeParts DEF EntriesType, HistoryType
<1> DEFINE left == tracked \ lossEvents
           released == {d \in left : PendingDue(d) \/ FreeStale(d) \/ SlowStale(d)}
<1>1. PICK gone \in IdleChoices :
        /\ gpio' = Erased(gpio, lossEvents \union released \union gone)
        /\ tracked' = left \ gone
        /\ dev' = [d \in Devices |->
              IF d \notin tracked' THEN NewDevice
              ELSE IF d \notin released THEN dev[d]
              ELSE IF PendingDue(d)
              THEN NotPending(LetGo(dev[d]))
              ELSE LetGo(dev[d])]
        /\ UNCHANGED <<queue, letGo, orphaned>>
  BY DEF UpdateActivity, history
<1> HIDE DEF released
<1>2. ASSUME NEW d \in Devices
      PROVE  dev'[d] \in DeviceState /\ (Quiet(dev[d]) => Quiet(dev'[d]))
  <2>1. dev'[d] \in {NewDevice, dev[d], NotPending(LetGo(dev[d])), LetGo(dev[d])}
    BY <1>1
  <2>2. /\ LetGo(dev[d]) \in DeviceState /\ LetGo(dev[d]).active = NoButton
        /\ NotPending(LetGo(dev[d])) \in DeviceState /\ NotPending(LetGo(dev[d])).active = NoButton
    BY <1>0, EntryTypes
  <2> QED BY <1>0, <2>1, <2>2, NewDeviceFacts DEF Quiet
<1>3. EntriesType'
  BY <1>0, <1>1, <1>2 DEF EntriesType
<1>4. ButtonsType' /\ HeldHasOwner'
  <2>1. \A e \in tracked \ (lossEvents \union released \union gone) : e \in tracked' /\ dev'[e] = dev[e]
    BY <1>0, <1>1
  <2> QED BY <1>0, <1>1, <2>1, ErasedKept
<1>5. Last'
  BY <1>0, <1>1, <1>2, LastKept
<1> QED BY <1>3, <1>4, <1>5

(* Entries are erased: by the pruning, a disconnect or a switched-off radio.   *)
LEMMA EraseStep ==
  ASSUME Inv, NEW D, gpio' = Erased(gpio, D), tracked' \subseteq tracked, tracked \ D \subseteq tracked',
         orphaned' = orphaned, letGo' \subseteq letGo, queue' = queue \/ letGo' = {},
         dev' \in [Devices -> DeviceState],
         \A d \in Devices : dev'[d] = NewDevice \/ dev'[d] = dev[d],
         \A d \in tracked \ D : dev'[d] = dev[d]
  PROVE  EntriesType' /\ ButtonsType' /\ HistoryType' /\ HeldHasOwner' /\ Last'
<1> USE DEF Inv
<1>0. tracked \subseteq Devices /\ ButtonsType /\ letGo \subseteq Devices /\ orphaned \subseteq Buttons
  BY TypeParts DEF EntriesType, HistoryType
<1>1. EntriesType' /\ HistoryType'
  BY <1>0 DEF EntriesType, HistoryType
<1>2. ButtonsType' /\ HeldHasOwner'
  BY <1>0, ErasedKept
<1>3. \A e \in letGo' : Quiet(dev[e]) => Quiet(dev'[e])
  BY <1>0, NewDeviceFacts
<1>4. Last'
  <2>1. CASE queue' = queue
    BY <1>3, <2>1, LastKept
  <2>2. CASE letGo' = {}
    BY <2>2 DEF Last
  <2> QED BY <2>1, <2>2
<1> QED BY <1>1, <1>2, <1>4

(* Time passes: only ages change.                                              *)
LEMMA TickStep ==
  ASSUME Inv, Tick
  PROVE  EntriesType' /\ ButtonsType' /\ HeldHasOwner' /\ Last'
<1> USE DEF Inv
<1>0. /\ tracked \subseteq Devices /\ dev \in [Devices -> DeviceState] /\ gpio \in VirtualButtonState
      /\ letGo \subseteq Devices
  BY TypeParts DEF EntriesType, ButtonsType, HistoryType
<1>1. /\ UNCHANGED <<tracked, queue, letGo, orphaned>> /\ gpio' = ageVirtual(gpio)
      /\ dev' = [d \in Devices |->
        [dev[d] EXCEPT
           !.idle = IF dev[d].active = NoButton THEN @ ELSE Older(@, IdleCap(style[d])),
           !.eventAge = IF dev[d].active = NoButton \/ style[d] # "brick" THEN @ ELSE Older(@, HoldCap),
           !.injectedAge = Older(@, BrickDuplicate),
           !.pendingAge = IF dev[d].pendingKey = NoKey THEN @ ELSE Older(@, BrickGrace)]]
  BY Zenon DEF Tick, history
<1>2. ASSUME NEW d \in Devices
      PROVE  dev'[d] \in DeviceState /\ dev'[d].active = dev[d].active /\ dev'[d].pendingKey = dev[d].pendingKey
  <2> DEFINE x == dev[d]
             idle == IF x.active = NoButton THEN x.idle ELSE Older(x.idle, IdleCap(style[d]))
             event == IF x.active = NoButton \/ style[d] # "brick" THEN x.eventAge ELSE Older(x.eventAge, HoldCap)
             injected == Older(x.injectedAge, BrickDuplicate)
             pending == IF x.pendingKey = NoKey THEN x.pendingAge ELSE Older(x.pendingAge, BrickGrace)
  <2>1. dev'[d] = [x EXCEPT !.idle = idle, !.eventAge = event, !.injectedAge = injected, !.pendingAge = pending]
    BY <1>1
  <2>2. x \in DeviceState
    BY <1>0
  <2>3. /\ idle \in 0 .. LargestOf(StaleDefault, StaleReader) + 1
        /\ event \in 0 .. HoldCap /\ injected \in 0 .. BrickDuplicate /\ pending \in 0 .. BrickGrace
    BY <2>2, InputAssumption DEF Older, IdleCap, LargestOf, HoldCap, DeviceState
  <2> HIDE DEF x, idle, event, injected, pending
  <2>4. dev'[d] \in DeviceState /\ dev'[d].active = x.active /\ dev'[d].pendingKey = x.pendingKey
    BY <2>1, <2>2, <2>3 DEF DeviceState
  <2> QED BY <2>4 DEF x
<1>3. EntriesType'
  <2>1. dev' = [d \in Devices |-> dev'[d]]
    BY <1>1
  <2>2. tracked' = tracked
    BY <1>1, Zenon
  <2> QED BY <1>0, <1>2, <2>1, <2>2 DEF EntriesType
<1>4. ButtonsType' /\ gpio'.desired = gpio.desired
  <2>1. gpio' = ageVirtual(gpio)
    BY <1>1, Zenon
  <2> QED BY <1>0, <2>1, UpdateTypes DEF ButtonsType
<1>a. UNCHANGED <<tracked, queue, letGo, orphaned>>
  BY <1>1, Zenon
<1>5. HeldHasOwner'
  BY <1>0, <1>a, <1>2, <1>4 DEF HeldHasOwner
<1>6. Last'
  BY <1>0, <1>a, <1>2, LastKept DEF Quiet
<1> QED BY <1>3, <1>4, <1>5, <1>6
-----------------------------------------------------------------------------
(* Every step keeps the invariant.                                             *)
LEMMA NextInv == Inv /\ [Next]_vars => Inv'
<1> SUFFICES ASSUME Inv, [Next]_vars PROVE Inv'
  OBVIOUS
<1>0. SimpleType /\ EntriesType /\ ButtonsType /\ QueueType /\ HistoryType /\ HeldHasOwner /\ Last /\ Dry
  BY TypeParts DEF Inv
<1>1. SimpleType' /\ Dry'
  BY <1>0, SimpleTypes, DryStep
<1> SUFFICES EntriesType' /\ ButtonsType' /\ QueueType' /\ HistoryType' /\ HeldHasOwner' /\ Last'
  BY <1>1, TypePartsNext DEF Inv
<1>2. CASE UNCHANGED <<tracked, dev, queue, gpio, letGo, orphaned>>
  BY <1>0, <1>2 DEF EntriesType, ButtonsType, QueueType, HistoryType, HeldHasOwner, Last
<1>3. ASSUME NEW d \in Devices, NEW r \in ReportsOf(d), QueueInputReport(d, r)
      PROVE  EntriesType' /\ ButtonsType' /\ QueueType' /\ HistoryType' /\ HeldHasOwner' /\ Last'
  <2>1. UNCHANGED <<tracked, dev, gpio, orphaned>>
    BY <1>3 DEF QueueInputReport, deviceVars
  <2>2. EntriesType' /\ ButtonsType' /\ HeldHasOwner'
    BY <1>0, <2>1 DEF EntriesType, ButtonsType, HeldHasOwner
  <2> QED BY <1>3, <2>2, QueueStep
<1>4. ASSUME NEW d \in Devices, LinkLost(d)
      PROVE  UNCHANGED <<tracked, dev, queue, gpio, letGo, orphaned>>
  BY <1>4 DEF LinkLost, history
<1>5. CASE PutDown \/ EndJob \/ SkipUpkeep \/ StartPairing
  BY <1>2, <1>5 DEF PutDown, EndJob, SkipUpkeep, StartPairing, deviceVars, history
<1>6. CASE GpioUpdate
  <2>1. /\ UNCHANGED <<tracked, dev, queue, letGo>>
        /\ gpio' = updateVirtual(gpio) /\ orphaned' = orphaned \intersect gpio.desired
    BY <1>6 DEF GpioUpdate, deviceVars
  <2>2. ButtonsType' /\ gpio'.desired = gpio.desired
    BY <1>0, <2>1, UpdateTypes DEF ButtonsType
  <2>3. EntriesType' /\ QueueType' /\ HistoryType' /\ Last'
    BY <1>0, <2>1 DEF EntriesType, QueueType, HistoryType, Last
  <2>4. HeldHasOwner'
    BY <1>0, <2>1, <2>2 DEF HeldHasOwner
  <2> QED BY <2>2, <2>3, <2>4
<1>7. CASE UpdateActivity
  <2>1. QueueType' /\ HistoryType'
    BY <1>0, <1>7 DEF UpdateActivity, QueueType, HistoryType, history
  <2> QED BY <1>7, <2>1, UpkeepStep
<1>8. CASE CheckAutoReconnect
  <2>1. UNCHANGED <<queue, letGo, orphaned>>
    BY <1>8 DEF CheckAutoReconnect, history
  <2>2. QueueType' 
    BY <1>0, <2>1 DEF QueueType
  <2>3. CASE UNCHANGED <<gpio, tracked, dev, job>>
    BY <1>2, <2>1, <2>3
  <2>4. CASE /\ gpio' = Erased(gpio, tracked \ linked)
             /\ tracked' = tracked \intersect linked
             /\ dev' = [d \in Devices |-> IF d \in tracked' THEN dev[d] ELSE NewDevice]
    <3>1. dev' \in [Devices -> DeviceState] /\ tracked \subseteq Devices
      BY <1>0, <2>4, NewDeviceFacts DEF EntriesType
    <3>2. \A d \in Devices : dev'[d] = NewDevice \/ dev'[d] = dev[d]
      BY <2>4
    <3>3. \A d \in tracked \ (tracked \ linked) : d \in tracked' /\ dev'[d] = dev[d]
      BY <2>4, <3>1
    <3> QED BY <2>1, <2>2, <2>4, <3>1, <3>2, <3>3, EraseStep
  <2> QED BY <1>8, <2>3, <2>4 DEF CheckAutoReconnect
<1>9. ASSUME NEW d \in Devices, DisconnectFromDevice(d)
      PROVE  EntriesType' /\ ButtonsType' /\ QueueType' /\ HistoryType' /\ HeldHasOwner' /\ Last'
  <2>1. /\ gpio' = Erased(gpio, {d}) /\ tracked' = tracked \ {d} /\ dev' = [dev EXCEPT ![d] = NewDevice]
        /\ UNCHANGED <<queue, letGo, orphaned>>
    BY <1>9 DEF DisconnectFromDevice, history
  <2>2. QueueType'
    BY <1>0, <2>1 DEF QueueType
  <2>3. dev' \in [Devices -> DeviceState] /\ tracked \subseteq Devices
    BY <1>0, <2>1, NewDeviceFacts DEF EntriesType
  <2>4. /\ \A e \in Devices : dev'[e] = NewDevice \/ dev'[e] = dev[e]
        /\ \A e \in tracked \ {d} : dev'[e] = dev[e]
    BY <1>0, <2>1, <2>3 DEF EntriesType
  <2> QED BY <2>1, <2>2, <2>3, <2>4, EraseStep
<1>10. CASE Disable
  <2>1. /\ gpio' = Erased(gpio, tracked) /\ tracked' = {} /\ dev' = [d \in Devices |-> NewDevice]
        /\ queue' = <<>> /\ letGo' = {} /\ orphaned' = orphaned
    BY <1>10 DEF Disable
  <2>2. QueueType'
    BY <2>1, EmptySeq, InputAssumption DEF QueueType
  <2>3. dev' \in [Devices -> DeviceState] /\ \A e \in Devices : dev'[e] = NewDevice
    BY <2>1, NewDeviceFacts
  <2> QED BY <2>1, <2>2, <2>3, EraseStep
<1>11. CASE Enable
  <2>1. UNCHANGED <<tracked, dev, gpio, letGo, orphaned>> /\ queue' = queue
    BY <1>0, <1>11 DEF Enable, history, Dry
  <2> QED BY <1>2, <2>1
<1>12. CASE Tick
  <2>1. QueueType' /\ HistoryType'
    <3>1. UNCHANGED <<queue, letGo, orphaned>>
      BY <1>12, Zenon DEF Tick, history
    <3> QED BY <1>0, <3>1 DEF QueueType, HistoryType
  <2> QED BY <1>12, <2>1, TickStep
<1>13. CASE UNCHANGED vars
  BY <1>2, <1>13 DEF vars, deviceVars, history
<1> QED
  BY <1>2, <1>3, <1>4, <1>5, <1>6, <1>7, <1>8, <1>9, <1>10, <1>11, <1>12, <1>13, ProcessStep, ConnectStep
  DEF Next, HostTask, Worker, MainLoop, UserCommand
-----------------------------------------------------------------------------
(* The invariant holds.                                                        *)
LEMMA Invariance == Spec => []Inv
BY InitInv, NextInv, PTL DEF Spec

(* The types of the input path hold for every set of remotes and keys, every   *)
(* queue length and every time limit.                                          *)
THEOREM TypeCorrect == Spec => []TypeOK
<1>1. Inv => TypeOK
  BY DEF Inv
<1> QED BY <1>1, Invariance, PTL

(* A virtual button that is down belongs to a remote in the list, or to one    *)
(* whose entry a new connection has overwritten (activeInjectedButton).        *)
THEOREM HeldIsOwned == Spec => []HeldHasOwner
<1>1. Inv => HeldHasOwner
  BY DEF Inv
<1> QED BY <1>1, Invariance, PTL

(* Whatever a full queue drops, a remote whose last report was a release and   *)
(* of which nothing is left in the queue holds no button (queueInputReport).   *)
THEOREM LastReportWins == Spec => []LastReportDecides
<1>1. Inv => LastReportDecides
  BY DEF Inv, Last, LastReportDecides, Silent, Quiet
<1> QED BY <1>1, Invariance, PTL
=============================================================================
