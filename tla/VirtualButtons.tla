--------------------------- MODULE VirtualButtons ---------------------------
(* The virtual half of HalGPIO: the buttons that Bluetooth remotes press.    *)
(* setVirtualButtonState() changes the desired state at once; update(), once  *)
(* per turn of the main loop, makes it the state that activities see.  The    *)
(* state before, which wasPressed() and wasReleased() compare it with, is the *)
(* value before that step.  Everything runs on the main task, so the object   *)
(* is one value and its methods are operators on that value.                  *)
(*                                                                           *)
(* millis() is not kept: of each timestamp the model keeps its age, which     *)
(* stops counting where no comparison can tell older ages apart.              *)
EXTENDS Integers

CONSTANTS
  RepressDebounce,  \* VIRTUAL_BUTTON_REPRESS_DEBOUNCE_MS
  LongPress         \* the hold time from which the reader skips a chapter

ASSUME TimesAssumption == RepressDebounce \in Nat /\ LongPress \in Nat

Buttons == {"BTN_BACK", "BTN_CONFIRM", "BTN_LEFT", "BTN_UP", "BTN_DOWN"}

Older(age, cap) == IF age < cap THEN age + 1 ELSE age

(* desired, current: desiredVirtualButtonState, virtualButtonState.  pressAge: *)
(* age of virtualPressStart.  heldFor: virtualLastActivityTime less           *)
(* virtualPressStart, what getHeldTime() returns of a button that is down.    *)
(* quietFor: age of virtualLastActivityTime.  finishAge: age of               *)
(* virtualPressFinish, RepressDebounce when it is older or was never set.     *)
VirtualButtonState ==
  [desired : SUBSET Buttons, current : SUBSET Buttons,
   pressAge : [Buttons -> 0 .. LongPress], heldFor : [Buttons -> 0 .. LongPress],
   quietFor : [Buttons -> 0 .. RepressDebounce],
   finishAge : [Buttons -> 0 .. RepressDebounce]]

NoVirtualButtons ==
  [desired |-> {}, current |-> {},
   pressAge |-> [b \in Buttons |-> 0], heldFor |-> [b \in Buttons |-> 0],
   quietFor |-> [b \in Buttons |-> 0],
   finishAge |-> [b \in Buttons |-> RepressDebounce]]

(* A press is refused while the last one is younger than the debounce time;   *)
(* it counts as its own first activity.  A release, here of a set of buttons,  *)
(* is dated back to the last activity, which is never before the press.       *)
pressVirtual(g, b) ==
  IF b \in g.desired \/ g.finishAge[b] < RepressDebounce THEN g
  ELSE [g EXCEPT !.desired = @ \union {b}, !.pressAge[b] = 0, !.heldFor[b] = 0,
                 !.quietFor[b] = 0]

releaseVirtual(g, B) ==
  LET down == B \intersect g.desired
  IN  [g EXCEPT !.desired = @ \ B,
                !.finishAge = [b \in Buttons |-> IF b \in down THEN g.quietFor[b] ELSE @[b]],
                !.pressAge = [b \in Buttons |-> IF b \in down THEN 0 ELSE @[b]],
                !.heldFor = [b \in Buttons |-> IF b \in down THEN 0 ELSE @[b]],
                !.quietFor = [b \in Buttons |-> IF b \in down THEN 0 ELSE @[b]]]

setVirtualButtonState(g, b, pressed) ==
  IF pressed THEN pressVirtual(g, b) ELSE releaseVirtual(g, {b})

(* The activity of a button that is not down has no effect: the next press    *)
(* overwrites it.                                                             *)
updateVirtualButtonActivity(g, b) ==
  IF b \in g.desired THEN [g EXCEPT !.heldFor[b] = g.pressAge[b], !.quietFor[b] = 0]
  ELSE g

updateVirtual(g) == [g EXCEPT !.current = g.desired]

(* One unit of time.                                                          *)
ageVirtual(g) ==
  [g EXCEPT
     !.pressAge = [b \in Buttons |-> IF b \in g.desired THEN Older(@[b], LongPress) ELSE @[b]],
     !.quietFor = [b \in Buttons |-> IF b \in g.desired THEN Older(@[b], RepressDebounce) ELSE @[b]],
     !.finishAge = [b \in Buttons |-> Older(@[b], RepressDebounce)]]
=============================================================================
