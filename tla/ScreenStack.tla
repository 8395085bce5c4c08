---------------------------- MODULE ScreenStack ----------------------------
(* What the firmware promises of its screens: a stack on which one screen is   *)
(* opened or left at a time, and never while one is drawn; what is drawn is    *)
(* the last one; a result goes to the screen that asked for it.                *)
EXTENDS Naturals, Sequences

CONSTANTS Screen, NULL

VARIABLES
  screens,   \* the open ones, the one that is shown last
  asked,     \* whose result each of them waits for
  drawn      \* the one that is being drawn

vars == <<screens, asked, drawn>>

Shown == screens[Len(screens)]
Covered == screens[Len(screens) - 1]
IsOpen(s) == \E i \in 1..Len(screens) : screens[i] = s
Nothing == [s \in Screen |-> NULL]

(* Above another one, which may wait for its result, or as the first.          *)
Open(s) ==
  /\ drawn = NULL /\ ~IsOpen(s) /\ UNCHANGED drawn
  /\ screens' = Append(screens, s)
  /\ asked' = asked \/ (screens # << >> /\ asked' = [asked EXCEPT ![Shown] = s])

(* All that are open go.                                                       *)
Replace(s) ==
  /\ drawn = NULL /\ screens # << >> /\ ~IsOpen(s) /\ UNCHANGED drawn
  /\ screens' = <<s>> /\ asked' = Nothing

(* The one below gets the result, if it waits for one of this screen.          *)
Leave ==
  /\ drawn = NULL /\ screens # << >> /\ UNCHANGED drawn
  /\ screens' = SubSeq(screens, 1, Len(screens) - 1)
  /\ IF Len(screens) = 1 THEN UNCHANGED asked
     ELSE asked[Covered] \in {NULL, Shown} /\ asked' = [asked EXCEPT ![Covered] = NULL]

Draw == drawn = NULL /\ screens # << >> /\ drawn' = Shown /\ UNCHANGED <<screens, asked>>
Drawn == drawn # NULL /\ drawn' = NULL /\ UNCHANGED <<screens, asked>>

Init == (\E s \in Screen : screens = <<s>>) /\ asked = Nothing /\ drawn = NULL
Next == Leave \/ Draw \/ Drawn \/ \E s \in Screen : Open(s) \/ Replace(s)

Spec == Init /\ [][Next]_vars
=============================================================================
