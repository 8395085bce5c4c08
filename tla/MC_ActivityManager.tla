------------------------- MODULE MC_ActivityManager -------------------------
(* ActivityManager over a small heap: a parent, a child and the sleep screen. *)
EXTENDS ActivityManager

CONSTANTS a1, a2, sleep

SmallHeap == {a1, a2, sleep}
=============================================================================
