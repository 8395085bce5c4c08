----------------------------- MODULE CrashGuard -----------------------------
(* What the reader promises about work that it starts by itself and that may   *)
(* crash it: after an attempt that failed there is no other one, until the     *)
(* user has done the same in order, or called it off.  EpubReader implements   *)
(* it for the book of the boot, with a counter on the SD card; BleReconnect    *)
(* for the automatic reconnect, with a file on it.                             *)

VARIABLES
  attempting,   \* the reader is at it, and has started it by itself
  failed        \* an attempt ended in a crash, and none of the user's was in
                \* order since

vars == <<attempting, failed>>

Begin == ~attempting /\ ~failed /\ attempting' = TRUE /\ UNCHANGED failed

Fail == attempting /\ attempting' = FALSE /\ failed' = TRUE

(* The end of it in order, of an attempt or of the user's own.                 *)
Finish == (attempting \/ failed) /\ attempting' = FALSE /\ failed' = FALSE

Init == ~attempting /\ ~failed

Next == Begin \/ Fail \/ Finish

Spec == Init /\ [][Next]_vars
=============================================================================
