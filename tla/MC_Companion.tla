---------------------------- MODULE MC_Companion ----------------------------
(* One laptop, that reports one status, its microphone on.  Time passes in      *)
(* steps of the two seconds between two updates.  Every limit is as short as it *)
(* can be and still be met in one run and missed in another: one step between   *)
(* two restarts of advertising (5 s in the firmware), a handshake that is late  *)
(* after one step (15 s).  The minutes awake without a host are one comparison   *)
(* more and are over at once.  Bluetooth may be on or off for the user, and a   *)
(* page turner is saved, so that a reconnect job may run or not.               *)
EXTENDS Companion
=============================================================================
