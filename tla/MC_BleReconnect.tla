--------------------------- MODULE MC_BleReconnect ---------------------------
(* One remote, the bonded one or the one that is paired, and two workers: the   *)
(* one that works and the one that has published its result and is ending.     *)
EXTENDS BleReconnect
=============================================================================
