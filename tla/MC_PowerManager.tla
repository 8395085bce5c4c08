-------------------------- MODULE MC_PowerManager --------------------------
(* The four Lock objects of the firmware: a frame, a reconnect worker, and *)
(* on the main task a BLE disconnect, alone or inside enterDeepSleep().    *)
EXTENDS PowerManager

AllLocks   == {"render", "reconnect", "sleep", "disconnect"}
MainNested == <<"sleep", "disconnect">>
=============================================================================
