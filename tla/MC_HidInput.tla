---------------------------- MODULE MC_HidInput ----------------------------
(* One remote of any profile.  The firmware's limits, 110 to 10000 ms, are each *)
(* passed after one step of time or two; the longest ones last no longer than   *)
(* the others, which the proofs, made for all values, do not depend on.         *)
EXTENDS HidInput

SmallKeys ==
  [plain |-> {"pageUp"}, free2 |-> {"pageUp", "pageDown"}, brick |-> {"actionA"}]
=============================================================================
