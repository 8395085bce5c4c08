------------------------ MODULE PowerManager_proofs ------------------------
(***************************************************************************)
(* Invariance proofs for PowerManager, for any set of Lock objects.        *)
(*                                                                         *)
(* FlagTellsFrequency is not inductive.  Two calls of setPowerSaving() may *)
(* both be between the frequency and the flag; that the last one to write  *)
(* the flag is also the last one that set the frequency rests on who can   *)
(* be there: only the main loop goes low, only the one valid Lock runs the *)
(* call beside it, and the main loop cannot go low on a mode it read while *)
(* that Lock was already restoring.                                        *)
(***************************************************************************)
EXTENDS PowerManager, TLAPS

\* A Lock's constructor only ever asks for normal speed, and only a Lock
\* that took the mode calls setPowerSaving().
LockAsksNormal ==
    \A l \in Lock : /\ ~call[l].enabled
                    /\ call[l].at # "lowered"
                    /\ Busy(l) => l \in valid

\* The main loop went low: the flag still says normal and nobody restores.
LoweredAlone ==
    call["loop"].at = "lowered" =>
        ~isLowPower /\ freq = "low" /\ \A l \in Lock : call[l].at # "restored"

\* Somebody restored the frequency, and nobody has lowered it since.
RestoredIsNormal ==
    \A c \in Caller : call[c].at = "restored" => freq = "normal"

\* While a Lock restores, a main loop that read no lock still sees the flag.
StaleLoopSeesFlag ==
    \A l \in Lock :
        /\ call[l].at = "restored"
        /\ call["loop"].at = "apply" /\ call["loop"].seen = "None"
        => isLowPower

IInv ==
    /\ TypeOK
    /\ ModeHasOneHolder
    /\ LockAsksNormal
    /\ LoweredAlone
    /\ RestoredIsNormal
    /\ StaleLoopSeesFlag
    /\ FlagTellsFrequency

-----------------------------------------------------------------------------

(* The invariant holds at the start.                                            *)
LEMMA InitIInv == Init => IInv
<1> SUFFICES ASSUME Init PROVE IInv
  OBVIOUS
<1> USE DEF Init
<1>1. \A c \in Caller : call[c] = Idle
  OBVIOUS
<1>2. TypeOK
  BY DEF TypeOK, Call, Idle
<1>3. ModeHasOneHolder
  BY DEF ModeHasOneHolder
<1>4. LockAsksNormal /\ LoweredAlone /\ RestoredIsNormal /\ StaleLoopSeesFlag
  BY <1>1 DEF LockAsksNormal, LoweredAlone, RestoredIsNormal,
              StaleLoopSeesFlag, Caller, Idle, Busy
<1>5. FlagTellsFrequency
  BY DEF FlagTellsFrequency
<1> QED
  BY <1>2, <1>3, <1>4, <1>5 DEF IInv

(* Every step keeps the invariant.                                              *)
LEMMA NextIInv == IInv /\ [Next]_vars => IInv'
<1> SUFFICES ASSUME IInv, [Next]_vars PROVE IInv'
  OBVIOUS
<1> USE LockAssumption DEF IInv, TypeOK, Call, Caller
<1>1. ASSUME NEW enabled \in BOOLEAN, CallFromLoop(enabled) PROVE IInv'
  BY <1>1
  DEF CallFromLoop, MainBusy, Busy, Idle, ModeHasOneHolder, LockAsksNormal,
      LoweredAlone, RestoredIsNormal, StaleLoopSeesFlag, FlagTellsFrequency
<1>2. ASSUME NEW c \in Caller, ReadMode(c) PROVE IInv'
  BY <1>2
  DEF ReadMode, WifiVeto, Busy, ModeHasOneHolder, LockAsksNormal,
      LoweredAlone, RestoredIsNormal, StaleLoopSeesFlag, FlagTellsFrequency
<1>3. ASSUME NEW c \in Caller, SetFrequency(c) PROVE IInv'
  BY <1>3
  DEF SetFrequency, GoesLow, Restores, Busy, ModeHasOneHolder,
      LockAsksNormal, LoweredAlone, RestoredIsNormal, StaleLoopSeesFlag,
      FlagTellsFrequency
<1>4. ASSUME NEW c \in Caller, NoChange(c) PROVE IInv'
  <2> USE <1>4 DEF NoChange, Idle
  <2>1. /\ call'[c] = Idle
        /\ \A d \in Caller \ {c} : call'[d] = call[d]
    OBVIOUS
  <2>2. TypeOK'
    OBVIOUS
  <2>3. ModeHasOneHolder' /\ LockAsksNormal'
    BY <2>1 DEF ModeHasOneHolder, LockAsksNormal, Busy
  <2>4. LoweredAlone' /\ RestoredIsNormal' /\ StaleLoopSeesFlag'
    BY <2>1 DEF LoweredAlone, RestoredIsNormal, StaleLoopSeesFlag
  <2>5. FlagTellsFrequency'
    BY <2>1 DEF FlagTellsFrequency
  <2> QED
    BY <2>2, <2>3, <2>4, <2>5
<1>5. ASSUME NEW c \in Caller, SetFlag(c) PROVE IInv'
  <2> USE <1>5 DEF SetFlag, Idle
  <2>1. /\ call'[c] = Idle
        /\ \A d \in Caller \ {c} : call'[d] = call[d]
    OBVIOUS
  <2>2. TypeOK'
    OBVIOUS
  <2>3. ModeHasOneHolder' /\ LockAsksNormal'
    BY <2>1 DEF ModeHasOneHolder, LockAsksNormal, Busy
  <2>4. CASE c = "loop"
    <3>1. LoweredAlone' /\ RestoredIsNormal' /\ StaleLoopSeesFlag'
      BY <2>1, <2>4 DEF LoweredAlone, RestoredIsNormal, StaleLoopSeesFlag
    <3>2. FlagTellsFrequency'
      BY <2>1, <2>4 DEF FlagTellsFrequency, LoweredAlone, RestoredIsNormal
    <3> QED
      BY <2>2, <2>3, <3>1, <3>2
  <2>5. CASE c \in Lock
    <3>1. call[c].at = "restored" /\ c \in valid /\ freq = "normal"
      BY <2>5 DEF LockAsksNormal, Busy, RestoredIsNormal
    <3>2. \A l \in Lock : call'[l].at # "restored"  \* c was the one holder
      BY <2>1, <2>5, <3>1 DEF LockAsksNormal, ModeHasOneHolder, Busy
    <3>3. call["loop"].at # "lowered"
      BY <2>5, <3>1 DEF LoweredAlone
    <3>4. LoweredAlone' /\ RestoredIsNormal' /\ StaleLoopSeesFlag'
      BY <2>1, <2>5, <3>1, <3>2, <3>3
      DEF LoweredAlone, RestoredIsNormal, StaleLoopSeesFlag
    <3>5. FlagTellsFrequency'
      BY <3>1 DEF FlagTellsFrequency
    <3> QED
      BY <2>2, <2>3, <3>4, <3>5
  <2> QED
    BY <2>4, <2>5
<1>6. ASSUME NEW l \in Lock, Construct(l) PROVE IInv'
  <2> USE <1>6 DEF Construct, Idle
  <2>1. /\ call'[l].at \in {"idle", "read"} \cup {call[l].at}
        /\ \A d \in Caller \ {l} : call'[d] = call[d]
    OBVIOUS
  <2>2. TypeOK'
    <3>1. call' \in [Caller -> Call]
      <4>1. [Idle EXCEPT !.at = "read"] \in Call
        OBVIOUS
      <4> QED
        BY <4>1
    <3> QED
      BY <3>1
  <2>3. ModeHasOneHolder' /\ LockAsksNormal'
    BY DEF ModeHasOneHolder, LockAsksNormal, Busy
  <2>4. call[l].at = "idle"  \* a busy Lock is valid, so it is in scope
    BY DEF LockAsksNormal, ModeHasOneHolder, Busy
  <2>5. LoweredAlone' /\ RestoredIsNormal' /\ StaleLoopSeesFlag'
    BY <2>1, <2>4 DEF LoweredAlone, RestoredIsNormal, StaleLoopSeesFlag
  <2>6. FlagTellsFrequency'
    BY <2>1, <2>4 DEF FlagTellsFrequency
  <2> QED
    BY <2>2, <2>3, <2>5, <2>6
<1>7. ASSUME NEW l \in Lock, Destroy(l) PROVE IInv'
  BY <1>7
  DEF Destroy, ReleaseIfValid, Busy, ModeHasOneHolder, LockAsksNormal,
      LoweredAlone, RestoredIsNormal, StaleLoopSeesFlag, FlagTellsFrequency
<1>8. CASE SwitchWifi
  BY <1>8
  DEF SwitchWifi, Busy, ModeHasOneHolder, LockAsksNormal, LoweredAlone,
      RestoredIsNormal, StaleLoopSeesFlag, FlagTellsFrequency
<1>9. CASE UNCHANGED vars
  BY <1>9
  DEF vars, Busy, ModeHasOneHolder, LockAsksNormal, LoweredAlone,
      RestoredIsNormal, StaleLoopSeesFlag, FlagTellsFrequency
<1> QED
  BY <1>1, <1>2, <1>3, <1>4, <1>5, <1>6, <1>7, <1>8, <1>9 DEF Next

\* Every reachable state satisfies the inductive invariant.
THEOREM Invariance == Spec => []IInv
  BY InitIInv, NextIInv, PTL DEF Spec

\* The variables of HalPowerManager keep their types.
THEOREM TypeCorrect == Spec => []TypeOK
<1>1. IInv => TypeOK BY DEF IInv
<1> QED BY <1>1, Invariance, PTL

\* However many Lock scopes overlap, the mode has one holder and is given
\* back by it alone.
THEOREM OneHolder == Spec => []ModeHasOneHolder
<1>1. IInv => ModeHasOneHolder BY DEF IInv
<1> QED BY <1>1, Invariance, PTL

\* isLowPower and the CPU frequency agree whenever no call is between them.
THEOREM FlagIsTrue == Spec => []FlagTellsFrequency
<1>1. IInv => FlagTellsFrequency BY DEF IInv
<1> QED BY <1>1, Invariance, PTL
=============================================================================
