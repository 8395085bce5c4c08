---------------------------- MODULE PowerManager ----------------------------
(***************************************************************************)
(* CPU frequency scaling (src/lib/hal/HalPowerManager).  The main loop     *)
(* asks for the low frequency when the device is idle; a Lock object keeps *)
(* the CPU at normal speed during its scope: one in the render task, one   *)
(* in the reconnect worker, and two on the main task, around the           *)
(* preparation of deep sleep and around a BLE disconnect, which may nest.  *)
(* currentLockMode is written under a mutex and read without it.           *)
(***************************************************************************)
EXTENDS Naturals, Sequences

CONSTANTS
    Lock,       \* the Lock objects that may exist at the same time
    MainScopes  \* those on the main task, the outermost scope first

ASSUME LockAssumption == MainScopes \in Seq(Lock) /\ "loop" \notin Lock

VARIABLES
    mode,      \* currentLockMode
    inScope,   \* the Lock objects that are constructed
    valid,     \* the ones that took the mode
    call,      \* per caller, how far its setPowerSaving() is
    isLowPower, freq, wifi

vars == <<mode, inScope, valid, call, isLowPower, freq, wifi>>

\* setPowerSaving() runs in the main loop and in the constructor of a Lock.
Caller == Lock \cup {"loop"}
Idle   == [at |-> "idle", enabled |-> FALSE, seen |-> "None"]
Busy(c) == call[c].at # "idle"

MainLock == {MainScopes[i] : i \in 1..Len(MainScopes)}

\* The scopes of the main task nest: l is inside every other one that is open.
Innermost(l) ==
    \A i, j \in 1..Len(MainScopes) :
        MainScopes[i] = l /\ MainScopes[j] \in inScope \ {l} => j < i

\* The main task does one thing at a time.
MainBusy == \E c \in MainLock \cup {"loop"} : Busy(c)

Init ==
    /\ mode = "None"
    /\ inScope = {}
    /\ valid = {}
    /\ call = [c \in Caller |-> Idle]
    /\ isLowPower = FALSE
    /\ freq = "normal"
    /\ wifi = FALSE

-----------------------------------------------------------------------------
(* setPowerSaving(enabled): read the mode, set the frequency, set the flag *)

\* The main loop calls it outside its own Lock scopes.
CallFromLoop(enabled) ==
    /\ ~MainBusy /\ inScope \cap MainLock = {}
    /\ call' = [call EXCEPT !["loop"] = [Idle EXCEPT !.at = "read",
                                                     !.enabled = enabled]]
    /\ UNCHANGED <<mode, inScope, valid, isLowPower, freq, wifi>>

\* An active WiFi radio forces power saving off.
WifiVeto(c) == call[c].enabled /\ ~wifi

ReadMode(c) ==
    /\ call[c].at = "read"
    /\ call' = [call EXCEPT ![c] = [at |-> "apply", seen |-> mode,
                                    enabled |-> WifiVeto(c)]]
    /\ UNCHANGED <<mode, inScope, valid, isLowPower, freq, wifi>>

GoesLow(c) == call[c].seen = "None" /\ call[c].enabled /\ ~isLowPower
RestoresWhenAsked(c) == ~call[c].enabled /\ isLowPower
Restores(c) == (~call[c].enabled \/ call[c].seen # "None") /\ isLowPower

\* setCpuFrequencyMhz() succeeds and the flag is about to follow ...
SetFrequency(c) ==
    /\ call[c].at = "apply"
    /\ GoesLow(c) \/ Restores(c)
    /\ freq' = IF GoesLow(c) THEN "low" ELSE "normal"
    /\ call' = [call EXCEPT ![c].at = IF GoesLow(c) THEN "lowered"
                                                     ELSE "restored"]
    /\ UNCHANGED <<mode, inScope, valid, isLowPower, wifi>>

\* ... or it fails, or there is nothing to change, and the call returns.
NoChange(c) ==
    /\ call[c].at = "apply"
    /\ call' = [call EXCEPT ![c] = Idle]
    /\ UNCHANGED <<mode, inScope, valid, isLowPower, freq, wifi>>

FlagNotReset(c) ==  \* the flag is only ever raised
    /\ call[c].at \in {"lowered", "restored"}
    /\ isLowPower' = (isLowPower \/ call[c].at = "lowered")
    /\ call' = [call EXCEPT ![c] = Idle]
    /\ UNCHANGED <<mode, inScope, valid, freq, wifi>>

SetFlag(c) ==
    /\ call[c].at \in {"lowered", "restored"}
    /\ isLowPower' = (call[c].at = "lowered")
    /\ call' = [call EXCEPT ![c] = Idle]
    /\ UNCHANGED <<mode, inScope, valid, freq, wifi>>

-----------------------------------------------------------------------------
(* Lock::Lock() and Lock::~Lock().  The mode and the validity change       *)
(* together under modeMutex; a valid lock then restores the frequency.     *)

Construct(l) ==
    /\ l \notin inScope
    /\ l \in MainLock => ~MainBusy /\ Innermost(l)
    /\ inScope' = inScope \cup {l}
    /\ IF mode = "None"
       THEN /\ mode' = "NormalSpeed"
            /\ valid' = valid \cup {l}
            /\ call' = [call EXCEPT ![l] = [Idle EXCEPT !.at = "read"]]
       ELSE UNCHANGED <<mode, valid, call>>
    /\ UNCHANGED <<isLowPower, freq, wifi>>

AnyLockReleases(l) ==  \* ~Lock() does not look at valid
    /\ mode' = "None"
    /\ valid' = valid \ {l}

ReleaseIfValid(l) ==
    /\ mode' = IF l \in valid THEN "None" ELSE mode
    /\ valid' = valid \ {l}

Destroy(l) ==
    /\ l \in inScope /\ ~Busy(l)
    /\ l \in MainLock => ~MainBusy /\ Innermost(l)
    /\ inScope' = inScope \ {l}
    /\ ReleaseIfValid(l)
    /\ UNCHANGED <<call, isLowPower, freq, wifi>>

\* The main task turns the WiFi radio on and off.
SwitchWifi ==
    /\ ~MainBusy
    /\ wifi' = ~wifi
    /\ UNCHANGED <<mode, inScope, valid, call, isLowPower, freq>>

Next ==
    \/ \E enabled \in BOOLEAN : CallFromLoop(enabled)
    \/ \E c \in Caller :
         ReadMode(c) \/ SetFrequency(c) \/ NoChange(c) \/ SetFlag(c)
    \/ \E l \in Lock : Construct(l) \/ Destroy(l)
    \/ SwitchWifi

Spec == Init /\ [][Next]_vars

-----------------------------------------------------------------------------
(* Properties *)

Call == [at : {"idle", "read", "apply", "lowered", "restored"},
         enabled : BOOLEAN, seen : {"None", "NormalSpeed"}]

\* Every variable of HalPowerManager has its type.
TypeOK ==
    /\ mode \in {"None", "NormalSpeed"}
    /\ inScope \in SUBSET Lock
    /\ valid \in SUBSET Lock
    /\ call \in [Caller -> Call]
    /\ isLowPower \in BOOLEAN
    /\ freq \in {"normal", "low"}
    /\ wifi \in BOOLEAN

\* The lock mode is taken exactly while one valid Lock is in scope: an
\* ignored second Lock never gives it back, however the scopes overlap.
ModeHasOneHolder ==
    /\ valid \subseteq inScope
    /\ \A l1, l2 \in valid : l1 = l2
    /\ mode = "NormalSpeed" <=> valid # {}

\* isLowPower tells the truth about the CPU whenever no setPowerSaving() is
\* between the two, although the main loop and the Locks of other tasks run
\* it at the same time without a mutex.
FlagTellsFrequency ==
    (\A c \in Caller : call[c].at \notin {"lowered", "restored"})
        => (isLowPower <=> freq = "low")

\* Scopes end and calls return; the main loop keeps asking for power saving,
\* and the frequency change it repeats does not fail for ever.
FairSpec ==
    /\ Spec
    /\ SF_vars(CallFromLoop(TRUE))
    /\ \A c \in Caller : /\ WF_vars(ReadMode(c))
                         /\ SF_vars(SetFrequency(c))
                         /\ WF_vars(SetFlag(c))
                         /\ WF_vars(NoChange(c))
    /\ \A l \in MainLock : SF_vars(Destroy(l))

\* A valid Lock overtaken by a low-power decision made on a stale mode ("not
\* very important if we read a slightly stale value") gets the normal speed
\* back at a later turn of the main loop.
StaleLowIsRestored ==
    \A l \in Lock \ MainLock :
        (l \in valid /\ freq = "low") ~> (l \notin valid \/ freq = "normal")
=============================================================================
