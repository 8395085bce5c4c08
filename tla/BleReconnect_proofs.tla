------------------------- MODULE BleReconnect_proofs -------------------------
(***************************************************************************)
(* Proofs about BleReconnect, for any remotes and workers: its invariants, *)
(* and that it keeps the promise of CrashGuard.                            *)
(***************************************************************************)
EXTENDS BleReconnect, TLAPS

\* A worker that connects or bonds has found a remote.
TargetKnown ==
    \A w \in Worker : task[w].at \in {"connect", "bond"} => task[w].target \in Remote

\* Nothing is connected and nothing is reported.
Silent == tracked = {} /\ events = {} /\ \A r \in Remote : link[r] = "down"

\* disable() refuses while the job runs, so the host is up under a job, and
\* the device does not go to sleep; the host has only ever been up after the
\* crash guard was read, and nothing can be connected or reported before.
HostInv ==
    /\ job.running => enabled
    /\ enabled => guardInit
    /\ guardInit => power # "off"
    /\ power = "sleeping" => ~job.running
    /\ ~guardInit => Silent

\* Automatic tasks exist only in a boot that has read the guard and is not
\* disabled by it: who ends one and removes the guard enables no boot.
AutoInv == ~guardInit \/ disabled => \A w \in Worker : ~task[w].automatic

\* A guard that is known to be left behind is still there.
LeftInv == left => guardFile

\* After a reset in guarded work the guard file stays, this boot is disabled
\* as soon as the guard is read, no task is automatic and none has succeeded.
SuspectInv ==
    suspect =>
        /\ saved # NULL => guardFile
        /\ power # "off" => saved # NULL
        /\ guardInit => disabled
        /\ ~job.success
        /\ \A w \in Worker : ~task[w].automatic /\ ~task[w].ok

IInv ==
    /\ TypeOK /\ TargetKnown
    /\ JobHasOneWorker /\ HostInv
    /\ GuardCoversWork
    /\ AutoInv /\ LeftInv /\ GuardMatchesWork
    /\ SuspectInv

-----------------------------------------------------------------------------
(* What the helpers do to the types *)

\* armAutoReconnect() can only set armed, end a disabled boot when asked to,
\* and remove a guard that no automatic job needs.
LEMMA ArmEffect ==
    ASSUME TypeOK, NEW b, NEW clear \in BOOLEAN, Arm(b, clear)
    PROVE  /\ armed' \in BOOLEAN /\ disabled' \in BOOLEAN /\ guardFile' \in BOOLEAN
           /\ guardFile' => guardFile
           /\ disabled' => disabled
           /\ guardFile /\ ~guardFile' => /\ ~(job.running /\ job.automatic)
                                          /\ clear \/ ~disabled
           /\ disabled /\ ~disabled' => clear
           /\ disabled /\ ~disabled' /\ guardFile' => job.running /\ job.automatic
           /\ guardFile /\ ~guardFile' => ~disabled'
<1>0. /\ armed \in BOOLEAN /\ disabled \in BOOLEAN /\ guardFile \in BOOLEAN
  BY DEF TypeOK
<1>1. CASE b # NULL /\ MayArm(clear)
  <2>1. /\ armed' = TRUE
        /\ disabled' = (disabled /\ ~clear)
        /\ guardFile' = (guardFile /\ job.running /\ job.automatic)
    BY <1>1 DEF Arm
  <2>2. clear \/ ~disabled
    BY <1>1 DEF MayArm
  <2> QED BY <1>0, <2>1, <2>2
<1>2. CASE ~(b # NULL /\ MayArm(clear))
  <2>1. UNCHANGED <<armed, disabled, guardFile>>
    BY <1>2 DEF Arm
  <2> QED BY <1>0, <2>1
<1> QED BY <1>1, <1>2

\* setBondedDevice(): without a bond all three are reset, and a suspicion with
\* them; with one it may arm.
LEMMA SetBondedEffect ==
    ASSUME TypeOK, NEW b \in Remote \cup {NULL}, SetBonded(b)
    PROVE  /\ bond' = b
           /\ suspect' \in BOOLEAN /\ (suspect' => suspect /\ b # NULL)
           /\ armed' \in BOOLEAN /\ disabled' \in BOOLEAN /\ guardFile' \in BOOLEAN
           /\ guardFile' => guardFile
           /\ disabled' => disabled
           /\ b = NULL => ~guardFile' /\ ~disabled'
           /\ b # NULL /\ guardFile /\ ~guardFile' =>
                  /\ enabled /\ ~(job.running /\ job.automatic) /\ ~disabled
           /\ b # NULL /\ disabled => disabled'
<1>0. /\ suspect \in BOOLEAN /\ armed \in BOOLEAN /\ disabled \in BOOLEAN
      /\ guardFile \in BOOLEAN
  BY DEF TypeOK
<1>1. bond' = b /\ suspect' = (suspect /\ b # NULL)
  BY DEF SetBonded
<1>2. CASE b = NULL
  <2>1. armed' = FALSE /\ disabled' = FALSE /\ guardFile' = FALSE
    BY <1>2 DEF SetBonded
  <2> QED BY <1>0, <1>1, <1>2, <2>1
<1>3. CASE b # NULL /\ enabled /\ b \in Connected
  <2>1. Arm(b, FALSE)
    BY <1>3 DEF SetBonded
  <2>2. /\ armed' \in BOOLEAN /\ disabled' \in BOOLEAN /\ guardFile' \in BOOLEAN
        /\ guardFile' => guardFile
        /\ disabled' => disabled
        /\ guardFile /\ ~guardFile' => ~(job.running /\ job.automatic) /\ ~disabled
        /\ disabled => disabled'
    BY <2>1, ArmEffect
  <2> QED BY <1>0, <1>1, <1>3, <2>2
<1>4. CASE b # NULL /\ ~(enabled /\ b \in Connected)
  <2>1. UNCHANGED <<armed, disabled, guardFile>>
    BY <1>4 DEF SetBonded
  <2> QED BY <1>0, <1>1, <1>4, <2>1
<1> QED BY <1>2, <1>3, <1>4

\* enable() with setBondedDevice(saved).
LEMMA TurnOnEffect ==
    ASSUME TypeOK, NEW d \in BOOLEAN, TurnOn(d)
    PROVE  /\ bond' = saved /\ enabled' = TRUE /\ guardInit' = TRUE
           /\ wakeFile' = FALSE /\ mark' = NULL /\ events' = {} /\ disabled' = d
           /\ armed' \in BOOLEAN /\ guardFile' \in BOOLEAN /\ suspect' \in BOOLEAN
           /\ suspect' => suspect /\ saved # NULL
           /\ guardFile' => guardFile /\ saved # NULL
           /\ saved # NULL /\ guardFile /\ d => guardFile'
<1>0. /\ suspect \in BOOLEAN /\ armed \in BOOLEAN /\ guardFile \in BOOLEAN
      /\ wakeFile \in BOOLEAN
  BY DEF TypeOK
<1>1. armed' = (wakeFile /\ ~d /\ saved # NULL)
  BY DEF TurnOn
<1>2. guardFile' = (guardFile /\ saved # NULL /\ ~armed')
  BY DEF TurnOn
<1>3. suspect' = (suspect /\ saved # NULL)
  BY DEF TurnOn
<1>4. /\ bond' = saved /\ enabled' = TRUE /\ guardInit' = TRUE
      /\ wakeFile' = FALSE /\ mark' = NULL /\ events' = {} /\ disabled' = d
  BY DEF TurnOn
<1>5. armed' \in BOOLEAN /\ guardFile' \in BOOLEAN /\ suspect' \in BOOLEAN
  BY <1>1, <1>2, <1>3
<1>6. d => ~armed'
  BY <1>1
<1> QED BY <1>0, <1>2, <1>3, <1>4, <1>5, <1>6

(* What a disconnect changes.                                                   *)
LEMMA DisconnectEffect ==
    ASSUME TypeOK, NEW R \in SUBSET Remote, Disconnect(R)
    PROVE  /\ tracked' \in SUBSET tracked
           /\ link' \in [Remote -> {"down", "up", "closing"}]
           /\ mark' \in Remote \cup {NULL}
<1>1. tracked' = tracked \ R
  BY DEF Disconnect
<1>2. link' = [r \in Remote |-> IF r \in {q \in R : link[q] = "up"}
                                THEN "closing" ELSE link[r]]
  BY DEF Disconnect
<1>3. link' \in [Remote -> {"down", "up", "closing"}]
  BY <1>2 DEF TypeOK
<1>4. mark' \in Remote \cup {NULL}
  BY DEF Disconnect, TypeOK
<1> QED BY <1>1, <1>3, <1>4

(* The connected remotes are remotes.                                           *)
LEMMA ConnectedType == TypeOK => Connected \in SUBSET Remote
BY DEF Connected, TypeOK

(* What stopping the host changes.                                              *)
LEMMA StopHostEffect ==
    ASSUME TypeOK, StopHost
    PROVE  /\ enabled' = FALSE /\ armed' = FALSE /\ tracked' = {} /\ mark' = NULL
           /\ link' \in [Remote -> {"down", "up", "closing"}]
           /\ events' \in SUBSET [dev : Remote, suppress : BOOLEAN]
<1>1. /\ enabled' = FALSE /\ armed' = FALSE /\ tracked' = {} /\ mark' = NULL
      /\ link' = [r \in Remote |-> "down"]
  BY DEF StopHost
<1>2. PICK m \in (IF Connected = {} THEN {mark} ELSE Connected),
          Q \in SUBSET {r \in Remote : link[r] # "down"} :
          events' = events \cup {[dev |-> r, suppress |-> r = m] : r \in Q}
  BY DEF StopHost
<1>3. \A r \in Q : [dev |-> r, suppress |-> r = m] \in [dev : Remote, suppress : BOOLEAN]
  OBVIOUS
<1>4. {[dev |-> r, suppress |-> r = m] : r \in Q}
          \in SUBSET [dev : Remote, suppress : BOOLEAN]
  BY <1>3, Zenon
<1>5. events' \in SUBSET [dev : Remote, suppress : BOOLEAN]
  BY <1>2, <1>4 DEF TypeOK
<1> QED BY <1>1, <1>5

\* A job starts on a task that did not exist.
LEMMA StartJobEffect ==
    ASSUME TypeOK, NEW a \in BOOLEAN, NEW p \in BOOLEAN, StartJob(a, p)
    PROVE  /\ job' \in JobFlags /\ task' \in [Worker -> WorkerState]
           /\ job'.running /\ job'.automatic = a /\ job'.pairNew = p /\ ~job'.success
           /\ \E w \in Worker :
                 /\ task[w] = NoTask
                 /\ task'[w].at = "begin" /\ task'[w].automatic = a
                 /\ task'[w].pairNew = p /\ ~task'[w].ok
                 /\ \A v \in Worker \ {w} : task'[v] = task[v]
<1> DEFINE Started == [at |-> "begin", automatic |-> a, pairNew |-> p,
                       target |-> NULL, ok |-> FALSE, bare |-> FALSE]
<1>1. PICK w \in Worker :
          /\ task[w] = NoTask
          /\ task' = [task EXCEPT ![w] = Started]
          /\ job' = [running |-> TRUE, automatic |-> a, pairNew |-> p,
                     finished |-> FALSE, success |-> FALSE]
  BY DEF StartJob
<1>2. Started \in WorkerState
  BY DEF WorkerState
<1>3. task' \in [Worker -> WorkerState]
  BY <1>1, <1>2 DEF TypeOK
<1>4. job' \in JobFlags
  BY <1>1 DEF JobFlags
<1>5. task'[w] = Started /\ \A v \in Worker \ {w} : task'[v] = task[v]
  BY <1>1 DEF TypeOK
<1>6. /\ task'[w].at = "begin" /\ task'[w].automatic = a
      /\ task'[w].pairNew = p /\ ~task'[w].ok
  BY <1>5
<1>7. job'.running /\ job'.automatic = a /\ job'.pairNew = p /\ ~job'.success
  BY <1>1
<1> HIDE DEF Started
<1> QED BY <1>1, <1>3, <1>4, <1>5, <1>6, <1>7

\* A step of one worker to another place.
LEMMA StepEffect ==
    ASSUME TypeOK, NEW w \in Worker, NEW at \in {"scan", "finish", "bond"},
           Step(w, at)
    PROVE  /\ task' \in [Worker -> WorkerState]
           /\ task'[w] = [task[w] EXCEPT !.at = at]
           /\ \A v \in Worker \ {w} : task'[v] = task[v]
<1>1. task' = [task EXCEPT ![w] = [task[w] EXCEPT !.at = at]]
  BY DEF Step
<1>2. [task[w] EXCEPT !.at = at] \in WorkerState
  BY DEF TypeOK, WorkerState
<1> QED BY <1>1, <1>2 DEF TypeOK

(* What stands for no job and no task has its type.                             *)
LEMMA NoneType == NoJob \in JobFlags /\ NoTask \in WorkerState
BY DEF NoJob, JobFlags, NoTask, WorkerState

\* A job without a task: it is over, and has not succeeded.
LEMMA StartFailsEffect ==
    ASSUME StartFails
    PROVE  job' \in JobFlags /\ ~job'.running /\ ~job'.success /\ task' = task
BY DEF StartFails, NoJob, JobFlags

\* A task that has published its result.
LEMMA EndingEffect ==
    ASSUME TypeOK, NEW w \in Worker
    PROVE  /\ Ending(w) \in WorkerState /\ Ending(w).at = "tail"
           /\ Ending(w).automatic = task[w].automatic /\ ~Ending(w).ok
BY DEF Ending, NoTask, TypeOK, WorkerState

-----------------------------------------------------------------------------
(* Types.  A worker knows its target when it connects.                     *)

(* The invariant holds at the start.                                            *)
LEMMA InitIInv == Init => IInv
<1> SUFFICES ASSUME Init PROVE IInv
  OBVIOUS
<1>1. \A w \in Worker : task[w].at = "none" /\ ~task[w].automatic /\ ~task[w].ok
  BY DEF Init, NoTask
<1>2. ~job.running /\ ~job.automatic /\ ~job.success
  BY DEF Init, NoJob
<1>3. TypeOK
  BY NoneType DEF Init, TypeOK
<1>4. TargetKnown
  BY <1>1 DEF TargetKnown
<1>5. JobHasOneWorker
  BY <1>1, <1>2 DEF JobHasOneWorker, Working
<1>6. HostInv
  BY <1>2 DEF HostInv, Silent, Init
<1>7. AutoInv /\ LeftInv
  BY <1>1 DEF AutoInv, LeftInv, Init
<1>8. GuardCoversWork
  BY <1>1 DEF GuardCoversWork, GuardedWork, PastGuard
<1>9. GuardMatchesWork
  BY DEF GuardMatchesWork, Init
<1>10. SuspectInv
  BY DEF SuspectInv, Init
<1> QED BY <1>3, <1>4, <1>5, <1>6, <1>7, <1>8, <1>9, <1>10 DEF IInv

(* Every step keeps the types.                                                  *)
LEMMA NextType == TypeOK /\ TargetKnown /\ [Next]_vars => TypeOK'
<1> SUFFICES ASSUME TypeOK, TargetKnown, [Next]_vars PROVE TypeOK'
  OBVIOUS
<1>left. left' \in BOOLEAN
  <2>1. CASE Next
    <3>1. left' = ((left \/ CutOff) /\ guardFile')
      BY <2>1 DEF Next
    <3> QED BY <3>1
  <2>2. CASE UNCHANGED vars
    BY <2>2 DEF vars, TypeOK
  <2> QED BY <2>1, <2>2
<1> USE <1>left DEF card, boot, arming, jobs, links, ui, state
<1>ram. ASSUME RamLost
       PROVE /\ enabled' \in BOOLEAN /\ bond' \in Remote \cup {NULL} /\ armed' \in BOOLEAN
             /\ disabled' \in BOOLEAN /\ guardInit' \in BOOLEAN
             /\ job' \in JobFlags /\ task' \in [Worker -> WorkerState]
             /\ tracked' \subseteq Remote
             /\ link' \in [Remote -> {"down", "up", "closing"}]
             /\ mark' \in Remote \cup {NULL}
             /\ events' \subseteq [dev : Remote, suppress : BOOLEAN]
             /\ screen' \in {"away", "poll", "input"}
             /\ polling' \in {"no", "reconnect", "pair"}
  BY <1>ram, NoneType DEF RamLost
<1>crash. CASE \E panic \in BOOLEAN : Crash(panic)
  <2>1. suspect' = (suspect \/ GuardedWork) /\ crashed' \in BOOLEAN /\ power' = "off"
    BY <1>crash DEF Crash
  <2>2. suspect' \in BOOLEAN
    BY <2>1
  <2> QED BY <1>crash, <1>ram, <2>1, <2>2 DEF Crash, TypeOK
<1>boot. CASE Boot
  <2>0. saved \in Remote \cup {NULL} /\ crashed \in BOOLEAN /\ guardFile \in BOOLEAN
    BY DEF TypeOK
  <2>1. CASE btSetting
    <3> DEFINE d == crashed \/ (guardFile /\ saved # NULL)
    <3>1. d \in BOOLEAN
      BY <2>0
    <3>2. TurnOn(d)
      BY <1>boot, <2>1 DEF Boot
    <3> HIDE DEF d
    <3> QED BY <1>boot, <3>1, <3>2, TurnOnEffect DEF Boot, TypeOK
  <2>2. CASE ~btSetting
    <3>1. SetBonded(saved) /\ UNCHANGED <<wakeFile, enabled, guardInit, mark, events>>
      BY <1>boot, <2>2 DEF Boot
    <3> QED BY <1>boot, <2>0, <3>1, SetBondedEffect DEF Boot, TypeOK
  <2> QED BY <2>1, <2>2
<1>sleep. CASE EnterDeepSleep
  <2>1. wakeFile' \in BOOLEAN /\ enabled' \in BOOLEAN /\ armed' \in BOOLEAN
    <3>1. CASE enabled
      <4>1. StopHost /\ wakeFile' = (wakeFile \/ bond # NULL)
        BY <1>sleep, <3>1 DEF EnterDeepSleep, Disable
      <4> QED BY <4>1, StopHostEffect
    <3>2. CASE ~enabled
      BY <1>sleep, <3>2 DEF EnterDeepSleep, TypeOK
    <3> QED BY <3>1, <3>2
  <2>2. /\ tracked' \subseteq Remote /\ mark' \in Remote \cup {NULL}
        /\ link' \in [Remote -> {"down", "up", "closing"}]
        /\ events' \subseteq [dev : Remote, suppress : BOOLEAN]
    <3>1. CASE enabled
      BY <1>sleep, <3>1, StopHostEffect DEF EnterDeepSleep, Disable
    <3>2. CASE ~enabled
      BY <1>sleep, <3>2 DEF EnterDeepSleep, TypeOK
    <3> QED BY <3>1, <3>2
  <2> QED BY <1>sleep, <2>1, <2>2 DEF EnterDeepSleep, TypeOK
<1>down. CASE PowerDown
  BY <1>down, <1>ram DEF PowerDown, TypeOK
<1>worker. ASSUME NEW w \in Worker, WorkerStep(w) PROVE TypeOK'
  <2>begin. CASE Begin(w)
    <3>1. guardFile' \in BOOLEAN
      BY <2>begin DEF Begin
    <3>2. task' \in [Worker -> WorkerState]
      BY <2>begin, StepEffect DEF Begin
    <3> QED BY <2>begin, <3>1, <3>2 DEF Begin, TypeOK
  <2>finds. CASE \E r \in Remote : ScanFinds(w, r)
    <3>1. PICK r \in Remote : ScanFinds(w, r)
      BY <2>finds
    <3>2. [task[w] EXCEPT !.at = "connect", !.target = r] \in WorkerState
      <4>1. task[w] \in WorkerState
        BY DEF TypeOK
      <4> QED BY <4>1 DEF WorkerState
    <3>3. task' = [task EXCEPT ![w] = [task[w] EXCEPT !.at = "connect", !.target = r]]
      BY <3>1 DEF ScanFinds
    <3>4. task' \in [Worker -> WorkerState]
      BY <3>2, <3>3 DEF TypeOK
    <3> QED BY <3>1, <3>4 DEF ScanFinds, TypeOK
  <2>fails. CASE ScanFails(w)
    <3>1. task' \in [Worker -> WorkerState]
      BY <2>fails, StepEffect DEF ScanFails
    <3> QED BY <2>fails, <3>1 DEF ScanFails, TypeOK
  <2>connect. CASE Connect(w)
    <3>1. task[w].target \in Remote
      BY <2>connect DEF Connect, TargetKnown
    <3>2. task' \in [Worker -> WorkerState]
      BY <2>connect, StepEffect DEF Connect
    <3>3. armed' \in BOOLEAN /\ disabled' \in BOOLEAN /\ guardFile' \in BOOLEAN
      <4>1. CASE task[w].target = bond
        BY <2>connect, <4>1, ArmEffect DEF Connect
      <4>2. CASE task[w].target # bond
        BY <2>connect, <4>2 DEF Connect, TypeOK
      <4> QED BY <4>1, <4>2
    <3>4. link' \in [Remote -> {"down", "up", "closing"}]
      BY <2>connect DEF Connect, TypeOK
    <3> QED BY <2>connect, <3>1, <3>2, <3>3, <3>4 DEF Connect, TypeOK
  <2>cfails. CASE ConnectFails(w)
    <3>1. task' \in [Worker -> WorkerState]
      BY <2>cfails, StepEffect DEF ConnectFails
    <3>2. link' \in [Remote -> {"down", "up", "closing"}]
      BY <2>cfails DEF ConnectFails, TypeOK
    <3> QED BY <2>cfails, <3>1, <3>2 DEF ConnectFails, TypeOK
  <2>bond. CASE Bond(w)
    <3>1. task[w].target \in Remote /\ task[w].automatic \in BOOLEAN
      BY <2>bond DEF Bond, TargetKnown, TypeOK, WorkerState
    <3>2. armed' \in BOOLEAN /\ disabled' \in BOOLEAN /\ guardFile' \in BOOLEAN
      <4>1. (~task[w].automatic) \in BOOLEAN
        OBVIOUS
      <4>2. Arm(bond', ~task[w].automatic)
        BY <2>bond DEF Bond
      <4> QED BY <4>1, <4>2, ArmEffect
    <3>3. suspect' \in BOOLEAN
      BY <2>bond DEF Bond
    <3>4. [task[w] EXCEPT !.at = "finish", !.ok = TRUE] \in WorkerState
      <4>1. task[w] \in WorkerState
        BY DEF TypeOK
      <4> QED BY <4>1 DEF WorkerState
    <3>5. task' = [task EXCEPT ![w] = [task[w] EXCEPT !.at = "finish", !.ok = TRUE]]
      BY <2>bond DEF Bond
    <3>6. task' \in [Worker -> WorkerState]
      BY <3>4, <3>5 DEF TypeOK
    <3> QED BY <2>bond, <3>1, <3>2, <3>3, <3>6 DEF Bond, TypeOK
  <2>finish. CASE Finish(w)
    <3>1. task' \in [Worker -> WorkerState]
      BY <2>finish, EndingEffect DEF Finish, TypeOK
    <3>2. job' \in JobFlags
      BY <2>finish DEF Finish, JobFlags, TypeOK, WorkerState
    <3> QED BY <2>finish, <3>1, <3>2 DEF Finish, TypeOK
  <2>tail. CASE Tail(w)
    <3>1. guardFile' \in BOOLEAN
      BY <2>tail DEF Tail
    <3>2. task' \in [Worker -> WorkerState]
      <4>1. ASSUME NEW v \in Worker, NEW b \in BOOLEAN
            PROVE  [task[v] EXCEPT !.bare = b] \in WorkerState
        BY DEF TypeOK, WorkerState
      <4>2. \A v \in Worker :
                (task[v].bare \/ (task[w].automatic /\ PastGuard(v))) \in BOOLEAN
        OBVIOUS
      <4> QED BY <2>tail, <4>1, <4>2, NoneType DEF Tail
    <3> QED BY <2>tail, <3>1, <3>2 DEF Tail, TypeOK
  <2> QED BY <1>worker, <2>begin, <2>finds, <2>fails, <2>connect, <2>cfails, <2>bond, <2>finish, <2>tail DEF WorkerStep
<1>link. CASE \E r \in Remote, fresh \in BOOLEAN : LinkDown(r, fresh)
  <2>1. PICK r \in Remote, fresh \in BOOLEAN : LinkDown(r, fresh)
    BY <1>link
  <2>2. [dev |-> r, suppress |-> fresh /\ mark = r] \in [dev : Remote, suppress : BOOLEAN]
    OBVIOUS
  <2>3. events' \subseteq [dev : Remote, suppress : BOOLEAN]
    <3>1. events' = events \cup {[dev |-> r, suppress |-> fresh /\ mark = r]}
      BY <2>1 DEF LinkDown
    <3>2. events \subseteq [dev : Remote, suppress : BOOLEAN]
      BY DEF TypeOK
    <3> QED BY <2>2, <3>1, <3>2, Zenon
  <2>4. link' \in [Remote -> {"down", "up", "closing"}]
    BY <2>1 DEF LinkDown, TypeOK
  <2>5. mark' \in Remote \cup {NULL}
    BY <2>1 DEF LinkDown, TypeOK
  <2>6. UNCHANGED <<card, boot, enabled, guardInit, arming, jobs, tracked, ui>>
    BY <2>1 DEF LinkDown
  <2> QED BY <2>3, <2>4, <2>5, <2>6 DEF TypeOK
<1>event. CASE \E e \in events, sameName \in BOOLEAN : ProcessEvent(e, sameName)
  <2>1. PICK e \in events, sameName \in BOOLEAN : ProcessEvent(e, sameName)
    BY <1>event
  <2>3. armed' \in BOOLEAN /\ disabled' \in BOOLEAN /\ guardFile' \in BOOLEAN
    <3>1. CASE ~e.suppress /\ (e.dev = bond \/ sameName)
      BY <2>1, <3>1, ArmEffect DEF ProcessEvent
    <3>2. CASE ~(~e.suppress /\ (e.dev = bond \/ sameName))
      BY <2>1, <3>2 DEF ProcessEvent, TypeOK
    <3> QED BY <3>1, <3>2
  <2>4. tracked' \subseteq tracked /\ events' \subseteq events
    BY <2>1 DEF ProcessEvent
  <2>5. UNCHANGED <<wakeFile, saved, btSetting, boot, enabled, guardInit, bond, jobs,
                   link, mark, ui>>
    BY <2>1 DEF ProcessEvent
  <2> QED BY <2>3, <2>4, <2>5 DEF TypeOK
<1>idle. CASE \E r \in Remote, sameName \in BOOLEAN : IdleDisconnect(r, sameName)
  <2>1. PICK r \in Remote, sameName \in BOOLEAN : IdleDisconnect(r, sameName)
    BY <1>idle
  <2>2. Disconnect({r})
    BY <2>1 DEF IdleDisconnect
  <2>3. armed' \in BOOLEAN /\ disabled' \in BOOLEAN /\ guardFile' \in BOOLEAN
    <3>1. CASE r = bond
      BY <2>1, <3>1 DEF IdleDisconnect, MayArm, TypeOK
    <3>2. CASE r # bond /\ sameName
      BY <2>1, <3>2, ArmEffect DEF IdleDisconnect
    <3>3. CASE r # bond /\ ~sameName
      BY <2>1, <3>3 DEF IdleDisconnect, TypeOK
    <3> QED BY <3>1, <3>2, <3>3
  <2>4. /\ tracked' \in SUBSET tracked
        /\ link' \in [Remote -> {"down", "up", "closing"}]
        /\ mark' \in Remote \cup {NULL}
    BY <2>2, DisconnectEffect
  <2>5. UNCHANGED <<wakeFile, saved, btSetting, boot, enabled, guardInit, bond, jobs,
                   events, ui>>
    BY <2>1 DEF IdleDisconnect
  <2> QED BY <2>3, <2>4, <2>5 DEF TypeOK
<1>check. CASE \E start \in Starts : CheckAutoReconnect(start)
  <2>1. PICK start \in Starts : CheckAutoReconnect(start)
    BY <1>check
  <2>3. armed' \in BOOLEAN /\ disabled' \in BOOLEAN /\ guardFile' \in BOOLEAN
    <3>1. CASE tracked # Pruned
      BY <2>1, <3>1, ArmEffect DEF CheckAutoReconnect
    <3>2. CASE ~(tracked # Pruned)
      BY <2>1, <3>2 DEF CheckAutoReconnect, TypeOK
    <3> QED BY <3>1, <3>2
  <2>4. job' \in JobFlags /\ task' \in [Worker -> WorkerState]
    <3>1. CASE start = "no"
      BY <2>1, <3>1 DEF CheckAutoReconnect, TypeOK
    <3>2. CASE start = "job"
      BY <2>1, <3>2, StartJobEffect DEF CheckAutoReconnect
    <3>3. CASE start = "fails"
      BY <2>1, <3>3, StartFailsEffect DEF CheckAutoReconnect, TypeOK
    <3> QED BY <3>1, <3>2, <3>3 DEF Starts
  <2>5. tracked' \subseteq Remote
    BY <2>1, ConnectedType DEF CheckAutoReconnect, Pruned
  <2>6. UNCHANGED <<wakeFile, saved, btSetting, boot, enabled, guardInit, bond, link,
                   mark, events, ui>>
    BY <2>1 DEF CheckAutoReconnect
  <2> QED BY <2>3, <2>4, <2>5, <2>6 DEF TypeOK
<1>enter. CASE EnterSettings
  <2>0. saved \in Remote \cup {NULL}
    BY DEF TypeOK
  <2>1. screen' \in {"away", "poll", "input"} /\ polling' \in {"no", "reconnect", "pair"}
    BY <1>enter DEF EnterSettings
  <2>2. UNCHANGED <<saved, btSetting, power, crashed, jobs, tracked, link>>
    BY <1>enter DEF EnterSettings
  <2>3. CASE btSetting /\ ~enabled
    <3>1. (saved # NULL /\ Guarded) \in BOOLEAN
      OBVIOUS
    <3>2. TurnOn(saved # NULL /\ Guarded)
      BY <1>enter, <2>3 DEF EnterSettings
    <3> QED BY <2>0, <2>1, <2>2, <3>1, <3>2, TurnOnEffect DEF TypeOK
  <2>4. CASE ~(btSetting /\ ~enabled)
    <3>1. SetBonded(saved) /\ UNCHANGED <<wakeFile, enabled, guardInit, mark, events>>
      BY <1>enter, <2>4 DEF EnterSettings
    <3> QED BY <2>0, <2>1, <2>2, <3>1, SetBondedEffect DEF TypeOK
  <2> QED BY <2>3, <2>4
<1>wait. CASE PollWait
  BY <1>wait DEF PollWait, TypeOK
<1>consume. CASE \E leave \in BOOLEAN : PollConsume(leave)
  <2>1. PICK leave \in BOOLEAN : PollConsume(leave)
    BY <1>consume
  <2>2. btSetting' \in BOOLEAN
    BY <2>1 DEF PollConsume
  <2>3. saved' \in Remote \cup {NULL} /\ screen' \in {"away", "poll", "input"}
    BY <2>1 DEF PollConsume, TypeOK
  <2>4. job' = NoJob /\ polling' = "no"
    BY <2>1 DEF PollConsume
  <2>5. UNCHANGED <<guardFile, wakeFile, boot, enabled, guardInit, arming, task, links>>
    BY <2>1 DEF PollConsume
  <2> QED BY <2>2, <2>3, <2>4, <2>5, NoneType DEF TypeOK
<1>back. CASE Back
  BY <1>back DEF Back, TypeOK
<1>noinput. CASE NoInput
  BY <1>noinput DEF NoInput, Handled, TypeOK
<1>off. CASE ToggleOff
  <2>1. StopHost /\ screen' = "poll" /\ btSetting' = FALSE
    BY <1>off DEF ToggleOff, Disable, Handled
  <2>2. UNCHANGED <<guardFile, wakeFile, saved, boot, guardInit, bond, disabled, jobs,
                   polling>>
    BY <1>off DEF ToggleOff
  <2>3. /\ enabled' = FALSE /\ armed' = FALSE /\ tracked' = {} /\ mark' = NULL
        /\ link' \in [Remote -> {"down", "up", "closing"}]
        /\ events' \subseteq [dev : Remote, suppress : BOOLEAN]
    BY <2>1, StopHostEffect
  <2>4. /\ enabled' \in BOOLEAN /\ armed' \in BOOLEAN /\ btSetting' \in BOOLEAN
        /\ tracked' \subseteq Remote /\ mark' \in Remote \cup {NULL}
        /\ screen' \in {"away", "poll", "input"}
    BY <2>1, <2>3
  <2>5. /\ UNCHANGED <<guardFile, wakeFile, saved, power, crashed, suspect, guardInit>>
        /\ UNCHANGED <<bond, disabled, job, task, polling>>
    BY <2>2
  <2> QED BY <2>3, <2>4, <2>5 DEF TypeOK
<1>on. CASE ToggleOn
  <2>1. /\ screen' = "poll" /\ btSetting' = TRUE
        /\ UNCHANGED <<saved, power, crashed, jobs, tracked, link, polling>>
    BY <1>on DEF ToggleOn, Handled
  <2>2. saved \in Remote \cup {NULL} /\ (saved # NULL /\ Guarded) \in BOOLEAN
    BY DEF TypeOK
  <2>3. TurnOn(saved # NULL /\ Guarded)
    BY <1>on DEF ToggleOn
  <2> QED BY <2>1, <2>2, <2>3, TurnOnEffect DEF TypeOK
<1>reconnect. CASE Reconnect
  <2>1. /\ screen' = "poll"
        /\ UNCHANGED <<card, boot, enabled, guardInit, arming, links>>
    BY <1>reconnect DEF Reconnect, Handled
  <2>2. /\ job' \in JobFlags /\ task' \in [Worker -> WorkerState]
        /\ polling' \in {"no", "reconnect", "pair"}
    <3>1. CASE bond \in Connected
      BY <1>reconnect, <3>1, NoneType DEF Reconnect, TypeOK
    <3>2. CASE bond \notin Connected
      BY <1>reconnect, <3>2, StartJobEffect, NoneType DEF Reconnect, TypeOK
    <3> QED BY <3>1, <3>2
  <2> QED BY <2>1, <2>2 DEF TypeOK
<1>disc. CASE DisconnectDevices
  <2>1. /\ tracked' \in SUBSET tracked
        /\ link' \in [Remote -> {"down", "up", "closing"}]
        /\ mark' \in Remote \cup {NULL}
    BY <1>disc, ConnectedType, DisconnectEffect DEF DisconnectDevices, DisconnectAll
  <2>2. armed' \in BOOLEAN
    BY <1>disc DEF DisconnectDevices, DisconnectAll
  <2>3. /\ screen' = "poll"
        /\ UNCHANGED <<card, boot, enabled, guardInit, bond, disabled, jobs, events,
                       polling>>
    BY <1>disc DEF DisconnectDevices, Handled
  <2> QED BY <2>1, <2>2, <2>3 DEF TypeOK
<1>pair. CASE PairNew
  <2>1. /\ tracked' \in SUBSET tracked
        /\ link' \in [Remote -> {"down", "up", "closing"}]
        /\ mark' \in Remote \cup {NULL}
    BY <1>pair, ConnectedType, DisconnectEffect DEF PairNew, DisconnectAll
  <2>2. armed' \in BOOLEAN
    BY <1>pair DEF PairNew, DisconnectAll
  <2>3. /\ job' \in JobFlags /\ task' \in [Worker -> WorkerState]
        /\ polling' \in {"no", "reconnect", "pair"}
    BY <1>pair, StartJobEffect, NoneType DEF PairNew, TypeOK
  <2>4. /\ screen' = "poll"
        /\ UNCHANGED <<card, boot, enabled, guardInit, bond, disabled, events>>
    BY <1>pair DEF PairNew, Handled
  <2> QED BY <2>1, <2>2, <2>3, <2>4 DEF TypeOK
<1>forget. CASE Forget
  <2>1. /\ tracked' \in SUBSET tracked
        /\ link' \in [Remote -> {"down", "up", "closing"}]
        /\ mark' \in Remote \cup {NULL}
    BY <1>forget, ConnectedType, DisconnectEffect DEF Forget, DisconnectAll
  <2>2. /\ screen' = "poll" /\ saved' = NULL
        /\ UNCHANGED <<wakeFile, btSetting, power, crashed, enabled, guardInit, jobs,
                       events, polling>>
    BY <1>forget DEF Forget, Handled
  <2>3. SetBonded(NULL)
    BY <1>forget DEF Forget
  <2> QED BY <2>1, <2>2, <2>3, SetBondedEffect DEF TypeOK
<1>stutter. CASE UNCHANGED vars
  BY <1>stutter DEF vars, TypeOK
<1> QED BY <1>crash, <1>boot, <1>sleep, <1>down, <1>worker, <1>link, <1>event, <1>idle, <1>check, <1>enter, <1>wait, <1>consume, <1>back, <1>noinput, <1>off, <1>on, <1>reconnect, <1>disc, <1>pair, <1>forget, <1>stutter DEF Next, Act

-----------------------------------------------------------------------------
(* The steps by what they do to the job, the guard and the settings *)

\* RAM is lost, the card is kept.
ResetStep ==
    /\ RamLost /\ power # "off" /\ power' = "off"
    /\ UNCHANGED <<guardFile, saved>>
    /\ suspect' = suspect \/ suspect' = (suspect \/ GuardedWork)

\* enable() while the host is off; a suspicious guard disables.
TurnOnStep ==
    /\ ~enabled /\ power' = "on"
    /\ UNCHANGED <<saved, crashed, jobs, tracked, link>>
    /\ \E d \in BOOLEAN :
          /\ TurnOn(d)
          /\ saved # NULL /\ Guarded => d
          /\ d => \/ crashed /\ ~guardInit
                  \/ saved # NULL /\ IF guardInit THEN disabled ELSE guardFile

\* setBondedDevice(saved) alone.
BondStep ==
    /\ power' = "on" /\ (guardInit => power = "on")
    /\ SetBonded(saved)
    /\ UNCHANGED <<saved, crashed, jobs, enabled, guardInit, tracked, link, events>>

\* The upkeep arms, and may start an automatic job.
UpkeepStep ==
    /\ ~job.running /\ guardInit /\ power = "on"
    /\ UNCHANGED <<saved, power, crashed, suspect, enabled, guardInit, disabled>>
    /\ guardFile' => guardFile
    /\ disabled => guardFile' = guardFile
    /\ \/ UNCHANGED jobs
       \/ enabled /\ ~disabled /\ StartJob(TRUE, FALSE)
       \/ StartFails

ForgetStep ==
    /\ ~job.running /\ saved' = NULL
    /\ SetBonded(NULL)
    /\ UNCHANGED <<jobs, power, crashed, enabled, guardInit>>
    /\ ~guardInit => Silent'

\* The guard and what depends on it are left alone.
CalmStep ==
    /\ UNCHANGED <<guardFile, crashed, suspect, disabled, guardInit>>
    /\ power' = power \/ (power' # "off" /\ power # "off")
    /\ power' = "sleeping" => ~job'.running
    /\ enabled' = enabled \/ (~job.running /\ ~enabled')
    /\ saved' = saved \/ (~job.running /\ job.success)
    /\ ~guardInit => Silent'
    /\ \/ UNCHANGED jobs
       \/ ~job.running /\ job' = NoJob /\ UNCHANGED task
       \/ ~job.running /\ enabled' /\ \E p \in BOOLEAN : StartJob(FALSE, p)

\* Disconnecting when nothing is connected changes nothing.
LEMMA DisconnectSilent ==
    ASSUME Silent, TypeOK, NEW R \in SUBSET Remote, Disconnect(R), UNCHANGED events
    PROVE  Silent'
<1>1. tracked' = {}
  BY DEF Disconnect, Silent
<1>2. \A r \in Remote : link'[r] = "down"
  <2>1. link' = [r \in Remote |-> IF r \in {q \in R : link[q] = "up"}
                                  THEN "closing" ELSE link[r]]
    BY DEF Disconnect
  <2> QED BY <2>1 DEF Silent
<1> QED BY <1>1, <1>2 DEF Silent

(* Why the crash guard disables this boot.                                      *)
LEMMA GuardedMeans ==
    Guarded => \/ crashed /\ ~guardInit
               \/ IF guardInit THEN disabled ELSE guardFile
BY DEF Guarded

\* Every step is of one of these kinds, or one of a worker.
LEMMA StepKinds ==
    TypeOK /\ HostInv /\ [Next]_vars =>
        \/ ResetStep \/ TurnOnStep \/ BondStep \/ UpkeepStep \/ ForgetStep
        \/ CalmStep \/ \E w \in Worker : WorkerStep(w)
<1> SUFFICES ASSUME TypeOK, HostInv, [Next]_vars, ~\E w \in Worker : WorkerStep(w)
             PROVE \/ ResetStep \/ TurnOnStep \/ BondStep \/ UpkeepStep
                   \/ ForgetStep \/ CalmStep
  OBVIOUS
<1> USE DEF card, boot, arming, jobs, links, ui, state
<1>crash. ASSUME NEW panic \in BOOLEAN, Crash(panic) PROVE ResetStep
  BY <1>crash DEF Crash, ResetStep
<1>down. ASSUME PowerDown PROVE ResetStep
  BY <1>down DEF PowerDown, ResetStep
<1>boot. ASSUME Boot PROVE TurnOnStep \/ BondStep
  <2>1. ~enabled /\ ~guardInit /\ power' = "on"
        /\ UNCHANGED <<saved, crashed, jobs, tracked, link>>
    BY <1>boot DEF Boot, HostInv
  <2>2. CASE btSetting
    <3> DEFINE d == crashed \/ (guardFile /\ saved # NULL)
    <3>1. TurnOn(d)
      BY <1>boot, <2>2 DEF Boot
    <3>2. /\ d \in BOOLEAN /\ (saved # NULL /\ Guarded => d)
          /\ d => \/ crashed /\ ~guardInit
                  \/ saved # NULL /\ IF guardInit THEN disabled ELSE guardFile
      BY <2>1 DEF Guarded, TypeOK
    <3> HIDE DEF d
    <3> QED BY <2>1, <3>1, <3>2 DEF TurnOnStep
  <2>3. CASE ~btSetting
    BY <1>boot, <2>1, <2>3 DEF Boot, BondStep
  <2> QED BY <2>2, <2>3
<1>sleep. ASSUME EnterDeepSleep PROVE CalmStep
  <2>1. CASE enabled
    <3>1. ~job.running /\ ~enabled' /\ power = "on" /\ guardInit
      BY <1>sleep, <2>1 DEF EnterDeepSleep, Disable, StopHost, HostInv
    <3>2. power' = "sleeping" /\ UNCHANGED <<guardFile, saved, crashed, suspect,
                                             guardInit, disabled, job, task>>
      BY <1>sleep DEF EnterDeepSleep
    <3> QED BY <3>1, <3>2 DEF CalmStep
  <2>2. CASE ~enabled
    BY <1>sleep, <2>2 DEF EnterDeepSleep, CalmStep, HostInv, Silent
  <2> QED BY <2>1, <2>2
<1>link. ASSUME NEW r \in Remote, NEW fresh \in BOOLEAN, LinkDown(r, fresh)
        PROVE CalmStep
  <2>1. guardInit /\ (power = "sleeping" => ~job.running)
    BY <1>link DEF LinkDown, HostInv, Silent
  <2> QED BY <1>link, <2>1 DEF LinkDown, CalmStep
<1>event. ASSUME NEW e \in events, NEW sameName \in BOOLEAN, ProcessEvent(e, sameName)
         PROVE UpkeepStep
  <2>1. guardInit
    BY DEF HostInv, Silent
  <2>2. (guardFile' => guardFile) /\ disabled' = disabled
        /\ (disabled => guardFile' = guardFile)
    <3>1. CASE ~e.suppress /\ (e.dev = bond \/ sameName)
      BY <1>event, <3>1, ArmEffect DEF ProcessEvent, TypeOK
    <3>2. CASE ~(~e.suppress /\ (e.dev = bond \/ sameName))
      BY <1>event, <3>2 DEF ProcessEvent
    <3> QED BY <3>1, <3>2
  <2> QED BY <1>event, <2>1, <2>2 DEF ProcessEvent, UpkeepStep, MainLoop
<1>idle. ASSUME NEW r \in Remote, NEW sameName \in BOOLEAN, IdleDisconnect(r, sameName)
        PROVE UpkeepStep
  <2>1. guardInit
    BY <1>idle DEF IdleDisconnect, HostInv, Silent
  <2>2. (guardFile' => guardFile) /\ disabled' = disabled
        /\ (disabled => guardFile' = guardFile)
    <3>1. CASE r = bond
      BY <1>idle, <3>1 DEF IdleDisconnect, MayArm, TypeOK
    <3>2. CASE r # bond /\ sameName
      BY <1>idle, <3>2, ArmEffect DEF IdleDisconnect, TypeOK
    <3>3. CASE r # bond /\ ~sameName
      BY <1>idle, <3>3 DEF IdleDisconnect
    <3> QED BY <3>1, <3>2, <3>3
  <2> QED BY <1>idle, <2>1, <2>2 DEF IdleDisconnect, UpkeepStep, MainLoop
<1>check. ASSUME NEW start \in Starts, CheckAutoReconnect(start) PROVE UpkeepStep
  <2>1. enabled /\ guardInit
    BY <1>check DEF CheckAutoReconnect, HostInv
  <2>2. (guardFile' => guardFile) /\ disabled' = disabled
        /\ (disabled => guardFile' = guardFile)
    <3>1. CASE tracked # Pruned
      BY <1>check, <3>1, ArmEffect DEF CheckAutoReconnect, TypeOK
    <3>2. CASE ~(tracked # Pruned)
      BY <1>check, <3>2 DEF CheckAutoReconnect
    <3> QED BY <3>1, <3>2
  <2>3. UNCHANGED jobs \/ (~disabled /\ StartJob(TRUE, FALSE)) \/ StartFails
    BY <1>check DEF CheckAutoReconnect, Starts
  <2>4. /\ ~job.running /\ power = "on"
        /\ UNCHANGED <<saved, power, crashed, suspect, enabled, guardInit>>
    BY <1>check DEF CheckAutoReconnect, MainLoop
  <2> QED BY <2>1, <2>2, <2>3, <2>4 DEF UpkeepStep
<1>enter. ASSUME EnterSettings PROVE TurnOnStep \/ BondStep
  <2>1. CASE btSetting /\ ~enabled
    <3>1. TurnOn(saved # NULL /\ Guarded) /\ (saved # NULL /\ Guarded) \in BOOLEAN
      BY <1>enter, <2>1 DEF EnterSettings
    <3>2. power' = "on" /\ UNCHANGED <<saved, crashed, jobs, tracked, link>>
      BY <1>enter DEF EnterSettings
    <3> QED BY <2>1, <3>1, <3>2, GuardedMeans DEF TurnOnStep
  <2>2. CASE ~(btSetting /\ ~enabled)
    BY <1>enter, <2>2 DEF EnterSettings, BondStep
  <2> QED BY <2>1, <2>2
<1>wait. ASSUME PollWait PROVE CalmStep
  BY <1>wait DEF PollWait, CalmStep, HostInv, Silent
<1>consume. ASSUME NEW leave \in BOOLEAN, PollConsume(leave) PROVE CalmStep
  BY <1>consume DEF PollConsume, CalmStep, HostInv, Silent
<1>back. ASSUME Back PROVE CalmStep
  BY <1>back DEF Back, CalmStep, HostInv, Silent
<1>noinput. ASSUME NoInput PROVE CalmStep
  BY <1>noinput DEF NoInput, CalmStep, HostInv, Silent
<1>off. ASSUME ToggleOff PROVE CalmStep
  <2>1. ~job.running /\ guardInit /\ ~enabled'
    BY <1>off DEF ToggleOff, Disable, StopHost, HostInv
  <2> QED BY <1>off, <2>1 DEF ToggleOff, CalmStep
<1>on. ASSUME ToggleOn PROVE TurnOnStep
  <2>1. TurnOn(saved # NULL /\ Guarded) /\ (saved # NULL /\ Guarded) \in BOOLEAN
    BY <1>on DEF ToggleOn
  <2>2. ~enabled /\ power' = "on" /\ UNCHANGED <<saved, crashed, jobs, tracked, link>>
    BY <1>on DEF ToggleOn, Handled, Input
  <2> QED BY <2>1, <2>2, GuardedMeans DEF TurnOnStep
<1>reconnect. ASSUME Reconnect PROVE CalmStep
  <2>1. power = "on" /\ ~job.running /\ guardInit /\ enabled
    BY <1>reconnect DEF Reconnect, Handled, Input, HostInv
  <2> QED BY <1>reconnect, <2>1 DEF Reconnect, CalmStep
<1>disc. ASSUME DisconnectDevices PROVE CalmStep
  <2>1. power = "on" /\ ~job.running /\ guardInit
    BY <1>disc DEF DisconnectDevices, Handled, Input, HostInv
  <2> QED BY <1>disc, <2>1 DEF DisconnectDevices, CalmStep
<1>pair. ASSUME PairNew PROVE CalmStep
  <2>1. power = "on" /\ ~job.running /\ guardInit /\ enabled
    BY <1>pair DEF PairNew, Handled, Input, HostInv
  <2> QED BY <1>pair, <2>1 DEF PairNew, CalmStep
<1>forget. ASSUME Forget PROVE ForgetStep
  <2>1. ~guardInit => Silent'
    BY <1>forget, ConnectedType, DisconnectSilent DEF Forget, HostInv
  <2> QED BY <1>forget, <2>1 DEF Forget, ForgetStep
<1>stutter. ASSUME UNCHANGED vars PROVE CalmStep
  BY <1>stutter DEF vars, CalmStep, HostInv, Silent
<1> QED
  BY <1>crash, <1>boot, <1>sleep, <1>down, <1>link, <1>event, <1>idle, <1>check,
     <1>enter, <1>wait, <1>consume, <1>back, <1>noinput, <1>off, <1>on,
     <1>reconnect, <1>disc, <1>pair, <1>forget, <1>stutter DEF Next, Act

\* A task that another one leaves alone, but for its guard.
Kept(v) ==
    /\ task'[v].at = task[v].at /\ task'[v].automatic = task[v].automatic
    /\ task'[v].pairNew = task[v].pairNew /\ task'[v].target = task[v].target
    /\ task'[v].ok = task[v].ok
    /\ task[v].bare => task'[v].bare

\* What a worker does to its own task, to the others and to the job.
WorkerMoves(w) ==
    /\ \A v \in Worker \ {w} : Kept(v)
    /\ \/ /\ task[w].at \in {"begin", "scan", "connect", "bond"}
          /\ task'[w].at \in {"scan", "connect", "bond", "finish"}
          /\ task'[w].automatic = task[w].automatic
          /\ task'[w].pairNew = task[w].pairNew
          /\ task'[w].at \in {"connect", "bond"} => task'[w].target \in Remote
          /\ task'[w].ok => task[w].ok \/ task[w].at = "bond"
          /\ task'[w].bare = task[w].bare
          /\ job' = job
       \/ /\ task[w].at = "finish" /\ task'[w].at = "tail"
          /\ task'[w].automatic = task[w].automatic
          /\ ~task'[w].ok
          /\ ~job'.running /\ job'.success = task[w].ok
       \/ /\ task[w].at = "tail" /\ task'[w] = NoTask
          /\ task[w].automatic =>
                \A v \in Worker \ {w} : PastGuard(v) => task'[v].bare
          /\ job' = job

(* A worker that goes on, by what it does to job, guard and settings.           *)
LEMMA WorkerMove ==
    ASSUME TypeOK, TargetKnown, NEW w \in Worker, WorkerStep(w)
    PROVE  WorkerMoves(w)
<1> USE DEF jobs, Kept
<1>0. task[w] \in WorkerState /\ DOMAIN task = Worker
  BY DEF TypeOK
<1>step. ASSUME NEW at \in {"scan", "finish", "bond"}, Step(w, at)
        PROVE  /\ \A v \in Worker \ {w} : task'[v] = task[v]
               /\ task'[w].bare = task[w].bare
               /\ task'[w].at = at
               /\ task'[w].automatic = task[w].automatic
               /\ task'[w].pairNew = task[w].pairNew
               /\ task'[w].target = task[w].target
               /\ task'[w].ok = task[w].ok
  <2>1. /\ task'[w] = [task[w] EXCEPT !.at = at]
        /\ \A v \in Worker \ {w} : task'[v] = task[v]
    BY <1>step, StepEffect
  <2> QED BY <1>0, <2>1 DEF WorkerState
<1>begin. CASE Begin(w)
  BY <1>0, <1>begin, <1>step DEF Begin, WorkerMoves
<1>finds. CASE \E r \in Remote : ScanFinds(w, r)
  <2>1. PICK r \in Remote : ScanFinds(w, r)
    BY <1>finds
  <2>2. /\ task'[w] = [task[w] EXCEPT !.at = "connect", !.target = r]
        /\ \A v \in Worker \ {w} : task'[v] = task[v]
    BY <1>0, <2>1 DEF ScanFinds
  <2> QED BY <1>0, <2>1, <2>2 DEF ScanFinds, WorkerMoves, WorkerState
<1>fails. CASE ScanFails(w)
  BY <1>0, <1>fails, <1>step DEF ScanFails, WorkerMoves
<1>connect. CASE Connect(w)
  <2>1. task[w].at = "connect" /\ Step(w, "bond") /\ job' = job
    BY <1>connect DEF Connect
  <2>2. task[w].target \in Remote
    BY <2>1 DEF TargetKnown
  <2>3. /\ \A v \in Worker \ {w} : task'[v] = task[v]
        /\ task'[w].at = "bond" /\ task'[w].automatic = task[w].automatic
        /\ task'[w].pairNew = task[w].pairNew /\ task'[w].target = task[w].target
        /\ task'[w].ok = task[w].ok /\ task'[w].bare = task[w].bare
    BY <1>step, <2>1
  <2> QED BY <2>1, <2>2, <2>3 DEF WorkerMoves
<1>cfails. CASE ConnectFails(w)
  BY <1>0, <1>cfails, <1>step DEF ConnectFails, WorkerMoves
<1>bond. CASE Bond(w)
  <2>1. /\ task'[w] = [task[w] EXCEPT !.at = "finish", !.ok = TRUE]
        /\ \A v \in Worker \ {w} : task'[v] = task[v]
    BY <1>0, <1>bond DEF Bond
  <2> QED BY <1>0, <1>bond, <2>1 DEF Bond, WorkerMoves, WorkerState
<1>finish. CASE Finish(w)
  <2>1. /\ task'[w] = Ending(w)
        /\ \A v \in Worker \ {w} : task'[v] = task[v]
    BY <1>0, <1>finish DEF Finish
  <2>2. task[w].at = "finish" /\ ~job'.running /\ job'.success = task[w].ok
    BY <1>finish DEF Finish
  <2>3. /\ task'[w].at = "tail" /\ task'[w].automatic = task[w].automatic
        /\ ~task'[w].ok
    BY <2>1, EndingEffect
  <2> QED BY <2>1, <2>2, <2>3 DEF WorkerMoves
<1>tail. CASE Tail(w)
  <2>1. ASSUME NEW v \in Worker \ {w}
        PROVE  Kept(v) /\ (task[w].automatic /\ PastGuard(v) => task'[v].bare)
    <3>1. task[v] \in WorkerState
      BY DEF TypeOK
    <3>2. task'[v] = [task[v] EXCEPT !.bare = @ \/ (task[w].automatic /\ PastGuard(v))]
      BY <1>tail DEF Tail
    <3> QED BY <3>1, <3>2 DEF WorkerState
  <2>2. task[w].at = "tail" /\ task'[w] = NoTask /\ job' = job
    BY <1>tail DEF Tail
  <2> QED BY <2>1, <2>2 DEF WorkerMoves
<1> QED BY <1>begin, <1>finds, <1>fails, <1>connect, <1>cfails, <1>bond, <1>finish,
           <1>tail, WorkerStep(w) DEF WorkerStep

\* What a worker does to the rest: the guard is written as automatic work
\* begins, and removed at its end or by manual work only.
WorkerLeaves(w) ==
    /\ UNCHANGED <<saved, power, crashed, enabled, guardInit>>
    /\ suspect' => suspect
    /\ suspect' /\ task[w].at = "bond" => task[w].automatic
    /\ disabled' => disabled
    /\ guardFile' => guardFile \/ task[w].automatic
    /\ task[w].at = "begin" /\ task[w].automatic => guardFile'
    /\ guardFile /\ ~guardFile' =>
           IF task[w].at = "tail" THEN task[w].automatic
           ELSE ~task[w].automatic /\ (~disabled \/ ~suspect') /\ ~disabled'
    /\ disabled /\ ~disabled' => ~suspect' /\ ~guardFile'
    /\ ~guardInit => Silent'

(* A worker that ends, likewise.                                                *)
LEMMA WorkerLeave ==
    ASSUME TypeOK, HostInv, JobHasOneWorker, NEW w \in Worker, WorkerStep(w)
    PROVE  WorkerLeaves(w)
<1> USE DEF card, boot, arming, jobs, links, ui
<1>0. /\ suspect \in BOOLEAN /\ disabled \in BOOLEAN /\ guardFile \in BOOLEAN
      /\ task[w].automatic \in BOOLEAN
  BY DEF TypeOK, WorkerState
<1>1. Working(w) => guardInit /\ job.running /\ job.automatic = task[w].automatic
  BY DEF JobHasOneWorker, HostInv
<1>2. ~guardInit => Silent
  BY DEF HostInv
<1>begin. CASE Begin(w)
  BY <1>0, <1>1, <1>begin DEF Begin, WorkerLeaves, Working
<1>finds. CASE \E r \in Remote : ScanFinds(w, r)
  BY <1>0, <1>1, <1>finds DEF ScanFinds, WorkerLeaves, Working
<1>fails. CASE ScanFails(w)
  BY <1>0, <1>1, <1>fails DEF ScanFails, WorkerLeaves, Working
<1>connect. CASE Connect(w)
  <2>1. guardInit /\ job.running /\ job.automatic = task[w].automatic
    BY <1>1, <1>connect DEF Connect, Working
  <2>2. /\ guardFile' => guardFile
        /\ guardFile /\ ~guardFile' => ~task[w].automatic /\ ~disabled
        /\ disabled' = disabled
    <3>1. CASE task[w].target = bond
      BY <1>0, <1>connect, <2>1, <3>1, ArmEffect DEF Connect
    <3>2. CASE task[w].target # bond
      BY <1>connect, <3>2 DEF Connect
    <3> QED BY <3>1, <3>2
  <2>3. /\ task[w].at = "connect"
        /\ UNCHANGED <<saved, power, crashed, enabled, guardInit, suspect>>
    BY <1>connect DEF Connect
  <2> QED BY <2>1, <2>2, <2>3 DEF WorkerLeaves
<1>cfails. CASE ConnectFails(w)
  BY <1>0, <1>1, <1>cfails DEF ConnectFails, WorkerLeaves, Working
<1>bond. CASE Bond(w)
  <2>1. guardInit /\ job.running /\ job.automatic = task[w].automatic
    BY <1>1, <1>bond DEF Bond, Working
  <2>2. Arm(bond', ~task[w].automatic) /\ suspect' = (suspect /\ task[w].automatic)
    BY <1>bond DEF Bond
  <2>3. (~task[w].automatic) \in BOOLEAN
    OBVIOUS
  <2>4. /\ guardFile' => guardFile
        /\ guardFile /\ ~guardFile' => ~task[w].automatic
        /\ disabled' => disabled
        /\ disabled /\ ~disabled' => ~task[w].automatic /\ ~guardFile'
        /\ guardFile /\ ~guardFile' => ~disabled'
    BY <1>0, <2>1, <2>2, <2>3, ArmEffect
  <2>5. task[w].at = "bond" /\ UNCHANGED <<saved, power, crashed, enabled, guardInit>>
    BY <1>bond DEF Bond
  <2> QED BY <1>0, <2>1, <2>2, <2>4, <2>5 DEF WorkerLeaves
<1>finish. CASE Finish(w)
  BY <1>0, <1>1, <1>finish DEF Finish, WorkerLeaves, Working
<1>tail. CASE Tail(w)
  BY <1>0, <1>2, <1>tail DEF Tail, WorkerLeaves, Silent
<1> QED BY <1>begin, <1>finds, <1>fails, <1>connect, <1>cfails, <1>bond, <1>finish,
           <1>tail, WorkerStep(w) DEF WorkerStep

-----------------------------------------------------------------------------
(* The invariant is kept *)

\* What all kinds but that of a worker do to the job and the tasks.
JobSteps ==
    \/ job' = NoJob /\ task' = [w \in Worker |-> NoTask]
    \/ UNCHANGED <<job, task>>
    \/ ~job.running /\ ~job'.running /\ task' = task
    \/ ~job.running /\ StartJob(TRUE, FALSE)
    \/ ~job.running /\ \E p \in BOOLEAN : StartJob(FALSE, p)

(* Each kind of step, by what it does to the jobs.                              *)
LEMMA KindJobs ==
    ASSUME \/ ResetStep \/ TurnOnStep \/ BondStep \/ UpkeepStep \/ ForgetStep
           \/ CalmStep
    PROVE  JobSteps
<1> USE DEF jobs, JobSteps
<1>1. CASE ResetStep
  BY <1>1 DEF ResetStep, RamLost
<1>2. CASE TurnOnStep
  BY <1>2 DEF TurnOnStep
<1>3. CASE BondStep
  BY <1>3 DEF BondStep
<1>4. CASE UpkeepStep
  BY <1>4, StartFailsEffect DEF UpkeepStep
<1>5. CASE ForgetStep
  BY <1>5 DEF ForgetStep
<1>6. CASE CalmStep
  <2>1. ~NoJob.running
    BY DEF NoJob
  <2> QED BY <1>6, <2>1, Zenon DEF CalmStep
<1> QED BY <1>1, <1>2, <1>3, <1>4, <1>5, <1>6

\* One worker at a time: a job starts when none runs, on a task of its own,
\* and the flags go with the worker that publishes.
LEMMA NextTask ==
    IInv /\ [Next]_vars => TargetKnown' /\ JobHasOneWorker'
<1> SUFFICES ASSUME IInv, [Next]_vars PROVE TargetKnown' /\ JobHasOneWorker'
  OBVIOUS
<1>0. TypeOK /\ TargetKnown /\ HostInv /\ JobHasOneWorker
  BY DEF IInv
<1>1. ASSUME NEW w \in Worker, WorkerStep(w)
      PROVE  TargetKnown' /\ JobHasOneWorker'
  <2>1. WorkerMoves(w)
    BY <1>0, <1>1, WorkerMove
  <2>2. NoTask.at = "none"
    BY DEF NoTask
  <2>3. TargetKnown'
    BY <1>0, <2>1, <2>2 DEF WorkerMoves, Kept, TargetKnown
  <2>4. JobHasOneWorker'
    BY <1>0, <2>1, <2>2 DEF WorkerMoves, Kept, JobHasOneWorker, Working
  <2> QED BY <2>3, <2>4
<1>2. ASSUME ~\E w \in Worker : WorkerStep(w)
      PROVE  TargetKnown' /\ JobHasOneWorker'
  <2>0. JobSteps
    BY <1>0, <1>2, StepKinds, KindJobs
  <2>1. CASE job' = NoJob /\ task' = [w \in Worker |-> NoTask]
    BY <2>1 DEF NoJob, NoTask, TargetKnown, JobHasOneWorker, Working
  <2>2. CASE UNCHANGED <<job, task>>
    BY <1>0, <2>2 DEF TargetKnown, JobHasOneWorker, Working
  <2>3. CASE ~job.running /\ ~job'.running /\ task' = task
    BY <1>0, <2>3 DEF TargetKnown, JobHasOneWorker, Working
  <2>4. ASSUME NEW a \in BOOLEAN, NEW p \in BOOLEAN, ~job.running, StartJob(a, p)
        PROVE  TargetKnown' /\ JobHasOneWorker'
    <3>1. /\ job'.running /\ job'.automatic = a /\ job'.pairNew = p
          /\ \E w \in Worker : /\ task[w] = NoTask
                               /\ task'[w].at = "begin" /\ task'[w].automatic = a
                               /\ task'[w].pairNew = p
                               /\ \A v \in Worker \ {w} : task'[v] = task[v]
      BY <1>0, <2>4, StartJobEffect
    <3>2. PICK w \in Worker : /\ task[w] = NoTask
                              /\ task'[w].at = "begin" /\ task'[w].automatic = a
                              /\ task'[w].pairNew = p
                              /\ \A v \in Worker \ {w} : task'[v] = task[v]
      BY <3>1
    <3>3. \A v \in Worker : ~Working(v)
      BY <1>0, <2>4 DEF JobHasOneWorker
    <3>4. TargetKnown'
      BY <1>0, <3>2 DEF TargetKnown
    <3>5. JobHasOneWorker'
      BY <3>1, <3>2, <3>3 DEF JobHasOneWorker, Working
    <3> QED BY <3>4, <3>5
  <2> QED BY <2>0, <2>1, <2>2, <2>3, <2>4 DEF JobSteps
<1> QED BY <1>1, <1>2

\* The host stays up under a job, and has not been up before the guard is read.
LEMMA NextHost == IInv /\ [Next]_vars => HostInv'
<1> SUFFICES ASSUME IInv, [Next]_vars PROVE HostInv'
  OBVIOUS
<1>0. TypeOK /\ TargetKnown /\ HostInv /\ JobHasOneWorker
  BY DEF IInv
<1>1. ASSUME NEW w \in Worker, WorkerStep(w) PROVE HostInv'
  <2>1. WorkerMoves(w) /\ WorkerLeaves(w)
    BY <1>0, <1>1, WorkerMove, WorkerLeave
  <2> QED BY <1>0, <2>1 DEF WorkerMoves, WorkerLeaves, HostInv
<1>2. CASE ResetStep
  BY <1>2 DEF ResetStep, RamLost, NoJob, HostInv, Silent
<1>3. CASE TurnOnStep
  <2>1. enabled' = TRUE /\ guardInit' = TRUE
    BY <1>0, <1>3, TurnOnEffect DEF TurnOnStep
  <2>2. power' = "on"
    BY <1>3 DEF TurnOnStep
  <2> QED BY <2>1, <2>2 DEF HostInv
<1>4. CASE BondStep
  <2>1. /\ UNCHANGED <<job, enabled, guardInit, tracked, link, events>>
        /\ power' = "on"
    BY <1>4 DEF BondStep, jobs
  <2> QED BY <1>0, <2>1 DEF HostInv, Silent
<1>5. CASE UpkeepStep
  <2>1. guardInit /\ power = "on" /\ UNCHANGED <<power, enabled, guardInit>>
    BY <1>5 DEF UpkeepStep
  <2>2. job' = job \/ ~job'.running \/ enabled
    BY <1>5, StartFailsEffect DEF UpkeepStep, jobs
  <2> QED BY <1>0, <2>1, <2>2 DEF HostInv
<1>6. CASE ForgetStep
  BY <1>0, <1>6 DEF ForgetStep, HostInv, jobs
<1>7. CASE CalmStep
  <2>1. job' = job \/ ~job'.running \/ enabled'
    <3>1. CASE UNCHANGED jobs
      BY <3>1 DEF jobs
    <3>2. CASE job' = NoJob
      BY <3>2 DEF NoJob
    <3> QED BY <1>7, <3>1, <3>2, Zenon DEF CalmStep
  <2>2. job'.running => enabled'
    BY <1>0, <1>7, <2>1 DEF CalmStep, HostInv
  <2>3. enabled' => guardInit'
    BY <1>0, <1>7 DEF CalmStep, HostInv
  <2>4. guardInit' => power' # "off"
    BY <1>0, <1>7 DEF CalmStep, HostInv
  <2>5. (~guardInit' => Silent') /\ (power' = "sleeping" => ~job'.running)
    BY <1>7 DEF CalmStep
  <2> QED BY <2>2, <2>3, <2>4, <2>5 DEF HostInv
<1> QED BY <1>0, <1>1, <1>2, <1>3, <1>4, <1>5, <1>6, <1>7, StepKinds

\* The guard stays under automatic work: who may remove it arms for manual
\* work, waits for the end of the job, forgets the remote, or is the end of an
\* earlier worker, and leaves the work bare.
LEMMA NextCovered == IInv /\ [Next]_vars => GuardCoversWork'
<1> SUFFICES ASSUME IInv, [Next]_vars, GuardedWork', saved' # NULL
             PROVE  guardFile'
  BY DEF GuardCoversWork
<1>0. /\ TypeOK /\ TargetKnown /\ HostInv /\ JobHasOneWorker
      /\ GuardCoversWork
  BY DEF IInv
<1>1. PICK v \in Worker : /\ task'[v].automatic /\ ~task'[v].bare
                          /\ task'[v].at \in {"scan", "connect", "bond", "finish"}
  BY DEF GuardedWork, PastGuard
<1>2. ASSUME NEW w \in Worker, WorkerStep(w) PROVE guardFile'
  <2>1. WorkerMoves(w) /\ WorkerLeaves(w)
    BY <1>0, <1>2, WorkerMove, WorkerLeave
  <2>2. saved # NULL
    BY <2>1 DEF WorkerLeaves
  <2>3. CASE v = w
    <3>1. task[w].automatic /\ task[w].at \in {"begin", "scan", "connect", "bond"}
      BY <1>1, <2>1, <2>3 DEF WorkerMoves, NoTask
    <3>2. CASE task[w].at = "begin"
      BY <2>1, <3>1, <3>2 DEF WorkerLeaves
    <3>3. CASE task[w].at # "begin"
      <4>1. ~task[w].bare
        BY <1>1, <2>1, <2>3 DEF WorkerMoves, NoTask
      <4>2. guardFile
        BY <1>0, <2>2, <3>1, <3>3, <4>1 DEF GuardCoversWork, GuardedWork, PastGuard
      <4> QED BY <2>1, <3>1, <4>2 DEF WorkerLeaves
    <3> QED BY <3>2, <3>3
  <2>4. CASE v # w
    <3>1. PastGuard(v) /\ ~task[v].bare
      <4>1. Kept(v)
        BY <2>1, <2>4 DEF WorkerMoves
      <4> QED BY <1>1, <4>1 DEF Kept, PastGuard
    <3>2. guardFile
      BY <1>0, <2>2, <3>1 DEF GuardCoversWork, GuardedWork
    <3>3. ~Working(w)
      BY <1>0, <2>4, <3>1 DEF JobHasOneWorker, Working, PastGuard
    <3>4. task[w].at = "tail" /\ ~task[w].automatic
      BY <1>1, <2>1, <2>4, <3>1, <3>3 DEF WorkerMoves, Working
    <3> QED BY <2>1, <3>2, <3>4 DEF WorkerLeaves
  <2> QED BY <2>3, <2>4
<1>3. ASSUME ~\E w \in Worker : WorkerStep(w) PROVE guardFile'
  <2>0. \/ ResetStep \/ TurnOnStep \/ BondStep \/ UpkeepStep \/ ForgetStep
        \/ CalmStep
    BY <1>0, <1>3, StepKinds
  <2>1. /\ task[v].automatic /\ task[v].at \in {"scan", "connect", "bond", "finish"}
        /\ ~task[v].bare
        /\ task' # [w \in Worker |-> NoTask]
    <3>1. JobSteps
      BY <2>0, KindJobs
    <3>2. task' # [w \in Worker |-> NoTask]
      BY <1>1 DEF NoTask
    <3>3. ASSUME NEW a \in BOOLEAN, NEW p \in BOOLEAN, StartJob(a, p)
          PROVE  task'[v] = task[v]
      <4>1. \E w \in Worker : /\ task'[w].at = "begin"
                              /\ \A u \in Worker \ {w} : task'[u] = task[u]
        BY <1>0, <3>3, StartJobEffect
      <4> QED BY <1>1, <4>1
    <3> QED BY <1>1, <3>1, <3>2, <3>3 DEF JobSteps
  <2>2. job.running /\ job.automatic /\ enabled /\ guardInit /\ power # "off"
    BY <1>0, <2>1 DEF JobHasOneWorker, Working, HostInv
  <2>3. ~ResetStep /\ ~TurnOnStep /\ ~UpkeepStep /\ ~ForgetStep
    BY <2>1, <2>2 DEF ResetStep, RamLost, TurnOnStep, UpkeepStep, ForgetStep
  <2>4. saved' = saved
    <3>1. CASE BondStep
      BY <3>1 DEF BondStep
    <3>2. CASE CalmStep
      BY <2>2, <3>2 DEF CalmStep
    <3> QED BY <2>0, <2>3, <3>1, <3>2
  <2>5. saved # NULL /\ guardFile
    BY <1>0, <2>1, <2>4 DEF GuardCoversWork, GuardedWork, PastGuard
  <2>6. CASE BondStep
    <3>1. SetBonded(saved) /\ saved \in Remote \cup {NULL}
      BY <1>0, <2>6 DEF BondStep, TypeOK
    <3> QED BY <1>0, <2>2, <2>5, <3>1, SetBondedEffect
  <2>7. CASE CalmStep
    BY <2>5, <2>7 DEF CalmStep
  <2> QED BY <2>0, <2>3, <2>6, <2>7
<1> QED BY <1>2, <1>3

\* A step that is not a worker's, nor a reset, ends no automatic task.
LEMMA AutomaticStays ==
    ASSUME TypeOK, JobSteps, task' # [w \in Worker |-> NoTask],
           NEW v \in Worker, task[v].automatic
    PROVE  task'[v].automatic
<1>1. ASSUME NEW a \in BOOLEAN, NEW p \in BOOLEAN, StartJob(a, p)
      PROVE  task'[v] = task[v]
  <2>1. \E w \in Worker : /\ task[w] = NoTask
                          /\ \A u \in Worker \ {w} : task'[u] = task[u]
    BY <1>1, StartJobEffect
  <2>2. task[v] # NoTask
    BY DEF NoTask
  <2> QED BY <2>1, <2>2
<1> QED BY <1>1 DEF JobSteps

\* A boot that is disabled, or has not read the guard, starts nothing by itself.
LEMMA NextAuto == IInv /\ [Next]_vars => AutoInv'
<1> SUFFICES ASSUME IInv, [Next]_vars, ~guardInit' \/ disabled',
                    NEW v \in Worker, task'[v].automatic
             PROVE  FALSE
  BY DEF AutoInv
<1>0. /\ TypeOK /\ TargetKnown /\ HostInv /\ JobHasOneWorker
      /\ saved \in Remote \cup {NULL}
  BY DEF IInv, TypeOK
<1>1. ASSUME ~guardInit \/ disabled PROVE ~task[v].automatic
  BY <1>1 DEF IInv, AutoInv
<1>2. ASSUME NEW w \in Worker, WorkerStep(w) PROVE FALSE
  <2>1. WorkerMoves(w) /\ WorkerLeaves(w)
    BY <1>0, <1>2, WorkerMove, WorkerLeave
  <2>2. ~guardInit \/ disabled
    BY <2>1 DEF WorkerLeaves
  <2>3. task[v].automatic
    BY <2>1 DEF WorkerMoves, Kept, NoTask
  <2> QED BY <1>1, <2>2, <2>3
<1>3. CASE ResetStep
  BY <1>3 DEF ResetStep, RamLost, NoTask
<1>4. CASE TurnOnStep
  <2>1. PICK d \in BOOLEAN :
            /\ TurnOn(d)
            /\ d => \/ crashed /\ ~guardInit
                    \/ saved # NULL /\ IF guardInit THEN disabled ELSE guardFile
    BY <1>4 DEF TurnOnStep
  <2>2. guardInit' /\ disabled' = d
    BY <1>0, <2>1, TurnOnEffect
  <2>3. ~guardInit \/ disabled
    BY <2>1, <2>2
  <2> QED BY <1>1, <1>4, <2>3 DEF TurnOnStep, jobs
<1>5. CASE BondStep
  <2>1. SetBonded(saved) /\ guardInit' = guardInit /\ task' = task
    BY <1>5 DEF BondStep, jobs
  <2>2. disabled' => disabled
    BY <1>0, <2>1, SetBondedEffect
  <2> QED BY <1>1, <2>1, <2>2
<1>6. CASE UpkeepStep
  <2>1. guardInit /\ disabled /\ (task' = task)
    BY <1>6, StartFailsEffect DEF UpkeepStep, jobs
  <2> QED BY <1>1, <2>1
<1>7. CASE ForgetStep
  <2>1. SetBonded(NULL) /\ guardInit' = guardInit /\ task' = task
    BY <1>7 DEF ForgetStep, jobs
  <2>2. disabled' => disabled
    BY <1>0, <2>1, SetBondedEffect
  <2> QED BY <1>1, <2>1, <2>2
<1>8. CASE CalmStep
  <2>1. ~guardInit \/ disabled
    BY <1>8 DEF CalmStep
  <2>2. task[v].automatic
    <3>1. CASE task' = task
      BY <3>1
    <3>2. ASSUME NEW p \in BOOLEAN, StartJob(FALSE, p) PROVE task[v].automatic
      <4>1. \E w \in Worker : /\ ~task'[w].automatic
                              /\ \A u \in Worker \ {w} : task'[u] = task[u]
        BY <1>0, <3>2, StartJobEffect
      <4> QED BY <4>1
    <3> QED BY <1>8, <3>1, <3>2, Zenon DEF CalmStep, jobs
  <2> QED BY <1>1, <2>1, <2>2
<1> QED BY <1>0, <1>2, <1>3, <1>4, <1>5, <1>6, <1>7, <1>8, StepKinds

\* What is recorded of a guard that stays when its task is cut off.
LEMMA LeftStep ==
    ASSUME IInv, [Next]_vars
    PROVE  /\ left' => guardFile'
           /\ left /\ guardFile' => left'
           /\ power # "off" /\ power' = "off" /\ guardFile'
              /\ (\E w \in Worker : task[w].automatic) => left'
<1>1. left \in BOOLEAN /\ (left => guardFile)
  BY DEF IInv, TypeOK, LeftInv
<1>2. CASE Next
  <2>1. left' = ((left \/ CutOff) /\ guardFile')
    BY <1>2 DEF Next
  <2>2. power # "off" => power = "on" \/ \A w \in Worker : ~Working(w)
    BY DEF IInv, TypeOK, HostInv, JobHasOneWorker
  <2> QED BY <1>1, <2>1, <2>2 DEF CutOff
<1>3. CASE UNCHANGED vars
  <2>1. left' = left /\ guardFile' = guardFile /\ power' = power
    BY <1>3 DEF vars, state, card, boot
  <2> QED BY <1>1, <2>1
<1> QED BY <1>2, <1>3

\* The guard goes with the automatic task that has written it, or a reset has
\* cut that off.
LEMMA NextHeld ==
    IInv /\ [Next]_vars => (guardFile' => left' \/ \E v \in Worker : task'[v].automatic)
<1> SUFFICES ASSUME IInv, [Next]_vars, guardFile', ~left'
             PROVE  \E v \in Worker : task'[v].automatic
  OBVIOUS
<1>0. /\ TypeOK /\ TargetKnown /\ HostInv /\ JobHasOneWorker
      /\ saved \in Remote \cup {NULL}
  BY DEF IInv, TypeOK
<1>1. ~left
  BY LeftStep
<1>2. guardFile => \E v \in Worker : task[v].automatic
  BY <1>1 DEF IInv, GuardMatchesWork
<1>3. ASSUME NEW w \in Worker, WorkerStep(w)
      PROVE  \E v \in Worker : task'[v].automatic
  <2>1. WorkerMoves(w) /\ WorkerLeaves(w)
    BY <1>0, <1>3, WorkerMove, WorkerLeave
  <2>2. CASE task[w].at = "tail"
    <3>1. guardFile /\ ~task[w].automatic
      BY <1>3, <2>2 DEF WorkerStep, Tail, Begin, ScanFails, Connect, ConnectFails,
         Bond, Finish, ScanFinds
    <3>2. PICK v \in Worker : task[v].automatic
      BY <1>2, <3>1
    <3>3. task'[v].automatic
      BY <2>1, <3>1, <3>2 DEF WorkerMoves, Kept
    <3> QED BY <3>3
  <2>3. CASE task[w].at # "tail"
    <3>1. PICK v \in Worker : task[v].automatic
      BY <1>2, <2>1 DEF WorkerLeaves
    <3>2. task'[v].automatic
      BY <2>1, <2>3, <3>1 DEF WorkerMoves, Kept
    <3> QED BY <3>2
  <2> QED BY <2>2, <2>3
<1>4. ASSUME ~\E w \in Worker : WorkerStep(w)
      PROVE  \E v \in Worker : task'[v].automatic
  <2>0. \/ ResetStep \/ TurnOnStep \/ BondStep \/ UpkeepStep \/ ForgetStep
        \/ CalmStep
    BY <1>0, <1>4, StepKinds
  <2>1. guardFile
    <3>1. CASE ResetStep
      BY <3>1 DEF ResetStep
    <3>2. CASE TurnOnStep
      BY <1>0, <3>2, TurnOnEffect DEF TurnOnStep
    <3>3. CASE BondStep
      BY <1>0, <3>3, SetBondedEffect DEF BondStep
    <3>4. CASE UpkeepStep
      BY <3>4 DEF UpkeepStep
    <3>5. CASE ForgetStep
      BY <1>0, <3>5, SetBondedEffect DEF ForgetStep
    <3>6. CASE CalmStep
      BY <3>6 DEF CalmStep
    <3> QED BY <2>0, <3>1, <3>2, <3>3, <3>4, <3>5, <3>6
  <2>2. PICK v \in Worker : task[v].automatic
    BY <1>2, <2>1
  <2>3. ~ResetStep
    BY <2>2, LeftStep DEF ResetStep
  <2>4. task' # [w \in Worker |-> NoTask]
    <3>1. CASE task' = task
      BY <2>2, <3>1 DEF NoTask
    <3>2. CASE task' # task
      <4>1. UpkeepStep \/ CalmStep
        BY <2>0, <2>3, <3>2 DEF TurnOnStep, BondStep, ForgetStep, jobs
      <4>2. \E a, p \in BOOLEAN : StartJob(a, p)
        BY <3>2, <4>1, StartFailsEffect DEF UpkeepStep, CalmStep, jobs
      <4>3. \E w \in Worker : task'[w].at = "begin"
        BY <1>0, <4>2, StartJobEffect
      <4> QED BY <4>3 DEF NoTask
    <3> QED BY <3>1, <3>2
  <2>5. JobSteps
    BY <2>0, KindJobs
  <2> QED BY <1>0, <2>2, <2>4, <2>5, AutomaticStays
<1> QED BY <1>3, <1>4

\* A boot is disabled because it followed a crash, or found a guard that was
\* left behind; who removes that one enables the boot.
LEMMA NextDisabled == IInv /\ [Next]_vars => (disabled' => crashed' \/ left')
<1> SUFFICES ASSUME IInv, [Next]_vars, disabled' PROVE crashed' \/ left'
  OBVIOUS
<1>0. /\ TypeOK /\ TargetKnown /\ HostInv /\ JobHasOneWorker
      /\ saved \in Remote \cup {NULL} /\ disabled \in BOOLEAN
      /\ disabled => crashed \/ (left /\ guardFile)
  BY DEF IInv, TypeOK, GuardMatchesWork, LeftInv
<1>1. left /\ guardFile' => left'
  BY LeftStep
<1>2. ASSUME NEW w \in Worker, WorkerStep(w) PROVE crashed' \/ left'
  <2>1. WorkerMoves(w) /\ WorkerLeaves(w)
    BY <1>0, <1>2, WorkerMove, WorkerLeave
  <2>2. disabled /\ crashed' = crashed
    BY <2>1 DEF WorkerLeaves
  <2>3. ~task[w].automatic
    BY <2>2 DEF IInv, AutoInv
  <2>4. guardFile => guardFile'
    BY <2>1, <2>3 DEF WorkerLeaves
  <2> QED BY <1>0, <1>1, <2>2, <2>4
<1>3. CASE ResetStep
  BY <1>3 DEF ResetStep, RamLost
<1>4. CASE TurnOnStep
  <2>1. PICK d \in BOOLEAN :
            /\ TurnOn(d)
            /\ d => \/ crashed /\ ~guardInit
                    \/ saved # NULL /\ IF guardInit THEN disabled ELSE guardFile
    BY <1>4 DEF TurnOnStep
  <2>2. d /\ crashed' = crashed
    BY <1>0, <1>4, <2>1, TurnOnEffect DEF TurnOnStep
  <2>3. CASE saved # NULL /\ ~crashed
    <3>1. left /\ guardFile
      <4>1. CASE guardInit
        BY <1>0, <2>1, <2>2, <2>3, <4>1
      <4>2. CASE ~guardInit
        <5>1. guardFile /\ \A w \in Worker : ~task[w].automatic
          BY <2>1, <2>2, <2>3, <4>2 DEF IInv, AutoInv
        <5> QED BY <5>1 DEF IInv, GuardMatchesWork
      <4> QED BY <4>1, <4>2
    <3>2. guardFile'
      BY <1>0, <2>1, <2>2, <2>3, <3>1, TurnOnEffect
    <3> QED BY <1>1, <3>1, <3>2
  <2> QED BY <2>1, <2>2, <2>3
<1>5. CASE BondStep
  <2>1. SetBonded(saved) /\ crashed' = crashed
    BY <1>5 DEF BondStep
  <2>2. disabled /\ (guardFile => guardFile')
    BY <1>0, <2>1, SetBondedEffect
  <2> QED BY <1>0, <1>1, <2>1, <2>2
<1>6. CASE UpkeepStep
  <2>1. disabled /\ crashed' = crashed /\ guardFile' = guardFile
    BY <1>6 DEF UpkeepStep
  <2> QED BY <1>0, <1>1, <2>1
<1>7. CASE ForgetStep
  BY <1>0, <1>7, SetBondedEffect DEF ForgetStep
<1>8. CASE CalmStep
  <2>1. disabled /\ crashed' = crashed /\ guardFile' = guardFile
    BY <1>8 DEF CalmStep
  <2> QED BY <1>0, <1>1, <2>1
<1> QED BY <1>0, <1>2, <1>3, <1>4, <1>5, <1>6, <1>7, <1>8, StepKinds

\* After a reset in automatic work the guard lasts, and it disables each boot.
LEMMA NextSuspect == IInv /\ [Next]_vars => SuspectInv'
<1> SUFFICES ASSUME IInv, [Next]_vars, suspect'
             PROVE  /\ saved' # NULL => guardFile'
                    /\ power' # "off" => saved' # NULL
                    /\ guardInit' => disabled'
                    /\ ~job'.success
                    /\ \A w \in Worker : ~task'[w].automatic /\ ~task'[w].ok
  BY DEF SuspectInv
<1>0. /\ TypeOK /\ TargetKnown /\ HostInv /\ JobHasOneWorker
      /\ saved \in Remote \cup {NULL}
      /\ GuardCoversWork
  BY DEF IInv, TypeOK
<1>1. suspect =>
          /\ saved # NULL => guardFile
          /\ power # "off" => saved # NULL
          /\ guardInit => disabled
          /\ ~job.success
          /\ \A w \in Worker : ~task[w].automatic /\ ~task[w].ok
  BY DEF IInv, SuspectInv
<1>2. CASE ResetStep
  <2>1. saved # NULL => guardFile
    <3>1. CASE suspect
      BY <1>1, <3>1
    <3>2. CASE ~suspect
      BY <1>0, <1>2, <3>2 DEF ResetStep, GuardCoversWork
    <3> QED BY <3>1, <3>2
  <2> QED BY <1>2, <2>1 DEF ResetStep, RamLost, NoJob, NoTask
<1>3. ASSUME NEW w \in Worker, WorkerStep(w), suspect
      PROVE  /\ saved' # NULL => guardFile'
             /\ power' # "off" => saved' # NULL
             /\ guardInit' => disabled'
             /\ ~job'.success
             /\ \A v \in Worker : ~task'[v].automatic /\ ~task'[v].ok
  <2>1. WorkerMoves(w) /\ WorkerLeaves(w)
    BY <1>0, <1>3, WorkerMove, WorkerLeave
  <2>2. ~task[w].automatic /\ ~task[w].ok /\ task[w].at # "bond"
    BY <1>1, <1>3, <2>1 DEF WorkerLeaves
  <2>3. UNCHANGED <<saved, power, guardInit>> /\ (guardInit' => disabled')
    BY <1>1, <1>3, <2>1 DEF WorkerLeaves
  <2>4. saved' # NULL => guardFile'
    <3>1. CASE task[w].at = "tail"
      BY <1>1, <1>3, <2>1, <2>2, <2>3, <3>1 DEF WorkerLeaves
    <3>2. CASE task[w].at # "tail"
      <4>1. disabled
        BY <1>0, <1>1, <1>3, <2>1, <3>2
        DEF WorkerMoves, JobHasOneWorker, Working, HostInv
      <4> QED BY <1>1, <1>3, <2>1, <2>3, <3>2, <4>1 DEF WorkerLeaves
    <3> QED BY <3>1, <3>2
  <2>5. ~job'.success
    BY <1>1, <1>3, <2>1, <2>2 DEF WorkerMoves
  <2>6. \A v \in Worker : ~task'[v].automatic /\ ~task'[v].ok
    BY <1>1, <1>3, <2>1, <2>2 DEF WorkerMoves, Kept, NoTask
  <2> QED BY <1>1, <1>3, <2>3, <2>4, <2>5, <2>6
<1>4. CASE TurnOnStep
  <2>1. PICK d \in BOOLEAN : TurnOn(d) /\ (saved # NULL /\ Guarded => d)
    BY <1>4 DEF TurnOnStep
  <2>2. suspect /\ saved # NULL
    BY <1>0, <2>1, TurnOnEffect
  <2>3. Guarded
    BY <1>1, <2>2 DEF Guarded
  <2>4. disabled' /\ guardFile'
    BY <1>0, <1>1, <2>1, <2>2, <2>3, TurnOnEffect
  <2> QED BY <1>1, <1>4, <2>2, <2>4 DEF TurnOnStep, jobs
<1>5. CASE BondStep
  <2>1. /\ SetBonded(saved)
        /\ UNCHANGED <<saved, job, task, guardInit>>
    BY <1>5 DEF BondStep, jobs
  <2>2. suspect /\ saved # NULL
    BY <1>0, <2>1, SetBondedEffect
  <2>3. enabled => disabled
    BY <1>0, <1>1, <2>2 DEF HostInv
  <2>4. guardFile' /\ (disabled => disabled')
    BY <1>0, <1>1, <2>1, <2>2, <2>3, SetBondedEffect
  <2> QED BY <1>1, <2>1, <2>2, <2>4
<1>6. CASE UpkeepStep
  <2>1. suspect /\ disabled
    BY <1>1, <1>6 DEF UpkeepStep
  <2> QED BY <1>1, <1>6, <2>1, StartFailsEffect DEF UpkeepStep, jobs
<1>7. CASE ForgetStep
  BY <1>0, <1>7, SetBondedEffect DEF ForgetStep
<1>8. CASE CalmStep
  <2>1. suspect /\ UNCHANGED <<guardFile, saved, disabled, guardInit>>
    BY <1>1, <1>8 DEF CalmStep
  <2>2. power' # "off" => saved' # NULL
    BY <1>1, <1>8, <2>1 DEF CalmStep
  <2>3. ~job'.success /\ \A w \in Worker : ~task'[w].automatic /\ ~task'[w].ok
    <3>1. CASE UNCHANGED jobs
      BY <1>1, <2>1, <3>1 DEF jobs
    <3>2. CASE job' = NoJob /\ UNCHANGED task
      BY <1>1, <2>1, <3>2 DEF NoJob
    <3>3. ASSUME NEW p \in BOOLEAN, StartJob(FALSE, p)
          PROVE  ~job'.success /\ \A w \in Worker : ~task'[w].automatic /\ ~task'[w].ok
      <4>1. /\ ~job'.success
            /\ \E w \in Worker : /\ ~task'[w].automatic /\ ~task'[w].ok
                                 /\ \A v \in Worker \ {w} : task'[v] = task[v]
        BY <1>0, <3>3, StartJobEffect
      <4> QED BY <1>1, <2>1, <4>1
    <3> QED BY <1>8, <3>1, <3>2, <3>3, Zenon DEF CalmStep
  <2> QED BY <1>1, <2>1, <2>2, <2>3
<1> QED
  <2>1. ASSUME NEW w \in Worker, WorkerStep(w) PROVE suspect
    BY <1>0, <2>1, WorkerLeave DEF WorkerLeaves
  <2> QED BY <1>0, <1>2, <1>3, <1>4, <1>5, <1>6, <1>7, <1>8, <2>1, StepKinds

-----------------------------------------------------------------------------
(* Theorems *)

\* The inductive invariant is one: it holds in every reachable state.
THEOREM Invariance == Spec => []IInv
<1>1. Init => IInv
  BY InitIInv
<1>2. IInv /\ [Next]_vars => IInv'
  <2> SUFFICES ASSUME IInv, [Next]_vars PROVE IInv'
    OBVIOUS
  <2>1. TypeOK'
    BY NextType DEF IInv
  <2>2. TargetKnown' /\ JobHasOneWorker'
    BY NextTask
  <2>3. HostInv' /\ GuardCoversWork' /\ AutoInv' /\ SuspectInv'
    BY NextHost, NextCovered, NextAuto, NextSuspect
  <2>4. LeftInv' /\ GuardMatchesWork'
    BY LeftStep, NextHeld, NextDisabled DEF LeftInv, GuardMatchesWork
  <2> QED BY <2>1, <2>2, <2>3, <2>4 DEF IInv
<1> QED BY <1>1, <1>2, PTL DEF Spec

\* The variables keep their types in every reachable state.
THEOREM TypeCorrect == Spec => []TypeOK
<1>1. IInv => TypeOK
  BY DEF IInv
<1> QED BY <1>1, Invariance, PTL

\* For any number of remotes and worker tasks at most one of them scans or
\* connects, and the _reconnectJob flags describe that one.
THEOREM OneWorker == Spec => []JobHasOneWorker
<1>1. IInv => JobHasOneWorker
  BY DEF IInv
<1> QED BY <1>1, Invariance, PTL

\* disable() never takes the BLE host away from a worker that uses it.
THEOREM RadioOn == Spec => []RadioOnWhileWorking
<1>1. IInv => RadioOnWhileWorking
  BY DEF IInv, HostInv, JobHasOneWorker, Working, RadioOnWhileWorking
<1> QED BY <1>1, Invariance, PTL

\* The guard file is on the card only while an automatic task exists or after a
\* reset has cut one off, and only a boot after such a reset, or after a crash,
\* has its automatic reconnect disabled.
THEOREM GuardMatches == Spec => []GuardMatchesWork
<1>1. IInv => GuardMatchesWork
  BY DEF IInv
<1> QED BY <1>1, Invariance, PTL

\* Automatic work for a saved remote never runs without its guard file, unless
\* the end of an earlier automatic worker has removed it.
THEOREM GuardCovers == Spec => []GuardCoversWork
<1>1. IInv => GuardCoversWork
  BY DEF IInv
<1> QED BY <1>1, Invariance, PTL

\* A reset in automatic work that had its guard is followed by no automatic
\* work until the user has reconnected by hand or forgotten the remote, over
\* any number of boots.
THEOREM NoAutomatic == Spec => []NoAutomaticAfterCrash
<1>1. IInv => NoAutomaticAfterCrash
  BY DEF IInv, SuspectInv, NoAutomaticAfterCrash, AutomaticWork
<1> QED BY <1>1, Invariance, PTL

-----------------------------------------------------------------------------
(* The refinement of CrashGuard *)

\* Only a worker's step can get automatic work past its start.
LEMMA NoneBegins ==
    ASSUME TypeOK, JobSteps, GuardedWork'
    PROVE  GuardedWork
<1>1. PICK v \in Worker : /\ task'[v].automatic /\ ~task'[v].bare
                          /\ task'[v].at \in {"scan", "connect", "bond", "finish"}
  BY DEF GuardedWork, PastGuard
<1>2. task' # [w \in Worker |-> NoTask]
  BY <1>1 DEF NoTask
<1>3. ASSUME NEW a \in BOOLEAN, NEW p \in BOOLEAN, StartJob(a, p)
      PROVE  task'[v] = task[v]
  <2>1. \E w \in Worker : /\ task'[w].at = "begin"
                          /\ \A u \in Worker \ {w} : task'[u] = task[u]
    BY <1>3, StartJobEffect
  <2> QED BY <1>1, <2>1
<1>4. task'[v] = task[v]
  BY <1>2, <1>3 DEF JobSteps
<1> QED BY <1>1, <1>4 DEF GuardedWork, PastGuard

\* A reset is the end of automatic work, and known to be one.
LEMMA ResetGuard ==
    ASSUME IInv, ResetStep
    PROVE  [Guard!Next]_(Guard!vars)
<1>1. suspect \in BOOLEAN /\ GuardedWork \in BOOLEAN /\ (suspect => ~GuardedWork)
  BY DEF IInv, TypeOK, SuspectInv, GuardedWork, PastGuard
<1>2. GuardedWork' = FALSE
  BY DEF ResetStep, RamLost, NoTask, GuardedWork, PastGuard
<1>3. suspect' = suspect \/ suspect' = (suspect \/ GuardedWork)
  BY DEF ResetStep
<1> QED BY <1>1, <1>2, <1>3 DEF Guard!Next, Guard!Begin, Guard!Fail, Guard!Finish, Guard!vars

\* No other step makes a suspicion, nor begins automatic work under one.
LEMMA CalmGuard ==
    ASSUME IInv, [Next]_vars, ~ResetStep
    PROVE  /\ suspect' \in BOOLEAN /\ (suspect' => suspect)
           /\ suspect => ~GuardedWork /\ ~GuardedWork'
<1>0. /\ TypeOK /\ TargetKnown /\ HostInv /\ JobHasOneWorker
      /\ saved \in Remote \cup {NULL} /\ suspect \in BOOLEAN
      /\ suspect' \in BOOLEAN
  BY NextType DEF IInv, TypeOK
<1>1. suspect => \A w \in Worker : ~task[w].automatic
  BY DEF IInv, SuspectInv
<1>2. suspect => ~GuardedWork
  BY <1>1 DEF GuardedWork, PastGuard
<1>3. ASSUME NEW w \in Worker, WorkerStep(w)
      PROVE  (suspect' => suspect) /\ (suspect => ~GuardedWork')
  <2>1. WorkerMoves(w) /\ WorkerLeaves(w)
    BY <1>0, <1>3, WorkerMove, WorkerLeave
  <2>2. suspect => \A v \in Worker : ~task'[v].automatic
    BY <1>1, <2>1 DEF WorkerMoves, Kept, NoTask
  <2> QED BY <2>1, <2>2 DEF WorkerLeaves, GuardedWork, PastGuard
<1>4. CASE ~\E w \in Worker : WorkerStep(w)
  <2>1. TurnOnStep \/ BondStep \/ UpkeepStep \/ ForgetStep \/ CalmStep
    BY <1>0, <1>4, StepKinds
  <2>2. GuardedWork' => GuardedWork
    BY <1>0, <2>1, KindJobs, NoneBegins
  <2>3. suspect' => suspect
    <3>1. CASE TurnOnStep
      BY <1>0, <3>1, TurnOnEffect DEF TurnOnStep
    <3>2. CASE BondStep
      BY <1>0, <3>2, SetBondedEffect DEF BondStep
    <3>3. CASE ForgetStep
      BY <1>0, <3>3, SetBondedEffect DEF ForgetStep
    <3>4. CASE UpkeepStep \/ CalmStep
      BY <3>4 DEF UpkeepStep, CalmStep
    <3> QED BY <2>1, <3>1, <3>2, <3>3, <3>4
  <2> QED BY <1>0, <1>2, <2>2, <2>3
<1> QED BY <1>0, <1>2, <1>3, <1>4

\* Every step begins, fails or finishes an attempt, or leaves it alone.
LEMMA GuardStep == IInv /\ [Next]_vars => [Guard!Next]_(Guard!vars)
<1> SUFFICES ASSUME IInv, [Next]_vars, ~ResetStep
             PROVE  [Guard!Next]_(Guard!vars)
  BY ResetGuard
<1>1. /\ suspect' \in BOOLEAN /\ (suspect' => suspect)
      /\ suspect => ~GuardedWork /\ ~GuardedWork'
  BY CalmGuard
<1>2. suspect \in BOOLEAN /\ GuardedWork \in BOOLEAN /\ GuardedWork' \in BOOLEAN
  BY DEF IInv, TypeOK, GuardedWork
<1> QED BY <1>1, <1>2 DEF Guard!Next, Guard!Begin, Guard!Fail, Guard!Finish, Guard!vars

\* The automatic reconnect implements CrashGuard: worker, upkeep, settings
\* screen and boots together keep its promise for work that has its guard.
THEOREM GuardImplemented == Spec => ReconnectGuard
<1>1. Init => Guard!Init
  BY DEF Init, NoTask, GuardedWork, PastGuard, Guard!Init
<1>2. IInv /\ [Next]_vars => [Guard!Next]_(Guard!vars)
  BY GuardStep
<1> QED BY <1>1, <1>2, Invariance, PTL DEF Spec, ReconnectGuard, Guard!Spec
=============================================================================
