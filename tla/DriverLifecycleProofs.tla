----------------------- MODULE DriverLifecycleProofs -----------------------
(***************************************************************************)
(* Proofs about DriverConfig and DriverLifecycle for any number of         *)
(* processes.  Of the configuration and the timer: every interval in force *)
(* is in range, a disabled device is quiet, and a call that met no other   *)
(* leaves the two in agreement; with a fair timer a disabled one ends and  *)
(* a new period is taken over.  Of loading and unloading: what             *)
(* sensorhub_exit or a failed sensorhub_init frees is not in use, outside  *)
(* the two windows that FreedIsUnused names, and calls which race with     *)
(* sensorhub_init find timer and configuration in agreement.               *)
(***************************************************************************)
EXTENDS DriverLifecycle, TLAPS

LocalConfigs == [interval_ms : IntervalRange, enabled : 0..2]

(* What ValidInterval admits is in the range of the type. *)
LEMMA ValidInRange ==
    ASSUME NEW i \in Inputs, ValidInterval(i) PROVE i \in IntervalRange
BY InputsAssumption DEF ValidInterval, IntervalRange

(* Every step keeps the type. *)
LEMMA NextType == TypeOK /\ [Next]_configVars => TypeOK'
<1> SUFFICES ASSUME TypeOK, [Next]_configVars PROVE TypeOK'
  OBVIOUS
<1>1. ASSUME NEW w \in Writers, NEW new \in LocalConfigs, Enter(w, new) PROVE TypeOK'
  <2>1. alone' \in BOOLEAN
    BY <1>1, Zenon DEF Enter, Settled
  <2> QED
    BY <1>1, <2>1 DEF Enter, TypeOK, LocalConfigs
<1>2. ASSUME NEW w \in Writers, SetConfig(w) PROVE TypeOK'
  <2>1. PICK i \in Inputs, e \in 0..2 :
          ValidInterval(i) /\ Enter(w, [interval_ms |-> i, enabled |-> e])
    BY <1>2 DEF SetConfig
  <2>2. [interval_ms |-> i, enabled |-> e] \in LocalConfigs
    BY <2>1, ValidInRange DEF LocalConfigs
  <2> QED
    BY <1>1, <2>1, <2>2
<1>3. ASSUME NEW w \in Writers, IntervalMsStore(w) PROVE TypeOK'
  <2>1. PICK i \in Inputs :
          ValidInterval(i) /\ Enter(w, [config EXCEPT !.interval_ms = i])
    BY <1>3 DEF IntervalMsStore
  <2>2. [config EXCEPT !.interval_ms = i] \in LocalConfigs
    BY <2>1, ValidInRange DEF LocalConfigs, TypeOK
  <2> QED
    BY <1>1, <2>1, <2>2
<1>4. ASSUME NEW w \in Writers, EnabledStore(w) PROVE TypeOK'
  <2>1. PICK e \in 0..1 : Enter(w, [config EXCEPT !.enabled = e])
    BY <1>4 DEF EnabledStore
  <2>2. [config EXCEPT !.enabled = e] \in LocalConfigs
    BY DEF LocalConfigs, TypeOK
  <2> QED
    BY <1>1, <2>1, <2>2
<1>5. ASSUME NEW w \in Writers, Apply(w) PROVE TypeOK'
  <2>1. cfg[w].interval_ms \in IntervalRange /\ cfg[w].enabled \in 0..2
    BY DEF TypeOK
  <2>2. CASE ApplyInterval(w)
    BY <2>1, <2>2 DEF ApplyInterval, TypeOK
  <2>3. CASE ApplyEnabled(w)
    BY <2>1, <2>3 DEF ApplyEnabled, TypeOK
  <2>4. CASE ApplyTimer(w)
    BY <2>1, <2>4, Zenon DEF ApplyTimer, HrtimerStart, HrtimerCancel, TypeOK
  <2> QED
    BY <1>5, <2>2, <2>3, <2>4 DEF Apply
<1>6. CASE Timer
  BY <1>6, Zenon DEF Timer, Expire, CallbackCheck, CallbackPush, CallbackForward,
              CallbackRestart, TypeOK
<1>7. CASE UNCHANGED configVars
  BY <1>7 DEF configVars, TypeOK
<1> QED
  BY <1>2, <1>3, <1>4, <1>5, <1>6, <1>7 DEF Next

(***************************************************************************)
(* Type correctness: no interval outside 10..60000 ms ever reaches the     *)
(* configuration or the timer, whatever writers ask for concurrently.      *)
(***************************************************************************)
THEOREM TypeCorrect == Spec => []TypeOK
<1>1. Init => TypeOK
  BY DEF Init, TypeOK, IntervalRange
<1> QED
  BY <1>1, NextType, PTL DEF Spec

-----------------------------------------------------------------------------
(* The callback is past its test of config.enabled. *)
PastCheck == callback \in {"push", "forward", "restart"}

(* Writer w has stored FALSE in config.enabled and not yet cancelled. *)
AboutToCancel(w) == pc[w] = "timer" /\ ~IsEnabled(cfg[w])

(***************************************************************************)
(* The strengthening of QuietWhenDisabled: while a callback that was let   *)
(* through runs on a device that is disabled by now, some writer is still  *)
(* to cancel the timer, and hrtimer_cancel will wait for that callback.    *)
(***************************************************************************)
CancelCovers ==
    PastCheck /\ ~IsEnabled(config) => \E w \in Writers : AboutToCancel(w)

(* Every step keeps the strengthening. *)
LEMMA NextCancelCovers ==
    TypeOK /\ CancelCovers /\ [Next]_configVars => CancelCovers'
<1> SUFFICES ASSUME TypeOK, CancelCovers, [Next]_configVars,
                    PastCheck', ~IsEnabled(config')
             PROVE  \E w \in Writers : AboutToCancel(w)'
  BY DEF CancelCovers
<1> USE DEF PastCheck, AboutToCancel, IsEnabled
<1>1. ASSUME NEW w \in Writers, NEW new, Enter(w, new)
      PROVE  \E v \in Writers : AboutToCancel(v)'
  <2>1. PICK v \in Writers : AboutToCancel(v)
    BY <1>1 DEF Enter, CancelCovers
  <2> QED
    BY <1>1, <2>1 DEF Enter, TypeOK
<1>2. ASSUME NEW w \in Writers, ApplyInterval(w)
      PROVE  \E v \in Writers : AboutToCancel(v)'
  <2>1. ~IsEnabled(config)
    BY <1>2 DEF ApplyInterval, TypeOK
  <2>2. PICK v \in Writers : AboutToCancel(v)
    BY <1>2, <2>1 DEF ApplyInterval, CancelCovers
  <2> QED
    BY <1>2, <2>2 DEF ApplyInterval, TypeOK
<1>3. ASSUME NEW w \in Writers, ApplyEnabled(w)
      PROVE  \E v \in Writers : AboutToCancel(v)'
  <2>1. ~IsEnabled(cfg[w])
    BY <1>3 DEF ApplyEnabled, TypeOK
  <2>2. AboutToCancel(w)'
    BY <1>3, <2>1 DEF ApplyEnabled, TypeOK
  <2> QED
    BY <2>2
<1>4. ASSUME NEW w \in Writers, ApplyTimer(w)
      PROVE  \E v \in Writers : AboutToCancel(v)'
  <2>1. IsEnabled(cfg[w])
    BY <1>4 DEF ApplyTimer, HrtimerCancel
  <2>2. PICK v \in Writers : AboutToCancel(v)
    BY <1>4 DEF ApplyTimer, CancelCovers
  <2> QED
    BY <1>4, <2>1, <2>2 DEF ApplyTimer, TypeOK
<1>5. CASE Timer
  <2>1. PastCheck /\ ~IsEnabled(config)
    BY <1>5 DEF Timer, Expire, CallbackCheck, CallbackPush, CallbackForward,
                CallbackRestart
  <2>2. UNCHANGED <<pc, cfg>>
    BY <1>5 DEF Timer, Expire, CallbackCheck, CallbackPush, CallbackForward,
                CallbackRestart
  <2> QED
    BY <2>1, <2>2 DEF CancelCovers
<1>6. CASE UNCHANGED configVars
  BY <1>6 DEF configVars, CancelCovers
<1> QED
  BY <1>1, <1>2, <1>3, <1>4, <1>5, <1>6, Zenon
  DEF Next, Apply, SetConfig, IntervalMsStore, EnabledStore

(***************************************************************************)
(* For any number of concurrent ioctl and sysfs writers: once all calls    *)
(* have returned and the device is disabled, no callback is producing a    *)
(* sample, because hrtimer_cancel waits and the callback tests enabled.    *)
(***************************************************************************)
THEOREM DisabledIsQuiet == Spec => []QuietWhenDisabled
<1>1. Init => CancelCovers
  BY DEF Init, CancelCovers, PastCheck
<1>2. TypeOK /\ CancelCovers => QuietWhenDisabled
  BY DEF TypeOK, CancelCovers, PastCheck, AboutToCancel, QuietWhenDisabled, Settled
<1> QED
  BY <1>1, <1>2, TypeCorrect, NextCancelCovers, PTL DEF Spec
-----------------------------------------------------------------------------
(***************************************************************************)
(* The strengthening of SoleWriterDecides: while the last call has the     *)
(* configuration to itself, at most one writer is under way, and when it   *)
(* reaches the timer the device is enabled as that writer wants it.        *)
(***************************************************************************)
OneUnderWay == \A v, w \in Writers : pc[v] # "idle" /\ pc[w] # "idle" => v = w

StoredAsWanted ==
    \A w \in Writers : pc[w] = "timer" => (IsEnabled(config) <=> IsEnabled(cfg[w]))

SoleCall == alone => OneUnderWay /\ StoredAsWanted
SoleInv == alone => OneUnderWay /\ StoredAsWanted /\ EnabledTimerRuns

(* A call begins: with nobody under way it is alone, otherwise nobody is. *)
LEMMA EnterSole ==
    ASSUME TypeOK, NEW w \in Writers, NEW new, Enter(w, new) PROVE SoleInv'
<1> SUFFICES ASSUME alone'
             PROVE  OneUnderWay' /\ StoredAsWanted' /\ EnabledTimerRuns'
  BY DEF SoleInv
<1>1. Settled
  BY Zenon DEF Enter
<1>2. pc' = [pc EXCEPT ![w] = "interval_ms"] /\ DOMAIN pc = Writers
  BY DEF Enter, TypeOK
<1>3. OneUnderWay' /\ StoredAsWanted'
  BY <1>1, <1>2 DEF Settled, OneUnderWay, StoredAsWanted
<1>4. ~Settled'
  BY <1>2 DEF Settled
<1> QED
  BY <1>3, <1>4 DEF EnabledTimerRuns

(* The steps of apply_config. *)
LEMMA ApplySole ==
    ASSUME TypeOK, SoleCall, NEW w \in Writers, Apply(w) PROVE SoleInv'
<1>1. alone' = alone
  BY DEF Apply, ApplyInterval, ApplyEnabled, ApplyTimer
<1> SUFFICES ASSUME OneUnderWay, StoredAsWanted
             PROVE  OneUnderWay' /\ StoredAsWanted' /\ EnabledTimerRuns'
  BY <1>1, Zenon DEF SoleCall, SoleInv
<1>2. /\ DOMAIN pc = Writers /\ cfg' = cfg /\ pc[w] # "idle"
      /\ \E to \in {"enabled", "timer", "idle"} : pc' = [pc EXCEPT ![w] = to]
  <2>1. DOMAIN pc = Writers
    BY DEF TypeOK
  <2> QED
    BY <2>1 DEF Apply, ApplyInterval, ApplyEnabled, ApplyTimer
<1>3. \A v \in Writers : v # w => pc'[v] = "idle"
  BY <1>2 DEF OneUnderWay
<1>4. OneUnderWay'
  BY <1>3 DEF OneUnderWay
<1>5. CASE ApplyInterval(w)
  <2>1. pc'[w] = "enabled"
    BY <1>2, <1>5 DEF ApplyInterval
  <2> QED
    BY <1>3, <1>4, <2>1 DEF StoredAsWanted, EnabledTimerRuns, Settled
<1>6. CASE ApplyEnabled(w)
  <2>1. pc'[w] = "timer"
    BY <1>2, <1>6 DEF ApplyEnabled
  <2>2. IsEnabled(config)' <=> IsEnabled(cfg[w])
    BY <1>6 DEF ApplyEnabled, IsEnabled, TypeOK
  <2> QED
    BY <1>2, <1>3, <1>4, <2>1, <2>2
    DEF StoredAsWanted, EnabledTimerRuns, Settled, IsEnabled
<1>7. CASE ApplyTimer(w)
  <2>1. pc'[w] = "idle"
    BY <1>2, <1>7 DEF ApplyTimer
  <2>2. IsEnabled(config)' <=> IsEnabled(cfg[w])
    BY <1>7 DEF ApplyTimer, StoredAsWanted, IsEnabled
  <2>3. IsEnabled(cfg[w]) => queued'
    BY <1>7, Zenon DEF ApplyTimer, HrtimerStart
  <2> QED
    BY <1>3, <1>4, <2>1, <2>2, <2>3
    DEF StoredAsWanted, EnabledTimerRuns, TimerLive
<1> QED
  BY <1>5, <1>6, <1>7 DEF Apply

(* The timer and its callback. *)
LEMMA TimerSole == ASSUME SoleInv, Timer PROVE SoleInv'
<1>1. UNCHANGED <<pc, cfg, config, alone>>
  BY DEF Timer, Expire, CallbackCheck, CallbackPush, CallbackForward,
         CallbackRestart
<1>2. IsEnabled(config) /\ (TimerLive \/ callback = "check")
        => (TimerLive \/ callback = "check")'
  BY Zenon DEF Timer, Expire, CallbackCheck, CallbackPush, CallbackForward,
         CallbackRestart, TimerLive
<1> QED
  BY <1>1, <1>2, Zenon DEF SoleInv, OneUnderWay, StoredAsWanted, EnabledTimerRuns,
         Settled, IsEnabled

(***************************************************************************)
(* For any number of ioctl and sysfs writers: after a call of              *)
(* sensorhub_apply_config that had the configuration to itself, an enabled *)
(* device has a timer that runs, whatever races came before it.            *)
(***************************************************************************)
THEOREM SoleWriterAgrees == Spec => []SoleWriterDecides
<1>1. Init => SoleInv
  BY DEF Init, SoleInv, OneUnderWay, StoredAsWanted, EnabledTimerRuns, TimerLive
<1>2. TypeOK /\ SoleInv /\ [Next]_configVars => SoleInv'
  <2> SUFFICES ASSUME TypeOK, SoleInv, [Next]_configVars PROVE SoleInv'
    OBVIOUS
  <2>1. CASE UNCHANGED configVars
    BY <2>1 DEF configVars, SoleInv, OneUnderWay, StoredAsWanted,
         EnabledTimerRuns, TimerLive, Settled, IsEnabled
  <2>2. CASE Timer
    BY <2>2, TimerSole
  <2>3. ASSUME NEW w \in Writers,
               SetConfig(w) \/ IntervalMsStore(w) \/ EnabledStore(w)
        PROVE  SoleInv'
    BY <2>3, EnterSole, Zenon DEF SetConfig, IntervalMsStore, EnabledStore
  <2>4. ASSUME NEW w \in Writers, Apply(w) PROVE SoleInv'
    BY <2>4, ApplySole, Zenon DEF SoleInv, SoleCall
  <2> QED
    BY <2>1, <2>2, <2>3, <2>4 DEF Next
<1>3. SoleInv => SoleWriterDecides
  BY DEF SoleInv, SoleWriterDecides
<1> QED
  BY <1>1, <1>2, <1>3, TypeCorrect, PTL DEF Spec

-----------------------------------------------------------------------------
(***************************************************************************)
(* Weak fairness of the timer, written without ENABLED: it is infinitely   *)
(* often idle or takes infinitely many steps.  TimerIdle is exactly where  *)
(* no action of Timer is possible, and each of them changes the state.     *)
(***************************************************************************)
FairTimer == []<>TimerIdle \/ []<><<Timer>>_configVars

(* All calls have returned, and the timer and its callback are at ... *)
Stage(on, at, armed) ==
    /\ Settled
    /\ IsEnabled(config) = on
    /\ callback = at
    /\ queued = armed

(***************************************************************************)
(* Where one step of the timer leads when no call interferes.  A timer     *)
(* that was armed while its callback ran stays armed to the end of it.     *)
(***************************************************************************)
StageMoves(on, at, armed, next, then) ==
    \/ at = "none" /\ armed = TRUE /\ next = "check" /\ then = FALSE
    \/ on = FALSE /\ at = "check" /\ next = "none" /\ then = armed
    \/ on = TRUE /\ at = "check" /\ next = "push" /\ then = armed
    \/ on = TRUE /\ at = "push" /\ next = "forward" /\ then = armed
    \/ on = TRUE /\ at = "forward" /\ next = "restart" /\ then = armed
    \/ on = TRUE /\ at = "restart" /\ next = "none" /\ then = TRUE

(* While all calls have returned, only a new call or the timer steps. *)
LEMMA SettledStep ==
    ASSUME TypeOK, Settled, Settled', [Next]_configVars
    PROVE  \/ UNCHANGED configVars
           \/ Timer /\ UNCHANGED <<config, pc>>
<1>1. ASSUME NEW w \in Writers, NEW new, Enter(w, new) PROVE FALSE
  BY <1>1 DEF Enter, Settled, TypeOK
<1>2. ASSUME NEW w \in Writers, Apply(w) PROVE FALSE
  BY <1>2 DEF Apply, ApplyInterval, ApplyEnabled, ApplyTimer, Settled
<1>3. CASE Timer
  BY <1>3 DEF Timer, Expire, CallbackCheck, CallbackPush, CallbackForward,
              CallbackRestart
<1> QED
  BY <1>1, <1>2, <1>3, Zenon DEF Next, SetConfig, IntervalMsStore, EnabledStore

(* A step of the timer moves from stage to stage. *)
LEMMA TimerMoves ==
    ASSUME NEW on, NEW at, NEW armed, NEW next, NEW then,
           StageMoves(on, at, armed, next, then),
           TypeOK, Stage(on, at, armed), Timer
    PROVE  Stage(on, next, then)'
<1>1. UNCHANGED <<config, pc>>
  BY DEF Timer, Expire, CallbackCheck, CallbackPush, CallbackForward,
         CallbackRestart
<1>2. Settled' /\ IsEnabled(config)' = on
  BY <1>1 DEF Stage, Settled, IsEnabled
<1>3. callback' = next /\ queued' = then
  BY Zenon DEF Stage, StageMoves, Timer, Expire, CallbackCheck, CallbackPush,
         CallbackForward, CallbackRestart
<1> QED
  BY <1>2, <1>3 DEF Stage

(* The stage is followed by the next one, or by a new call. *)
Leads(on, at, armed, next, then) ==
    Stage(on, at, armed) ~> (~Settled \/ Stage(on, next, then))

(* Each stage is followed by the next one, or by a new call. *)
LEMMA StageLeads ==
    ASSUME NEW on, NEW at, NEW armed, NEW next, NEW then,
           StageMoves(on, at, armed, next, then)
    PROVE  Spec /\ FairTimer => Leads(on, at, armed, next, then)
<1>1. TypeOK /\ Stage(on, at, armed) /\ [Next]_configVars
          => ~Settled' \/ Stage(on, at, armed)' \/ Stage(on, next, then)'
  <2> SUFFICES ASSUME TypeOK, Stage(on, at, armed), [Next]_configVars, Settled'
               PROVE  Stage(on, at, armed)' \/ Stage(on, next, then)'
    OBVIOUS
  <2>1. CASE UNCHANGED configVars
    BY <2>1 DEF configVars, Stage, Settled
  <2>2. CASE Timer
    BY <2>2, TimerMoves
  <2> QED
    BY <2>1, <2>2, SettledStep DEF Stage
<1>2. TypeOK /\ Stage(on, at, armed) /\ <<Timer>>_configVars
          => Stage(on, next, then)'
  BY TimerMoves
<1>3. Stage(on, at, armed) => ~TimerIdle
  BY DEF Stage, StageMoves, TimerIdle
<1> QED
  BY <1>1, <1>2, <1>3, TypeCorrect, PTL DEF Spec, FairTimer, Leads

(***************************************************************************)
(* For any number of ioctl and sysfs writers: when the calls have returned *)
(* and the device is disabled, the timer stops by itself, also when the    *)
(* writer that enabled the device armed it last.                           *)
(***************************************************************************)
THEOREM DisabledTimerEnds == Spec /\ FairTimer => DisabledTimerStops
<1>1. Spec /\ FairTimer => Leads(FALSE, "check", TRUE, "none", TRUE)
  BY StageLeads, Zenon DEF StageMoves
<1>2. Spec /\ FairTimer => Leads(FALSE, "none", TRUE, "check", FALSE)
  BY StageLeads, Zenon DEF StageMoves
<1>3. Spec /\ FairTimer => Leads(FALSE, "check", FALSE, "none", FALSE)
  BY StageLeads, Zenon DEF StageMoves
<1>4. Stage(FALSE, "none", FALSE) => TimerIdle
  BY DEF Stage, TimerIdle
<1>5. TypeOK /\ QuietWhenDisabled /\ Settled /\ ~IsEnabled(config)
          => \/ Stage(FALSE, "check", TRUE) \/ Stage(FALSE, "check", FALSE)
             \/ Stage(FALSE, "none", TRUE) \/ Stage(FALSE, "none", FALSE)
  <2> SUFFICES ASSUME TypeOK, QuietWhenDisabled, Settled, ~IsEnabled(config)
               PROVE  \/ Stage(FALSE, "check", TRUE)
                      \/ Stage(FALSE, "check", FALSE)
                      \/ Stage(FALSE, "none", TRUE)
                      \/ Stage(FALSE, "none", FALSE)
    BY Zenon
  <2>1. callback = "check" \/ callback = "none"
    BY DEF QuietWhenDisabled
  <2>2. (queued = TRUE \/ queued = FALSE) /\ IsEnabled(config) = FALSE
    BY DEF TypeOK, IsEnabled
  <2> QED
    BY <2>1, <2>2, Zenon DEF Stage
<1> QED
  BY <1>1, <1>2, <1>3, <1>4, <1>5, TypeCorrect, DisabledIsQuiet, PTL
  DEF DisabledTimerStops, Leads

(* The callback is about to restart with the interval of the configuration. *)
Refreshed ==
    Stage(TRUE, "restart", FALSE) /\ period = config.interval_ms

(* The interval in force is the one the configuration shows. *)
InForce == queued /\ period = config.interval_ms

(* A callback that forwards an unarmed timer takes the interval along. *)
LEMMA ForwardRefreshes ==
    Spec /\ FairTimer
        => (Stage(TRUE, "forward", FALSE) ~> (~Settled \/ InForce))
<1> DEFINE Forward == Stage(TRUE, "forward", FALSE)
<1>1. TypeOK /\ Forward /\ <<Timer>>_configVars => Refreshed'
  <2> SUFFICES ASSUME TypeOK, Forward, Timer PROVE Refreshed'
    OBVIOUS
  <2>1. Stage(TRUE, "restart", FALSE)'
    BY TimerMoves, Zenon DEF StageMoves
  <2>2. period' = config'.interval_ms
    BY Zenon DEF Stage, Timer, Expire, CallbackCheck, CallbackPush,
                 CallbackForward, CallbackRestart
  <2> QED
    BY <2>1, <2>2, Zenon DEF Refreshed
<1>2. TypeOK /\ Refreshed /\ <<Timer>>_configVars => InForce'
  BY Zenon DEF Refreshed, InForce, Stage, Timer, Expire, CallbackCheck,
               CallbackPush, CallbackForward, CallbackRestart
<1>3. TypeOK /\ Forward /\ [Next]_configVars
          => ~Settled' \/ Forward' \/ <<Timer>>_configVars
  <2>1. Forward /\ UNCHANGED configVars => Forward'
    BY DEF configVars, Stage, Settled
  <2> QED
    BY <2>1, SettledStep DEF Stage
<1>4. TypeOK /\ Refreshed /\ [Next]_configVars
          => ~Settled' \/ Refreshed' \/ <<Timer>>_configVars
  <2>1. Refreshed /\ UNCHANGED configVars => Refreshed'
    BY DEF configVars, Stage, Settled, Refreshed
  <2> QED
    BY <2>1, SettledStep DEF Stage, Refreshed
<1>5. (Forward => ~TimerIdle) /\ (Refreshed => ~TimerIdle)
  BY DEF Stage, Refreshed, TimerIdle
<1> QED
  BY <1>1, <1>2, <1>3, <1>4, <1>5, TypeCorrect, PTL DEF Spec, FairTimer

(***************************************************************************)
(* For any number of ioctl and sysfs writers: whichever of them armed the  *)
(* timer last, and with whatever interval, a timer that runs on an enabled *)
(* device ends up with the interval the configuration shows.               *)
(***************************************************************************)
THEOREM PeriodIsTakenOver == Spec /\ FairTimer => PeriodConverges
<1>1. Spec /\ FairTimer => /\ Leads(TRUE, "check", TRUE, "push", TRUE)
                           /\ Leads(TRUE, "push", TRUE, "forward", TRUE)
                           /\ Leads(TRUE, "forward", TRUE, "restart", TRUE)
                           /\ Leads(TRUE, "restart", TRUE, "none", TRUE)
  BY StageLeads, Zenon DEF StageMoves
<1>2. Spec /\ FairTimer => /\ Leads(TRUE, "restart", FALSE, "none", TRUE)
                           /\ Leads(TRUE, "none", TRUE, "check", FALSE)
                           /\ Leads(TRUE, "check", FALSE, "push", FALSE)
                           /\ Leads(TRUE, "push", FALSE, "forward", FALSE)
  BY StageLeads, Zenon DEF StageMoves
<1>3. TypeOK /\ Settled /\ IsEnabled(config) /\ TimerLive
          => \/ Stage(TRUE, "none", TRUE) \/ Stage(TRUE, "check", TRUE)
             \/ Stage(TRUE, "push", TRUE) \/ Stage(TRUE, "push", FALSE)
             \/ Stage(TRUE, "forward", TRUE) \/ Stage(TRUE, "forward", FALSE)
             \/ Stage(TRUE, "restart", TRUE) \/ Stage(TRUE, "restart", FALSE)
  <2>1. TypeOK => queued = TRUE \/ queued = FALSE
    BY DEF TypeOK
  <2>2. TypeOK /\ TimerLive
            => \/ callback \in {"none", "check"} /\ queued = TRUE
               \/ callback \in {"push", "forward", "restart"}
    BY DEF TypeOK, TimerLive
  <2>3. IsEnabled(config) => IsEnabled(config) = TRUE
    BY DEF IsEnabled
  <2> QED
    BY <2>1, <2>2, <2>3, Zenon DEF Stage
<1> QED
  BY <1>1, <1>2, <1>3, ForwardRefreshes, TypeCorrect, PTL
  DEF PeriodConverges, Leads, InForce

-----------------------------------------------------------------------------
(* Whoever is inside a call came through an open file or an attribute. *)
Inside == \A w \in Writers : pc[w] # "idle" => w \in files \union stores

(* What is closed in which part of init and exit. *)
Closed ==
    /\ module \in {"allocated", "exit", "cancelled", "hidden"} => files = {}
    /\ module \notin Writable => stores = {}
    /\ module \in {"registered", "absent"} => disturbed \/ files = {}

(* Where the timer is idle: before it can be armed, and after the cancel. *)
Unarmed ==
    /\ module = "allocated" => TimerIdle
    /\ module \in {"registered", "cancelled", "hidden", "absent"}
            => disturbed \/ TimerIdle

LifeInv == DOMAIN pc = Writers /\ Inside /\ Closed /\ Unarmed

(* Between calls of the timer's interface an idle timer stays idle. *)
LEMMA IdleStays == ASSUME TimerIdle PROVE ~Timer
BY DEF TimerIdle, Timer, Expire, CallbackCheck, CallbackPush, CallbackForward,
       CallbackRestart

(* A step of sensorhub_init keeps the invariant. *)
LEMMA InitStep ==
    ASSUME LifeInv,
           \/ Load \/ MiscRegister \/ SysfsCreateGroup \/ ReadInterval
           \/ StartTimer
    PROVE  LifeInv'
<1> USE DEF LifeInv, To, Goes
<1>1. pc' = pc /\ files' = files /\ stores' = stores
  BY DEF Load, MiscRegister, SysfsCreateGroup, ReadInterval, StartTimer, configVars
<1>2. Inside'
  BY <1>1 DEF Inside
<1>3. CASE Load
  BY <1>1, <1>2, <1>3 DEF Load, Closed, Unarmed, TimerIdle, Writable
<1>4. CASE MiscRegister
  BY <1>1, <1>2, <1>4 DEF MiscRegister, configVars, Closed, Unarmed, TimerIdle,
                          Writable
<1>5. CASE SysfsCreateGroup
  BY <1>1, <1>2, <1>5 DEF SysfsCreateGroup, configVars, Closed, Unarmed,
                          TimerIdle, Writable
<1>6. CASE StartTimer
  BY <1>1, <1>2, <1>6 DEF StartTimer, Closed, Unarmed, Writable
<1>7. CASE ReadInterval
  BY <1>1, <1>2, <1>7 DEF ReadInterval, Closed, Unarmed, Writable
<1> QED
  BY <1>3, <1>4, <1>5, <1>6, <1>7

(* A step of sensorhub_exit keeps the invariant. *)
LEMMA ExitStep ==
    ASSUME LifeInv, Rmmod \/ ExitCancel \/ SysfsRemoveGroup \/ Free
    PROVE  LifeInv'
<1> USE DEF LifeInv, To, Goes
<1>1. pc' = pc /\ files' = files /\ stores' = stores
  BY DEF Rmmod, ExitCancel, SysfsRemoveGroup, Free, configVars
<1>2. Inside'
  BY <1>1 DEF Inside
<1>3. CASE Rmmod
  BY <1>1, <1>2, <1>3 DEF Rmmod, Closed, Unarmed, Writable
<1>4. CASE ExitCancel
  BY <1>1, <1>2, <1>4 DEF ExitCancel, HrtimerCancel, Closed, Unarmed,
                          TimerIdle, Writable
<1>5. CASE SysfsRemoveGroup
  BY <1>1, <1>2, <1>5 DEF SysfsRemoveGroup, configVars, Closed, Unarmed,
                          TimerIdle, Writable
<1>6. CASE Free
  BY <1>1, <1>2, <1>6 DEF Free, configVars, Closed, Unarmed, TimerIdle, Writable
<1> QED
  BY <1>3, <1>4, <1>5, <1>6

(* Open, close, ioctl and store keep the invariant: they arm nothing. *)
LEMMA CallStep ==
    ASSUME LifeInv, NEW w \in Writers,
           OpenFile(w) \/ CloseFile(w) \/ Ioctl(w) \/ Store(w)
    PROVE  LifeInv'
<1> USE DEF LifeInv
<1>1. CASE OpenFile(w)
  BY <1>1, Zenon DEF OpenFile, Reachable, configVars, Inside, Closed, Unarmed,
              TimerIdle, Writable
<1>2. CASE CloseFile(w)
  BY <1>2 DEF CloseFile, configVars, Inside, Closed, Unarmed, TimerIdle, Writable
<1>3. ASSUME NEW new, Enter(w, new)
      PROVE  /\ pc' = [pc EXCEPT ![w] = "interval_ms"]
             /\ UNCHANGED <<queued, callback>>
  BY <1>3 DEF Enter
<1>4. CASE Ioctl(w)
  BY <1>3, <1>4 DEF Ioctl, SetConfig, Inside, Closed, Unarmed, TimerIdle
<1>5. CASE Store(w)
  BY <1>3, <1>5, Zenon DEF Store, IntervalMsStore, EnabledStore, Inside, Closed,
                    Unarmed, TimerIdle, Writable
<1> QED
  BY <1>1, <1>2, <1>4, <1>5

(***************************************************************************)
(* The steps of apply_config: one that arms the timer after the cancel     *)
(* disturbs the exit, and where nothing may arm it nobody is inside.       *)
(***************************************************************************)
LEMMA ApplyStep ==
    ASSUME LifeInv, NEW w \in Writers, Step(w) PROVE LifeInv'
<1> USE DEF LifeInv
<1>1. /\ pc[w] # "idle" /\ callback' = callback
      /\ \E to \in {"enabled", "timer", "idle"} : pc' = [pc EXCEPT ![w] = to]
  BY DEF Step, Apply, ApplyInterval, ApplyEnabled, ApplyTimer
<1>2. /\ stores' = IF pc'[w] = "idle" THEN stores \ {w} ELSE stores
      /\ module' = module /\ files' = files
  BY DEF Step
<1>3. Inside'
  BY <1>1, <1>2 DEF Inside
<1>4. Closed'
  BY <1>2, Zenon DEF Step, Closed
<1>5. w \in files \union stores
  BY <1>1 DEF Inside
<1>6. Unarmed'
  <2>1. CASE module = "cancelled"
    BY <1>1, <2>1, <1>2, Zenon DEF Step, Unarmed, TimerIdle
  <2>2. CASE module # "cancelled"
    BY <1>2, <1>5, <2>2, Zenon DEF Step, Closed, Unarmed, Writable
  <2> QED
    BY <2>1, <2>2
<1> QED
  BY <1>1, <1>3, <1>4, <1>6

(* The timer expires or its callback runs. *)
LEMMA TimerStep ==
    ASSUME LifeInv, Timer, UNCHANGED <<module, files, stores, disturbed>>
    PROVE  LifeInv'
<1>1. pc' = pc
  BY DEF Timer, Expire, CallbackCheck, CallbackPush, CallbackForward,
         CallbackRestart
<1> QED
  BY <1>1, IdleStays DEF LifeInv, Inside, Closed, Unarmed

(***************************************************************************)
(* For any number of processes that open, configure and close the device   *)
(* while it is loaded and unloaded: outside the two windows, the timer, an *)
(* open file or a call under way never uses what kfree has taken.          *)
(***************************************************************************)
THEOREM FreedStaysUnused == LifeSpec => []FreedIsUnused
<1>1. LifeInit => LifeInv
  BY DEF LifeInit, LifeInv, Inside, Closed, Unarmed, TimerIdle, Writable
<1>2. LifeInv /\ [LifeNext]_lifeVars => LifeInv'
  <2> SUFFICES ASSUME LifeInv, [LifeNext]_lifeVars PROVE LifeInv'
    OBVIOUS
  <2>1. CASE UNCHANGED lifeVars
    BY <2>1 DEF lifeVars, configVars, LifeInv, Inside, Closed, Unarmed, TimerIdle
  <2> QED
    BY <2>1, InitStep, ExitStep, CallStep, ApplyStep, TimerStep DEF LifeNext
<1>3. LifeInv => FreedIsUnused
  BY DEF LifeInv, Inside, Closed, Unarmed, FreedIsUnused, Settled, Writable
<1> QED
  BY <1>1, <1>2, <1>3, PTL DEF LifeSpec
-----------------------------------------------------------------------------
(***************************************************************************)
(* The invariants of DriverConfig, from before the timer is started: only  *)
(* that it runs for an enabled device has to wait for hrtimer_start.       *)
(***************************************************************************)
LoadedInv ==
    /\ TypeOK /\ CancelCovers /\ SoleCall /\ start_ms \in IntervalRange
    /\ module = "loaded" => SoleInv

(* A step of a call or of the timer, at any point of init and exit. *)
LEMMA ConfigStep ==
    ASSUME LoadedInv, [Next]_configVars, UNCHANGED <<module, start_ms>>
    PROVE  LoadedInv'
<1> USE DEF LoadedInv
<1>1. TypeOK' /\ CancelCovers'
  BY NextType, NextCancelCovers
<1>2. ASSUME SoleInv' PROVE LoadedInv'
  BY <1>1, <1>2, Zenon DEF SoleInv, SoleCall
<1>3. CASE UNCHANGED configVars
  <2>1. (SoleInv => SoleInv') /\ SoleCall'
    BY <1>3 DEF configVars, SoleInv, SoleCall, OneUnderWay, StoredAsWanted,
         EnabledTimerRuns, TimerLive, Settled, IsEnabled
  <2> QED
    BY <1>1, <2>1
<1>4. CASE Timer
  <2>1. UNCHANGED <<pc, cfg, config, alone>>
    BY <1>4 DEF Timer, Expire, CallbackCheck, CallbackPush, CallbackForward,
         CallbackRestart
  <2>2. SoleCall'
    BY <2>1 DEF SoleCall, OneUnderWay, StoredAsWanted, IsEnabled
  <2> QED
    BY <1>1, <1>4, <2>2, TimerSole
<1>5. ASSUME NEW w \in Writers,
             SetConfig(w) \/ IntervalMsStore(w) \/ EnabledStore(w)
      PROVE  LoadedInv'
  BY <1>2, <1>5, EnterSole, Zenon DEF SetConfig, IntervalMsStore, EnabledStore
<1>6. ASSUME NEW w \in Writers, Apply(w) PROVE LoadedInv'
  BY <1>2, <1>6, ApplySole
<1> QED
  BY <1>3, <1>4, <1>5, <1>6 DEF Next

(* A step of init or exit. *)
LEMMA ModuleStep ==
    ASSUME LoadedInv,
           \/ Load \/ MiscRegister \/ SysfsCreateGroup \/ ReadInterval
           \/ StartTimer
           \/ Rmmod \/ ExitCancel \/ SysfsRemoveGroup \/ Free
    PROVE  LoadedInv'
<1> USE DEF LoadedInv, To, Goes
<1>1. CASE Load
  <2>1. TypeOK'
    BY <1>1 DEF Load, TypeOK, IntervalRange
  <2>2. CancelCovers' /\ SoleCall'
    BY <1>1 DEF Load, CancelCovers, IsEnabled, SoleCall, OneUnderWay,
         StoredAsWanted, Settled
  <2> QED
    BY <1>1, <2>1, <2>2 DEF Load
<1>2. CASE StartTimer
  <2>1. TypeOK' /\ queued' /\ start_ms' \in IntervalRange
    BY <1>2 DEF StartTimer, HrtimerStart, TypeOK, IntervalRange
  <2>2. CancelCovers' /\ SoleCall'
    BY <1>2 DEF StartTimer, CancelCovers, PastCheck, AboutToCancel, IsEnabled,
         SoleCall, OneUnderWay, StoredAsWanted
  <2>3. EnabledTimerRuns'
    BY <2>1 DEF EnabledTimerRuns, TimerLive
  <2> QED
    BY <2>1, <2>2, <2>3, Zenon DEF SoleInv, SoleCall
<1>3. CASE ExitCancel
  <2>1. TypeOK'
    BY <1>3, Zenon DEF ExitCancel, HrtimerCancel, TypeOK
  <2>2. CancelCovers' /\ SoleCall'
    BY <1>3 DEF ExitCancel, CancelCovers, PastCheck, AboutToCancel, IsEnabled,
         SoleCall, OneUnderWay, StoredAsWanted
  <2> QED
    BY <1>3, <2>1, <2>2 DEF ExitCancel
<1>4. CASE \/ MiscRegister \/ SysfsCreateGroup \/ Rmmod \/ SysfsRemoveGroup
           \/ Free \/ ReadInterval
  <2>1. UNCHANGED configVars /\ module' # "loaded" /\ start_ms' \in IntervalRange
    BY <1>4 DEF MiscRegister, SysfsCreateGroup, Rmmod, SysfsRemoveGroup, Free,
         ReadInterval, TypeOK
  <2> QED
    BY <2>1 DEF configVars, TypeOK, CancelCovers, PastCheck, AboutToCancel,
         IsEnabled, SoleCall, OneUnderWay, StoredAsWanted
<1> QED
  BY <1>1, <1>2, <1>3, <1>4

(***************************************************************************)
(* For any number of processes: whatever ioctls and stores do between      *)
(* misc_register and the end of sensorhub_init, a loaded device is quiet   *)
(* when disabled, and its timer runs when the last call alone enabled it.  *)
(***************************************************************************)
THEOREM LoadedStaysAgreed == LifeSpec => []LoadedAgrees
<1>1. LifeInit => LoadedInv
  <2>1. LifeInit => TypeOK
    <3> SUFFICES ASSUME LifeInit PROVE TypeOK
      OBVIOUS
    <3>1. 500 \in IntervalRange
      BY DEF IntervalRange
    <3>2. /\ config \in [interval_ms : IntervalRange, enabled : 0..1]
          /\ period \in IntervalRange
      BY <3>1 DEF LifeInit
    <3>3. cfg \in [Writers -> [interval_ms : IntervalRange, enabled : 0..2]]
      BY <3>2 DEF LifeInit
    <3> QED
      BY <3>2, <3>3, Zenon DEF LifeInit, TypeOK
  <2>2. LifeInit => CancelCovers /\ module # "loaded" /\ start_ms \in IntervalRange
    BY DEF LifeInit, CancelCovers, PastCheck, IntervalRange
  <2>3. LifeInit => OneUnderWay /\ StoredAsWanted
    BY DEF LifeInit, OneUnderWay, StoredAsWanted
  <2> QED
    BY <2>1, <2>2, <2>3 DEF LoadedInv, SoleCall
<1>2. LoadedInv /\ [LifeNext]_lifeVars => LoadedInv'
  <2> SUFFICES ASSUME LoadedInv, [LifeNext]_lifeVars PROVE LoadedInv'
    OBVIOUS
  <2>1. CASE UNCHANGED lifeVars
    BY <2>1, ConfigStep DEF lifeVars
  <2>2. CASE Timer /\ UNCHANGED <<module, files, stores, start_ms, disturbed>>
    BY <2>2, ConfigStep DEF Next
  <2>3. ASSUME NEW w \in Writers,
               \/ OpenFile(w) \/ CloseFile(w) \/ Ioctl(w) \/ Store(w)
               \/ Step(w)
        PROVE  LoadedInv'
    <3>1. [Next]_configVars /\ UNCHANGED <<module, start_ms>>
      BY <2>3 DEF OpenFile, CloseFile, Ioctl, Store, Step, Next
    <3> QED
      BY <3>1, ConfigStep
  <2> QED
    BY <2>1, <2>2, <2>3, ModuleStep DEF LifeNext
<1>3. LoadedInv => LoadedAgrees
  <2>1. TypeOK /\ CancelCovers => QuietWhenDisabled
    BY DEF TypeOK, CancelCovers, PastCheck, AboutToCancel, QuietWhenDisabled,
         Settled
  <2> QED
    BY <2>1 DEF LoadedInv, LoadedAgrees, SoleInv, SoleWriterDecides
<1> QED
  BY <1>1, <1>2, <1>3, PTL DEF LifeSpec
=============================================================================
