---------------------------- MODULE DriverConfig ----------------------------
(***************************************************************************)
(* The configuration of kernel/sensorhub_drv.c and the timer it governs:   *)
(* sensorhub_apply_config, reached through ioctl SET_CONFIG and through    *)
(* the sysfs files interval_ms and enabled, and sensorhub_timer_cb.        *)
(*                                                                         *)
(* None of this runs under dev->lock, so every access to dev->config and   *)
(* every call of the hrtimer interface is a step of its own.  The hrtimer  *)
(* itself belongs to the kernel: an enqueued timer expires when no         *)
(* callback runs, hrtimer_start enqueues also while the callback runs,     *)
(* hrtimer_cancel waits for the callback, hrtimer_forward_now leaves an    *)
(* enqueued timer alone, and HRTIMER_RESTART enqueues unless it already    *)
(* is.  What the callback pushes is the business of DriverFifo.            *)
(***************************************************************************)
EXTENDS Naturals

CONSTANTS Writers,  \* threads that change the configuration
          Inputs    \* the intervals they ask for, valid or not

ASSUME InputsAssumption == Inputs \subseteq Nat    \* an unsigned field

VARIABLES config,   \* dev->config
          pc,       \* where each writer is in the store or ioctl
          cfg,      \* its local copy of the configuration
          queued,   \* the timer is enqueued
          period,   \* the interval it was last armed with
          callback, \* where sensorhub_timer_cb is, or "none"
          alone     \* the last call had the configuration to itself

configVars == <<config, pc, cfg, queued, period, callback, alone>>

(* No store or ioctl is under way. *)
Settled == \A w \in Writers : pc[w] = "idle"

IsEnabled(c) == c.enabled # 0

(* -EINVAL outside 10..60000.  Mutant: zero is let through. *)
ValidIntervalNoMinimum(interval_ms) == interval_ms <= 60000
ValidInterval(interval_ms) == 10 <= interval_ms /\ interval_ms <= 60000

(* The state sensorhub_init leaves: enabled, every 500 ms, timer started. *)
Init ==
    /\ config = [interval_ms |-> 500, enabled |-> 1]
    /\ pc = [w \in Writers |-> "idle"]
    /\ cfg = [w \in Writers |-> config]
    /\ queued = TRUE
    /\ period = 500
    /\ callback = "none"
    /\ alone = TRUE

-----------------------------------------------------------------------------
(***************************************************************************)
(* The three ways in.  ioctl takes both fields from its caller, a sysfs    *)
(* store one field, and the other from a copy of dev->config made before   *)
(* parsing.  ioctl does not restrict enabled to 0 and 1.  A rejected input *)
(* changes nothing.                                                        *)
(***************************************************************************)
Enter(w, new) ==
    /\ pc[w] = "idle"
    /\ cfg' = [cfg EXCEPT ![w] = new]
    /\ pc' = [pc EXCEPT ![w] = "interval_ms"]
    /\ alone' = Settled
    /\ UNCHANGED <<config, queued, period, callback>>

SetConfig(w) ==
    \E i \in Inputs, e \in 0..2 :
        ValidInterval(i) /\ Enter(w, [interval_ms |-> i, enabled |-> e])

IntervalMsStore(w) ==
    \E i \in Inputs :
        ValidInterval(i) /\ Enter(w, [config EXCEPT !.interval_ms = i])

EnabledStore(w) ==
    \E e \in 0..1 : Enter(w, [config EXCEPT !.enabled = e])

(***************************************************************************)
(* sensorhub_apply_config: two stores, then the timer.                     *)
(***************************************************************************)
ApplyInterval(w) ==
    /\ pc[w] = "interval_ms"
    /\ config' = [config EXCEPT !.interval_ms = cfg[w].interval_ms]
    /\ pc' = [pc EXCEPT ![w] = "enabled"]
    /\ UNCHANGED <<cfg, queued, period, callback, alone>>

ApplyEnabled(w) ==
    /\ pc[w] = "enabled"
    /\ config' = [config EXCEPT !.enabled = IF IsEnabled(cfg[w]) THEN 1 ELSE 0]
    /\ pc' = [pc EXCEPT ![w] = "timer"]
    /\ UNCHANGED <<cfg, queued, period, callback, alone>>

HrtimerStart(interval_ms) ==
    /\ queued' = TRUE
    /\ period' = interval_ms

(* Mutant: hrtimer_try_to_cancel, which does not wait for the callback. *)
HrtimerTryToCancel ==
    /\ queued' = FALSE
    /\ UNCHANGED period

HrtimerCancel ==
    /\ callback = "none"
    /\ queued' = FALSE
    /\ UNCHANGED period

(* Mutant: an enabled configuration that is stored but not armed. *)
ApplyTimerCancelOnly(w) ==
    /\ pc[w] = "timer"
    /\ IF IsEnabled(cfg[w]) THEN UNCHANGED <<queued, period>> ELSE HrtimerCancel
    /\ pc' = [pc EXCEPT ![w] = "idle"]
    /\ UNCHANGED <<config, cfg, callback, alone>>

ApplyTimer(w) ==
    /\ pc[w] = "timer"
    /\ IF IsEnabled(cfg[w]) THEN HrtimerStart(cfg[w].interval_ms)
                            ELSE HrtimerCancel
    /\ pc' = [pc EXCEPT ![w] = "idle"]
    /\ UNCHANGED <<config, cfg, callback, alone>>

-----------------------------------------------------------------------------
(* The timer expires and sensorhub_timer_cb is called. *)
Expire ==
    /\ queued /\ callback = "none"
    /\ queued' = FALSE
    /\ callback' = "check"
    /\ UNCHANGED <<config, pc, cfg, period, alone>>

(* Mutant: the callback does not look at config.enabled. *)
CallbackAlwaysRuns ==
    /\ callback = "check"
    /\ callback' = "push"
    /\ UNCHANGED <<config, pc, cfg, queued, period, alone>>

(* A disabled device ends the callback with HRTIMER_NORESTART. *)
CallbackCheck ==
    /\ callback = "check"
    /\ callback' = IF IsEnabled(config) THEN "push" ELSE "none"
    /\ UNCHANGED <<config, pc, cfg, queued, period, alone>>

CallbackPush ==
    /\ callback = "push"
    /\ callback' = "forward"
    /\ UNCHANGED <<config, pc, cfg, queued, period, alone>>

(* Mutant: the interval is not read again. *)
CallbackForwardOld ==
    /\ callback = "forward"
    /\ callback' = "restart"
    /\ UNCHANGED <<config, pc, cfg, queued, period, alone>>

CallbackForward ==
    /\ callback = "forward"
    /\ period' = IF queued THEN period ELSE config.interval_ms
    /\ callback' = "restart"
    /\ UNCHANGED <<config, pc, cfg, queued, alone>>

CallbackRestart ==
    /\ callback = "restart"
    /\ queued' = TRUE
    /\ callback' = "none"
    /\ UNCHANGED <<config, pc, cfg, period, alone>>

Apply(w) == ApplyInterval(w) \/ ApplyEnabled(w) \/ ApplyTimer(w)
Timer == \/ Expire \/ CallbackCheck \/ CallbackPush \/ CallbackForward
         \/ CallbackRestart

Next ==
    \/ \E w \in Writers :
        SetConfig(w) \/ IntervalMsStore(w) \/ EnabledStore(w) \/ Apply(w)
    \/ Timer

Spec == Init /\ [][Next]_configVars

(* The clock runs: an armed timer expires, a callback ends. *)
FairSpec == Spec /\ WF_configVars(Timer)

-----------------------------------------------------------------------------
IntervalRange == {i \in Nat : i >= 10 /\ i <= 60000}

(***************************************************************************)
(* Every interval in force is within 10..60000: what ioctl and sysfs       *)
(* refuse never reaches the configuration or the timer.                    *)
(***************************************************************************)
TypeOK ==
    /\ config \in [interval_ms : IntervalRange, enabled : 0..1]
    /\ pc \in [Writers -> {"idle", "interval_ms", "enabled", "timer"}]
    /\ cfg \in [Writers -> [interval_ms : IntervalRange, enabled : 0..2]]
    /\ queued \in BOOLEAN
    /\ period \in IntervalRange
    /\ callback \in {"none", "check", "push", "forward", "restart"}
    /\ alone \in BOOLEAN

(* The timer is enqueued, or its callback is going to enqueue it. *)
TimerLive == queued \/ callback \in {"push", "forward", "restart"}
TimerIdle == ~queued /\ callback = "none"

(***************************************************************************)
(* Once the call that disabled the device has returned, no callback is     *)
(* past its test of config.enabled: no further sample is produced, also    *)
(* when another thread was enabling the device at the same time.           *)
(***************************************************************************)
QuietWhenDisabled ==
    Settled /\ ~IsEnabled(config) => callback \in {"none", "check"}

(***************************************************************************)
(* The comment in sensorhub_apply_config: with a single way in, no entry   *)
(* updates the state while another forgets the timer.  So when every call  *)
(* has returned, an enabled device has a timer that runs.                  *)
(***************************************************************************)
EnabledTimerRuns ==
    Settled /\ IsEnabled(config) => TimerLive \/ callback = "check"

(***************************************************************************)
(* A call of apply_config that had the configuration to itself leaves      *)
(* timer and configuration in agreement, also when an earlier race had     *)
(* left an enabled device without a timer.                                 *)
(***************************************************************************)
SoleWriterDecides == alone => EnabledTimerRuns

(***************************************************************************)
(* When every call has returned and the device is disabled, the timer      *)
(* stops, whichever of two racing writers armed it last.                   *)
(***************************************************************************)
DisabledTimerStops ==
    (Settled /\ ~IsEnabled(config)) ~> (~Settled \/ TimerIdle)

(***************************************************************************)
(* Whatever order concurrent writers armed the timer in, a timer that      *)
(* runs ends up with the interval the configuration shows.                 *)
(***************************************************************************)
PeriodConverges ==
    (Settled /\ IsEnabled(config) /\ TimerLive)
        ~> (~Settled \/ (queued /\ period = config.interval_ms))
=============================================================================
