--------------------------- MODULE DriverLifecycle ---------------------------
(***************************************************************************)
(* Loading and unloading kernel/sensorhub_drv.c: sensorhub_init and        *)
(* sensorhub_exit, step by step, around the configuration and the timer of *)
(* DriverConfig.  The device can be opened from misc_register on and the   *)
(* attributes written from sysfs_create_group on, so writers meet both     *)
(* ends.  From the kernel: exit does not start while a file is open (the   *)
(* fops name their owner), open fails once it has, and sysfs_remove_group  *)
(* waits for the stores under way.                                         *)
(***************************************************************************)
EXTENDS DriverConfig

VARIABLES module,     \* how far init or exit has come
          files,      \* the writers that hold the device open
          stores,     \* the writers inside a sysfs store
          start_ms,   \* the interval that init has read, 500 outside
          disturbed   \* a writer was in a window that nothing protects

lifeVars == <<configVars, module, files, stores, start_ms, disturbed>>

Reachable == {"registered", "attributes", "starting", "loaded"}
Writable == {"attributes", "starting", "loaded", "exit", "cancelled"}

LifeInit ==
    /\ config = [interval_ms |-> 500, enabled |-> 1]
    /\ pc = [w \in Writers |-> "idle"] /\ cfg = [w \in Writers |-> config]
    /\ queued = FALSE /\ period = 500 /\ callback = "none" /\ alone = TRUE
    /\ module = "allocated" /\ files = {} /\ stores = {}
    /\ start_ms = 500 /\ disturbed = FALSE

Goes(from, to) ==
    /\ module = from /\ module' = to
    /\ UNCHANGED <<files, stores>>

To(from, to) == Goes(from, to) /\ UNCHANGED start_ms

-----------------------------------------------------------------------------
(***************************************************************************)
(* sensorhub_init: memory and defaults; the device; its attributes and     *)
(* debugfs; the timer.  Each of the first calls may fail, and what was     *)
(* done is undone: nothing yet keeps a process from having opened the      *)
(* device before the attributes fail, so its memory may go while the       *)
(* device is open, or while an ioctl has left the timer armed.             *)
(***************************************************************************)
Load ==
    /\ To("absent", "allocated")
    /\ TimerIdle /\ Settled /\ files = {}
    /\ config' = [interval_ms |-> 500, enabled |-> 1]
    /\ alone' = TRUE /\ disturbed' = FALSE
    /\ UNCHANGED <<pc, cfg, queued, period, callback>>

MiscRegister ==
    /\ To("allocated", "registered") \/ To("allocated", "absent")
    /\ UNCHANGED <<configVars, disturbed>>

SysfsCreateGroup ==
    /\ \/ To("registered", "attributes") /\ disturbed' = FALSE
       \/ To("registered", "absent") /\ UNCHANGED disturbed
    /\ UNCHANGED configVars

(* hrtimer_start with the interval as it was read, in two steps. *)
ReadInterval ==
    /\ Goes("attributes", "starting")
    /\ start_ms' = config.interval_ms
    /\ UNCHANGED <<configVars, disturbed>>

(* Mutant: the timer is left to the first store. *)
StartNothing ==
    /\ Goes("starting", "loaded") /\ start_ms' = 500
    /\ UNCHANGED <<configVars, disturbed>>

StartTimer ==
    /\ Goes("starting", "loaded") /\ start_ms' = 500
    /\ HrtimerStart(start_ms)
    /\ UNCHANGED <<config, pc, cfg, callback, alone, disturbed>>

(***************************************************************************)
(* sensorhub_exit: hrtimer_cancel, then the attributes, then device and    *)
(* memory.  A store that arms the timer after the cancel disturbs it.      *)
(***************************************************************************)
Rmmod ==
    /\ To("loaded", "exit") /\ files = {}
    /\ UNCHANGED <<configVars, disturbed>>

(* Mutant: the timer is not cancelled. *)
ExitKeepsTimer ==
    /\ To("exit", "cancelled")
    /\ UNCHANGED <<configVars, disturbed>>

ExitCancel ==
    /\ To("exit", "cancelled")
    /\ HrtimerCancel
    /\ UNCHANGED <<config, pc, cfg, callback, alone, disturbed>>

SysfsRemoveGroup ==
    /\ To("cancelled", "hidden") /\ stores = {}
    /\ UNCHANGED <<configVars, disturbed>>

Free ==
    /\ To("hidden", "absent")
    /\ UNCHANGED <<configVars, disturbed>>

-----------------------------------------------------------------------------
(* What processes do: open, close, ioctl on an open file, sysfs stores. *)
OpenFile(w) ==
    /\ module \in Reachable
    /\ files' = files \union {w}
    /\ disturbed' = (disturbed \/ module = "registered")
    /\ UNCHANGED <<configVars, module, stores, start_ms>>

CloseFile(w) ==
    /\ w \in files /\ pc[w] = "idle"
    /\ files' = files \ {w}
    /\ UNCHANGED <<configVars, module, stores, start_ms, disturbed>>

Ioctl(w) ==
    /\ w \in files /\ SetConfig(w)
    /\ UNCHANGED <<module, files, stores, start_ms, disturbed>>

Store(w) ==
    /\ module \in Writable
    /\ IntervalMsStore(w) \/ EnabledStore(w)
    /\ stores' = stores \union {w}
    /\ UNCHANGED <<module, files, start_ms, disturbed>>

Step(w) ==
    /\ Apply(w)
    /\ stores' = IF pc'[w] = "idle" THEN stores \ {w} ELSE stores
    /\ disturbed' = (disturbed \/ (module = "cancelled" /\ queued' /\ ~queued))
    /\ UNCHANGED <<module, files, start_ms>>

LifeNext ==
    \/ Load \/ MiscRegister \/ SysfsCreateGroup \/ ReadInterval \/ StartTimer
    \/ Rmmod \/ ExitCancel \/ SysfsRemoveGroup \/ Free
    \/ \E w \in Writers :
        OpenFile(w) \/ CloseFile(w) \/ Ioctl(w) \/ Store(w) \/ Step(w)
    \/ Timer /\ UNCHANGED <<module, files, stores, start_ms, disturbed>>

LifeSpec == LifeInit /\ [][LifeNext]_lifeVars

-----------------------------------------------------------------------------
(***************************************************************************)
(* Once sensorhub_exit or a failed sensorhub_init has freed the device     *)
(* nothing uses it: the timer is idle, no file is open, no call is inside. *)
(* Two windows remain, in which the code relies on nobody being there: a   *)
(* store between hrtimer_cancel and the end of sysfs_remove_group that     *)
(* arms the timer again, and an open before sysfs_create_group fails.      *)
(***************************************************************************)
FreedIsUnused ==
    module = "absent" /\ ~disturbed => TimerIdle /\ files = {} /\ Settled

(***************************************************************************)
(* Stores and ioctls that race with sensorhub_init do no harm: however     *)
(* its hrtimer_start falls between their steps, a loaded device is quiet   *)
(* when disabled and its timer runs when the last call alone enabled it.   *)
(***************************************************************************)
LoadedAgrees == module = "loaded" => QuietWhenDisabled /\ SoleWriterDecides
=============================================================================
