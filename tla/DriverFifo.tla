----------------------------- MODULE DriverFifo -----------------------------
(***************************************************************************)
(* The data path of kernel/sensorhub_drv.c: the sample fifo and its        *)
(* counters under dev->lock, the wait queue, and the file operations       *)
(* open, release, read, write, poll and ioctl (GET_STATS, RESET) of        *)
(* several processes, against the hrtimer that produces samples.           *)
(*                                                                         *)
(* A spin-locked section is one action.  What the driver does with the     *)
(* lock released is a step of its own: the test for data before            *)
(* kfifo_out, copy_to_user after it, and wake_up_interruptible after the   *)
(* push.  Sizes are in bytes of a scaled-down sample; a byte of the fifo   *)
(* is the pair of the sample's seq and its offset in the sample, so that   *)
(* a torn sample would be visible.  When the timer may fire is the         *)
(* business of DriverConfig; here it may fire at any time.                 *)
(***************************************************************************)
EXTENDS Integers, Sequences, FiniteSets

CONSTANTS Procs,        \* the processes that use /dev/sensorhub0
          SampleBytes,  \* sizeof(struct sensorhub_sample)
          Slots,        \* SENSORHUB_FIFO_BYTES in samples
          BatchSlots,   \* length of the array samples[] in sensorhub_read
          Counts,       \* the sizes processes pass to read(2)
          MaxSeq        \* bound on the samples produced

ASSUME DriverAssumption ==
    /\ SampleBytes \in Nat \ {0}
    /\ Slots \in Nat \ {0}
    /\ BatchSlots \in Nat \ {0}
    /\ Counts \subseteq Nat
    /\ MaxSeq \in Nat
    /\ "hrtimer" \notin Procs

VARIABLES fifo,         \* dev->fifo
          next_seq, generated, injected, dropped, read_bytes, open_count,
          pc,           \* where each process, and the hrtimer, is
          want,         \* max_bytes of the read in progress
          samples,      \* the samples[] array of the read in progress
          ret           \* what the last system call returned

counters == <<next_seq, generated, injected, dropped, read_bytes>>
driverVars == <<fifo, counters, open_count, pc, want, samples, ret>>

Threads == Procs \union {"hrtimer"}
Smaller(a, b) == IF a < b THEN a ELSE b

(***************************************************************************)
(* kfifo_alloc(.., SENSORHUB_FIFO_BYTES): a power of two, as is the sample *)
(* size, so a whole number of samples.  Mutant: room for a part of one.    *)
(***************************************************************************)
FifoBytesUnaligned == Slots * SampleBytes + 1
FifoBytes == Slots * SampleBytes

SampleImage(seq) == [b \in 1..SampleBytes |-> <<seq, b>>]

(* kfifo_in copies what fits.  Mutant: all of it. *)
FifoRoomUnchecked(len) == len
FifoRoom(len) == Smaller(len, FifoBytes - Len(fifo))

HasData == fifo # <<>>

Init ==
    /\ fifo = <<>>
    /\ next_seq = 0
    /\ generated = 0 /\ injected = 0 /\ dropped = 0 /\ read_bytes = 0
    /\ open_count = 0
    /\ pc = [t \in Threads |-> IF t = "hrtimer" THEN "idle" ELSE "closed"]
    /\ want = [p \in Procs |-> 0]
    /\ samples = [p \in Procs |-> <<>>]
    /\ ret = [p \in Procs |-> "none"]

Returns(p, value) ==
    /\ pc' = [pc EXCEPT ![p] = "idle"]
    /\ ret' = [ret EXCEPT ![p] = value]

-----------------------------------------------------------------------------
Open(p) ==
    /\ pc[p] = "closed"
    /\ open_count' = open_count + 1
    /\ Returns(p, "ok")
    /\ UNCHANGED <<fifo, counters, want, samples>>

Release(p) ==
    /\ pc[p] = "idle"
    /\ open_count' = open_count - 1
    /\ pc' = [pc EXCEPT ![p] = "closed"]
    /\ ret' = [ret EXCEPT ![p] = "none"]
    /\ UNCHANGED <<fifo, counters, want, samples>>

(***************************************************************************)
(* The locked section of sensorhub_push_sample.  A sample that does not    *)
(* fit still uses up a sequence number.  Mutant: the bytes that fit are    *)
(* accounted as a sample.                                                  *)
(***************************************************************************)
PushSampleCountsFirst(is_injected) ==
    LET copied == FifoRoom(SampleBytes) IN
    /\ next_seq < MaxSeq
    /\ next_seq' = next_seq + 1
    /\ fifo' = fifo \o SubSeq(SampleImage(next_seq), 1, copied)
    /\ injected' = IF is_injected THEN injected + 1 ELSE injected
    /\ generated' = IF is_injected THEN generated ELSE generated + 1
    /\ dropped' = IF copied # SampleBytes THEN dropped + 1 ELSE dropped
    /\ UNCHANGED read_bytes

PushSample(is_injected) ==
    LET copied == FifoRoom(SampleBytes)
        fits   == copied = SampleBytes
    IN
    /\ next_seq < MaxSeq
    /\ next_seq' = next_seq + 1
    /\ fifo' = fifo \o SubSeq(SampleImage(next_seq), 1, copied)
    /\ dropped' = IF fits THEN dropped ELSE dropped + 1
    /\ injected' = IF fits /\ is_injected THEN injected + 1 ELSE injected
    /\ generated' = IF fits /\ ~is_injected THEN generated + 1 ELSE generated
    /\ UNCHANGED read_bytes

(***************************************************************************)
(* wake_up_interruptible(&dev->read_queue), after the lock was released:   *)
(* every sleeper of read() and of poll() evaluates its condition again.    *)
(* This is also where write() returns and the timer callback ends.         *)
(* Mutant: the wake-up is left out.                                        *)
(***************************************************************************)
Awake(state) ==
    CASE state = "asleep" -> "wait"
      [] state = "polling" -> "poll"
      [] OTHER -> state

WakesNobody(t) ==
    /\ pc[t] = "wake"
    /\ pc' = [pc EXCEPT ![t] = "idle"]
    /\ ret' = [p \in Procs |-> IF p = t THEN "ok" ELSE ret[p]]
    /\ UNCHANGED <<fifo, counters, open_count, want, samples>>

WakeUp(t) ==
    /\ pc[t] = "wake"
    /\ pc' = [u \in Threads |-> IF u = t THEN "idle" ELSE Awake(pc[u])]
    /\ ret' = [p \in Procs |-> IF p = t THEN "ok" ELSE ret[p]]
    /\ UNCHANGED <<fifo, counters, open_count, want, samples>>

(* sensorhub_timer_cb, up to the end of the push. *)
TimerFire ==
    /\ pc["hrtimer"] = "idle"
    /\ PushSample(FALSE)
    /\ pc' = [pc EXCEPT !["hrtimer"] = "wake"]
    /\ UNCHANGED <<open_count, want, samples, ret>>

(* sensorhub_write: a wrong size (-EINVAL) or buffer (-EFAULT) is refused. *)
WriteRefused(p) ==
    /\ pc[p] = "idle"
    /\ Returns(p, "error")
    /\ UNCHANGED <<fifo, counters, open_count, want, samples>>

Write(p) ==
    /\ pc[p] = "idle"
    /\ PushSample(TRUE)
    /\ pc' = [pc EXCEPT ![p] = "wake"]
    /\ UNCHANGED <<open_count, want, samples, ret>>

-----------------------------------------------------------------------------
(***************************************************************************)
(* count -= count % sizeof(sample), capped by the array on the stack.      *)
(* Mutant: count is not rounded down.                                      *)
(***************************************************************************)
MaxBytesUnrounded(count) == Smaller(count, BatchSlots * SampleBytes)
MaxBytes(count) ==
    Smaller(count - (count % SampleBytes), BatchSlots * SampleBytes)

(* sensorhub_read up to the end of its first sensorhub_has_data. *)
ReadEnter(p, count, nonblock) ==
    /\ pc[p] = "idle"
    /\ \/ /\ count < SampleBytes
          /\ Returns(p, "error")                  \* -EINVAL
          /\ UNCHANGED want
       \/ /\ count >= SampleBytes /\ ~HasData /\ nonblock
          /\ Returns(p, "error")                  \* -EAGAIN
          /\ UNCHANGED want
       \/ /\ count >= SampleBytes
          /\ HasData \/ ~nonblock
          /\ pc' = [pc EXCEPT ![p] = IF HasData THEN "out" ELSE "wait"]
          /\ want' = [want EXCEPT ![p] = MaxBytes(count)]
          /\ UNCHANGED ret
    /\ UNCHANGED <<fifo, counters, open_count, samples>>

(***************************************************************************)
(* One evaluation of the condition of wait_event_interruptible.  The wait  *)
(* queue guarantees that a wake-up after a failed evaluation is not lost,  *)
(* so evaluating and going to sleep are one step.                          *)
(***************************************************************************)
WaitEvent(p) ==
    /\ pc[p] = "wait"
    /\ pc' = [pc EXCEPT ![p] = IF HasData THEN "out" ELSE "asleep"]
    /\ UNCHANGED <<fifo, counters, open_count, want, samples, ret>>

(* A signal ends the sleep; data that is there by then is still read. *)
WaitInterrupted(p) ==
    /\ pc[p] = "asleep"
    /\ \/ ~HasData /\ Returns(p, "error")         \* -ERESTARTSYS
       \/ HasData /\ pc' = [pc EXCEPT ![p] = "out"] /\ UNCHANGED ret
    /\ UNCHANGED <<fifo, counters, open_count, want, samples>>

(***************************************************************************)
(* The locked section of sensorhub_read; kfifo_out takes what is there.    *)
(* Mutant: the samples are read and not taken out.                         *)
(***************************************************************************)
ReadPeek(p) ==
    LET copied == Smaller(want[p], Len(fifo)) IN
    /\ pc[p] = "out"
    /\ samples' = [samples EXCEPT ![p] = SubSeq(fifo, 1, copied)]
    /\ read_bytes' = read_bytes + copied
    /\ pc' = [pc EXCEPT ![p] = "copy"]
    /\ UNCHANGED <<fifo, next_seq, generated, injected, dropped, open_count,
                   want, ret>>

ReadOut(p) ==
    LET copied == Smaller(want[p], Len(fifo)) IN
    /\ pc[p] = "out"
    /\ samples' = [samples EXCEPT ![p] = SubSeq(fifo, 1, copied)]
    /\ fifo' = SubSeq(fifo, copied + 1, Len(fifo))
    /\ read_bytes' = read_bytes + copied
    /\ pc' = [pc EXCEPT ![p] = "copy"]
    /\ UNCHANGED <<next_seq, generated, injected, dropped, open_count, want, ret>>

(* copy_to_user; when it fails the samples are gone. *)
ReadCopy(p) ==
    /\ pc[p] = "copy"
    /\ \/ Returns(p, "error")                     \* -EFAULT
       \/ Returns(p, IF samples[p] = <<>> THEN "zero" ELSE "data")
    /\ samples' = [samples EXCEPT ![p] = <<>>]
    /\ want' = [want EXCEPT ![p] = 0]
    /\ UNCHANGED <<fifo, counters, open_count>>

-----------------------------------------------------------------------------
(***************************************************************************)
(* sensorhub_poll under epoll_wait: queue on read_queue, then test.  The   *)
(* wait ends with EPOLLIN or when its timeout expires.                     *)
(***************************************************************************)
PollEnter(p) ==
    /\ pc[p] = "idle"
    /\ pc' = [pc EXCEPT ![p] = "poll"]
    /\ UNCHANGED <<fifo, counters, open_count, want, samples, ret>>

Poll(p) ==
    /\ pc[p] = "poll"
    /\ \/ HasData /\ Returns(p, "ok")
       \/ ~HasData /\ pc' = [pc EXCEPT ![p] = "polling"] /\ UNCHANGED ret
    /\ UNCHANGED <<fifo, counters, open_count, want, samples>>

PollTimeout(p) ==
    /\ pc[p] = "polling"
    /\ Returns(p, "ok")
    /\ UNCHANGED <<fifo, counters, open_count, want, samples>>

(***************************************************************************)
(* What GET_STATS, the sysfs file stats and the debugfs file stats copy    *)
(* under the lock: one snapshot of one state.                              *)
(***************************************************************************)
Stats == [generated |-> generated, injected |-> injected,
          dropped |-> dropped, read_bytes |-> read_bytes,
          fifo_bytes |-> Len(fifo), fifo_capacity |-> FifoBytes,
          open_count |-> open_count]

(***************************************************************************)
(* SENSORHUB_IOC_RESET empties the fifo and clears the counters, but not   *)
(* next_seq.  Mutant: the fifo is forgotten.                               *)
(***************************************************************************)
ResetKeepsFifo(p) ==
    /\ pc[p] = "idle"
    /\ generated' = 0 /\ injected' = 0 /\ dropped' = 0 /\ read_bytes' = 0
    /\ Returns(p, "ok")
    /\ UNCHANGED <<fifo, next_seq, open_count, want, samples>>

Reset(p) ==
    /\ pc[p] = "idle"
    /\ fifo' = <<>>
    /\ generated' = 0 /\ injected' = 0 /\ dropped' = 0 /\ read_bytes' = 0
    /\ Returns(p, "ok")
    /\ UNCHANGED <<next_seq, open_count, want, samples>>

(* RESET, or GET_STATS, or -EFAULT, or an unknown command (-ENOTTY). *)
Ioctl(p) ==
    \/ Reset(p)
    \/ /\ pc[p] = "idle"
       /\ \E result \in {"ok", "error"} : Returns(p, result)
       /\ UNCHANGED <<fifo, counters, open_count, want, samples>>

Read(p) ==
    \/ \E count \in Counts, nonblock \in BOOLEAN : ReadEnter(p, count, nonblock)
    \/ WaitEvent(p) \/ WaitInterrupted(p) \/ ReadOut(p) \/ ReadCopy(p)

Next ==
    \/ TimerFire
    \/ \E t \in Threads : WakeUp(t)
    \/ \E p \in Procs :
        \/ Open(p) \/ Release(p)
        \/ WriteRefused(p) \/ Write(p)
        \/ Read(p)
        \/ PollEnter(p) \/ Poll(p) \/ PollTimeout(p)
        \/ Ioctl(p)

Spec == Init /\ [][Next]_driverVars

(***************************************************************************)
(* A callback or a system call that is running goes on: the producer       *)
(* reaches its wake-up, and a woken reader its next step.                  *)
(***************************************************************************)
FairSpec ==
    /\ Spec
    /\ \A t \in Threads : WF_driverVars(WakeUp(t))
    /\ \A p \in Procs : WF_driverVars(WaitEvent(p) \/ ReadOut(p) \/ ReadCopy(p))

-----------------------------------------------------------------------------
States == {"closed", "idle", "wait", "asleep", "out", "copy", "wake", "poll",
           "polling"}
Results == {"none", "ok", "data", "zero", "error"}

(* The type of the driver's state, with the bound on the fifo. *)
TypeOK ==
    /\ fifo \in Seq(Nat \X Nat)
    /\ Len(fifo) <= FifoBytes
    /\ next_seq \in Nat
    /\ generated \in Nat /\ injected \in Nat /\ dropped \in Nat
    /\ read_bytes \in Nat
    /\ open_count \in Int
    /\ pc \in [Threads -> States]
    /\ want \in [Procs -> Nat]
    /\ samples \in [Procs -> Seq(Nat \X Nat)]
    /\ ret \in [Procs -> Results]

(***************************************************************************)
(* Whole samples, oldest first: each is all its bytes in order, and the    *)
(* sequence numbers grow.                                                  *)
(***************************************************************************)
IsSampleStream(s) ==
    /\ Len(s) % SampleBytes = 0
    /\ \A i \in 1..Len(s) : s[i][2] = ((i - 1) % SampleBytes) + 1
    /\ \A i \in 1..(Len(s) - 1) :
        IF i % SampleBytes = 0 THEN s[i][1] < s[i + 1][1]
                               ELSE s[i][1] = s[i + 1][1]

(***************************************************************************)
(* Neither a full fifo nor an odd read size ever tears a sample: fifo and  *)
(* read buffers are sequences of whole samples with growing seq.           *)
(***************************************************************************)
SamplesIntact ==
    /\ IsSampleStream(fifo)
    /\ \A p \in Procs : IsSampleStream(samples[p])

(***************************************************************************)
(* Concurrent reads deliver a sample to one reader only, and never one     *)
(* that is newer than a sample still in the fifo.                          *)
(***************************************************************************)
DeliveredOnceInOrder ==
    \A p \in Procs : \A i \in DOMAIN samples[p] :
        /\ \A j \in DOMAIN fifo : samples[p][i][1] < fifo[j][1]
        /\ \A q \in Procs \ {p} : \A j \in DOMAIN samples[q] :
            samples[p][i][1] # samples[q][j][1]

(***************************************************************************)
(* Every statistics reader sees balanced books: the bytes accepted since   *)
(* the last RESET are those read plus those in the fifo.                   *)
(***************************************************************************)
BooksBalance ==
    (Stats.generated + Stats.injected) * SampleBytes
        = Stats.read_bytes + Stats.fifo_bytes

(***************************************************************************)
(* Every gap in the sequence numbers a reader can still see is counted in  *)
(* dropped, also after a RESET (which keeps next_seq).                     *)
(***************************************************************************)
GapsAreCounted ==
    HasData => (next_seq - fifo[1][1]) * SampleBytes
                   <= Len(fifo) + dropped * SampleBytes

(***************************************************************************)
(* Nobody sleeps in read() or poll() while there is data, unless the       *)
(* producer of the data is still on its way to wake_up_interruptible.      *)
(***************************************************************************)
NoStrandedSleeper ==
    HasData => \/ \A p \in Procs : pc[p] \notin {"asleep", "polling"}
               \/ \E t \in Threads : pc[t] = "wake"

(* A sample is dropped only when the fifo is full to the last byte. *)
DropOnlyWhenFull ==
    [][dropped' > dropped => Len(fifo) = FifoBytes]_driverVars

(* A reader that sleeps while there is data wakes up. *)
SleeperWakes ==
    \A p \in Procs :
        (pc[p] \in {"asleep", "polling"} /\ HasData)
            ~> (pc[p] \notin {"asleep", "polling"})

(***************************************************************************)
(* The comment in sensorhub_read: without data a non-blocking read         *)
(* returns -EAGAIN and a blocking read sleeps.  So no read returns 0.      *)
(***************************************************************************)
ReadNeverReturnsZero == \A p \in Procs : ret[p] # "zero"
=============================================================================
