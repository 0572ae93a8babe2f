-------------------------- MODULE DriverFifoProofs --------------------------
(***************************************************************************)
(* Proofs about DriverFifo for every sample size, fifo and batch length,   *)
(* any set of processes and of read sizes: its type, that nobody is left   *)
(* asleep with data in the fifo, that the books balance, and that samples  *)
(* stay whole, are delivered once and in order, with every gap counted;    *)
(* that a sleeper is woken, and that a sole reader never reads 0 bytes.    *)
(***************************************************************************)
EXTENDS DriverFifo, SequenceTheorems, TLAPS

Byte == Nat \X Nat

(* The smaller of two sizes is a size, and bounded by both. *)
LEMMA SmallerNat ==
    ASSUME NEW a \in Nat, NEW b \in Nat
    PROVE  /\ Smaller(a, b) \in Nat
           /\ Smaller(a, b) <= a
           /\ Smaller(a, b) <= b
           /\ Smaller(a, b) = a \/ Smaller(a, b) = b
BY DEF Smaller

(* The sizes derived from the constants are natural numbers. *)
LEMMA SizesNat == FifoBytes \in Nat /\ BatchSlots * SampleBytes \in Nat
BY DriverAssumption DEF FifoBytes

(* What read() asks of the fifo is a natural number. *)
LEMMA MaxBytesNat ==
    ASSUME NEW count \in Counts PROVE MaxBytes(count) \in Nat
<1>1. count \in Nat /\ count % SampleBytes \in Nat /\ count % SampleBytes <= count
  BY DriverAssumption
<1>2. count - (count % SampleBytes) \in Nat
  BY <1>1
<1> QED
  BY <1>2, SizesNat, SmallerNat DEF MaxBytes

(* What a push appends: nothing but bytes of the sample, as many as fit. *)
LEMMA PushAppends ==
    ASSUME TypeOK, NEW b \in BOOLEAN, PushSample(b)
    PROVE  /\ fifo' \in Seq(Byte)
           /\ FifoRoom(SampleBytes) \in Nat
           /\ FifoRoom(SampleBytes) <= FifoBytes - Len(fifo)
           /\ FifoRoom(SampleBytes) <= SampleBytes
           /\ Len(fifo') = Len(fifo) + FifoRoom(SampleBytes)
<1> DEFINE copied == FifoRoom(SampleBytes)
<1> DEFINE part == SubSeq(SampleImage(next_seq), 1, copied)
<1>1. fifo \in Seq(Byte) /\ Len(fifo) \in Nat /\ FifoBytes - Len(fifo) \in Nat
  BY SizesNat, LenProperties DEF TypeOK, Byte
<1>2. /\ copied \in Nat /\ copied <= SampleBytes
      /\ copied <= FifoBytes - Len(fifo)
  BY <1>1, DriverAssumption, SmallerNat, Zenon DEF FifoRoom
<1>3. \A i \in 1..copied : SampleImage(next_seq)[i] \in Byte
  BY <1>2, DriverAssumption DEF SampleImage, Byte, TypeOK
<1>4. part \in Seq(Byte) /\ Len(part) = copied
  <2> HIDE DEF copied
  <2>1. /\ part \in Seq(Byte)
        /\ Len(part) = IF 1 <= copied THEN copied - 1 + 1 ELSE 0
    BY <1>2, <1>3, SubSeqProperties
  <2> QED
    BY <1>2, <2>1
<1>5. fifo' = fifo \o part
  BY DEF PushSample
<1> HIDE DEF part, copied
<1>6. fifo' \in Seq(Byte) /\ Len(fifo') = Len(fifo) + copied
  BY <1>1, <1>4, <1>5, ConcatProperties, Zenon
<1> QED
  BY <1>2, <1>6 DEF copied

(* What kfifo_out moves: a prefix into samples[], the rest stays. *)
LEMMA ReadOutMoves ==
    ASSUME TypeOK, NEW p \in Procs, ReadOut(p)
    PROVE  /\ fifo' \in Seq(Byte)
           /\ samples' \in [Procs -> Seq(Byte)]
           /\ Smaller(want[p], Len(fifo)) \in Nat
           /\ Smaller(want[p], Len(fifo)) <= Len(fifo)
           /\ Len(fifo') = Len(fifo) - Smaller(want[p], Len(fifo))
           /\ read_bytes' = read_bytes + Smaller(want[p], Len(fifo))
<1> DEFINE copied == Smaller(want[p], Len(fifo))
<1>1. fifo \in Seq(Byte) /\ Len(fifo) \in Nat
  BY LenProperties DEF TypeOK, Byte
<1>2. copied \in Nat /\ copied <= Len(fifo)
  BY <1>1, SmallerNat DEF TypeOK
<1>3. /\ samples' = [samples EXCEPT ![p] = SubSeq(fifo, 1, copied)]
      /\ fifo' = SubSeq(fifo, copied + 1, Len(fifo))
      /\ read_bytes' = read_bytes + copied
  BY DEF ReadOut
<1> HIDE DEF copied
<1>4. \A i \in 1..copied : fifo[i] \in Byte
  BY <1>1, <1>2, ElementOfSeq
<1>5. SubSeq(fifo, 1, copied) \in Seq(Byte)
  BY <1>2, <1>4, SubSeqProperties
<1>6. \A i \in (copied + 1)..Len(fifo) : fifo[i] \in Byte
  BY <1>1, <1>2, ElementOfSeq
<1>7. /\ fifo' \in Seq(Byte)
      /\ Len(fifo') = IF copied + 1 <= Len(fifo) THEN Len(fifo) - (copied + 1) + 1
                                                 ELSE 0
  BY <1>1, <1>2, <1>3, <1>6, SubSeqProperties
<1>8. Len(fifo') = Len(fifo) - copied
  BY <1>1, <1>2, <1>7
<1>9. samples' \in [Procs -> Seq(Byte)]
  BY <1>3, <1>5 DEF TypeOK, Byte
<1> QED
  BY <1>2, <1>3, <1>7, <1>8, <1>9 DEF copied

-----------------------------------------------------------------------------
(* A system call that returns keeps the types of pc and ret. *)
LEMMA ReturnsType ==
    ASSUME TypeOK, NEW p \in Procs, NEW r \in Results, Returns(p, r)
    PROVE  pc' \in [Threads -> States] /\ ret' \in [Procs -> Results]
BY DEF TypeOK, Returns, Threads, States

(* Every step keeps the type. *)
LEMMA NextType == TypeOK /\ [Next]_driverVars => TypeOK'
<1> SUFFICES ASSUME TypeOK, [Next]_driverVars PROVE TypeOK'
  OBVIOUS
<1>0. Procs \subseteq Threads /\ "hrtimer" \in Threads
  BY DEF Threads
<1>1. ASSUME NEW b \in BOOLEAN, PushSample(b)
      PROVE  /\ fifo' \in Seq(Nat \X Nat) /\ Len(fifo') <= FifoBytes
             /\ next_seq' \in Nat /\ generated' \in Nat /\ injected' \in Nat
             /\ dropped' \in Nat /\ read_bytes' \in Nat
  <2>1. Len(fifo) \in Nat
    BY LenProperties DEF TypeOK
  <2>2. fifo' \in Seq(Nat \X Nat) /\ Len(fifo') <= FifoBytes
    BY <1>1, <2>1, PushAppends, SizesNat DEF Byte
  <2> QED
    BY <1>1, <2>2 DEF PushSample, TypeOK
<1>2. CASE TimerFire
  BY <1>0, <1>1, <1>2, Zenon DEF TimerFire, TypeOK, States
<1>3. ASSUME NEW p \in Procs, Write(p) PROVE TypeOK'
  BY <1>0, <1>1, <1>3, Zenon DEF Write, TypeOK, States
<1>4. ASSUME NEW t \in Threads, WakeUp(t) PROVE TypeOK'
  BY <1>4 DEF WakeUp, Awake, TypeOK, States, Results, counters
<1>5. ASSUME NEW p \in Procs, Open(p) PROVE TypeOK'
  BY <1>5, ReturnsType DEF Open, TypeOK, Results, counters
<1>6. ASSUME NEW p \in Procs, Release(p) PROVE TypeOK'
  BY <1>0, <1>6 DEF Release, TypeOK, States, Results, counters
<1>7. ASSUME NEW p \in Procs, WriteRefused(p) PROVE TypeOK'
  BY <1>7, ReturnsType DEF WriteRefused, TypeOK, Results, counters
<1>8. ASSUME NEW p \in Procs, NEW count \in Counts, NEW nonblock \in BOOLEAN,
             ReadEnter(p, count, nonblock)
      PROVE  TypeOK'
  <2>1. want' \in [Procs -> Nat]
    BY <1>8, MaxBytesNat DEF ReadEnter, TypeOK
  <2>2. pc' \in [Threads -> States] /\ ret' \in [Procs -> Results]
    BY <1>0, <1>8, ReturnsType, Zenon DEF ReadEnter, TypeOK, States, Results
  <2> QED
    BY <1>8, <2>1, <2>2 DEF ReadEnter, TypeOK, counters
<1>9. ASSUME NEW p \in Procs, WaitEvent(p) PROVE TypeOK'
  BY <1>0, <1>9 DEF WaitEvent, TypeOK, States, counters
<1>10. ASSUME NEW p \in Procs, WaitInterrupted(p) PROVE TypeOK'
  <2>1. pc' \in [Threads -> States] /\ ret' \in [Procs -> Results]
    BY <1>0, <1>10, ReturnsType, Zenon DEF WaitInterrupted, TypeOK, States, Results
  <2> QED
    BY <1>10, <2>1 DEF WaitInterrupted, TypeOK, counters
<1>11. ASSUME NEW p \in Procs, ReadOut(p) PROVE TypeOK'
  <2>1. /\ fifo' \in Seq(Nat \X Nat) /\ Len(fifo') <= FifoBytes
        /\ samples' \in [Procs -> Seq(Nat \X Nat)]
        /\ read_bytes' \in Nat
    <3>1. /\ fifo' \in Seq(Byte) /\ samples' \in [Procs -> Seq(Byte)]
          /\ Smaller(want[p], Len(fifo)) \in Nat
          /\ Smaller(want[p], Len(fifo)) <= Len(fifo)
          /\ Len(fifo') = Len(fifo) - Smaller(want[p], Len(fifo))
          /\ read_bytes' = read_bytes + Smaller(want[p], Len(fifo))
      BY <1>11, ReadOutMoves, Zenon
    <3>2. PICK c \in Nat : c = Smaller(want[p], Len(fifo))
      BY <3>1, Zenon
    <3>3. Len(fifo) \in Nat /\ FifoBytes \in Nat /\ read_bytes \in Nat /\ Len(fifo) <= FifoBytes
      BY SizesNat, LenProperties DEF TypeOK
    <3>4. Len(fifo') = Len(fifo) - c /\ c <= Len(fifo) /\ read_bytes' = read_bytes + c
      BY <3>1, <3>2, Zenon
    <3>5. Len(fifo') <= FifoBytes /\ read_bytes' \in Nat
      BY <3>3, <3>4, SMT
    <3> QED
      BY <3>1, <3>5, Zenon DEF Byte
  <2> QED
    BY <1>0, <1>11, <2>1, Zenon DEF ReadOut, TypeOK, States
<1>12. ASSUME NEW p \in Procs, ReadCopy(p) PROVE TypeOK'
  <2>1. pc' \in [Threads -> States] /\ ret' \in [Procs -> Results]
    BY <1>12, ReturnsType DEF ReadCopy, Results
  <2>2. samples' \in [Procs -> Seq(Nat \X Nat)] /\ want' \in [Procs -> Nat]
    BY <1>12, EmptySeq DEF ReadCopy, TypeOK
  <2> QED
    BY <1>12, <2>1, <2>2 DEF ReadCopy, TypeOK, counters
<1>13. ASSUME NEW p \in Procs, PollEnter(p) PROVE TypeOK'
  BY <1>0, <1>13 DEF PollEnter, TypeOK, States, counters
<1>14. ASSUME NEW p \in Procs, Poll(p) PROVE TypeOK'
  <2>1. pc' \in [Threads -> States] /\ ret' \in [Procs -> Results]
    BY <1>0, <1>14, ReturnsType, Zenon DEF Poll, TypeOK, States, Results
  <2> QED
    BY <1>14, <2>1 DEF Poll, TypeOK, counters
<1>15. ASSUME NEW p \in Procs, PollTimeout(p) PROVE TypeOK'
  BY <1>15, ReturnsType DEF PollTimeout, TypeOK, Results, counters
<1>16. ASSUME NEW p \in Procs, Reset(p) PROVE TypeOK'
  <2>1. fifo' \in Seq(Nat \X Nat) /\ Len(fifo') <= FifoBytes
    BY <1>16, EmptySeq, SizesNat DEF Reset
  <2> QED
    BY <1>16, <2>1, ReturnsType DEF Reset, TypeOK, Results
<1>17. ASSUME NEW p \in Procs, Ioctl(p), ~Reset(p) PROVE TypeOK'
  BY <1>17, ReturnsType DEF Ioctl, TypeOK, Results, counters
<1>18. CASE UNCHANGED driverVars
  BY <1>18 DEF driverVars, counters, TypeOK
<1> QED
  BY <1>2, <1>3, <1>4, <1>5, <1>6, <1>7, <1>8, <1>9, <1>10, <1>11, <1>12, <1>13,
     <1>14, <1>15, <1>16, <1>17, <1>18 DEF Next, Read

(***************************************************************************)
(* Type correctness: the fifo never holds more than its capacity, and what *)
(* readers get are bytes of samples.                                       *)
(***************************************************************************)
THEOREM TypeCorrect == Spec => []TypeOK
<1>1. Init => TypeOK
  BY EmptySeq, SizesNat DEF Init, TypeOK, Threads, States, Results
<1> QED
  BY <1>1, NextType, PTL DEF Spec

-----------------------------------------------------------------------------
(* Process p sleeps in read() or in poll(). *)
Sleeping(p) == pc[p] \in {"asleep", "polling"}

(* Every step keeps sleepers covered. *)
LEMMA NextNoStrandedSleeper ==
    TypeOK /\ NoStrandedSleeper /\ [Next]_driverVars => NoStrandedSleeper'
<1> SUFFICES ASSUME TypeOK, NoStrandedSleeper, [Next]_driverVars, HasData',
                    NEW q \in Procs, Sleeping(q)'
             PROVE  \E t \in Threads : pc'[t] = "wake"
  BY DEF NoStrandedSleeper, Sleeping
<1>0. Procs \subseteq Threads /\ "hrtimer" \in Threads
  BY DEF Threads
<1>1. CASE TimerFire
  <2>1. pc'["hrtimer"] = "wake"
    BY <1>0, <1>1 DEF TimerFire, TypeOK
  <2> QED
    BY <1>0, <2>1
<1>2. ASSUME NEW p \in Procs, Write(p) PROVE \E t \in Threads : pc'[t] = "wake"
  <2>1. pc'[p] = "wake"
    BY <1>0, <1>2 DEF Write, TypeOK
  <2> QED
    BY <1>0, <2>1
<1>3. ASSUME NEW t \in Threads, WakeUp(t) PROVE FALSE
  BY <1>0, <1>3 DEF WakeUp, Awake, Sleeping, TypeOK
(* In every other step the fifo held data before, the sleeper slept, and
   nobody gave up a pending wake-up. *)
<1>4. ASSUME HasData, Sleeping(q),
             \A t \in Threads : pc[t] = "wake" => pc'[t] = "wake"
      PROVE  \E t \in Threads : pc'[t] = "wake"
  BY <1>4 DEF NoStrandedSleeper, Sleeping
<1>5. ASSUME NEW p \in Procs, pc[p] # "wake", NEW s,
             pc' = [pc EXCEPT ![p] = s], s \in {"asleep", "polling"} => ~HasData,
             HasData' => HasData
      PROVE  \E t \in Threads : pc'[t] = "wake"
  <2>1. \A t \in Threads : pc[t] = "wake" => pc'[t] = "wake"
    BY <1>0, <1>5 DEF TypeOK
  <2>2. Sleeping(q)
    BY <1>0, <1>5 DEF TypeOK, Sleeping
  <2> QED
    BY <1>4, <1>5, <2>1, <2>2
<1>6. ASSUME NEW p \in Procs, Open(p) \/ Release(p) \/ WriteRefused(p)
      PROVE  \E t \in Threads : pc'[t] = "wake"
  BY <1>5, <1>6, Zenon DEF Open, Release, WriteRefused, Returns, HasData
<1>7. ASSUME NEW p \in Procs, NEW count \in Counts, NEW nonblock \in BOOLEAN,
             ReadEnter(p, count, nonblock)
      PROVE  \E t \in Threads : pc'[t] = "wake"
  BY <1>5, <1>7, Zenon DEF ReadEnter, Returns, HasData
<1>8. ASSUME NEW p \in Procs, WaitEvent(p) \/ WaitInterrupted(p)
      PROVE  \E t \in Threads : pc'[t] = "wake"
  BY <1>5, <1>8 DEF WaitEvent, WaitInterrupted, Returns, HasData
<1>9. ASSUME NEW p \in Procs, ReadOut(p) PROVE \E t \in Threads : pc'[t] = "wake"
  <2>1. HasData
    <3> SUFFICES ASSUME fifo = <<>> PROVE FALSE
      BY DEF HasData
    <3>1. fifo' \in Seq(Byte) /\ Len(fifo') = 0
      BY <1>9, ReadOutMoves, EmptySeq
    <3> QED
      BY <3>1, EmptySeq DEF HasData
  <2> QED
    BY <1>5, <1>9, <2>1, Zenon DEF ReadOut
<1>10. ASSUME NEW p \in Procs, ReadCopy(p)
       PROVE  \E t \in Threads : pc'[t] = "wake"
  BY <1>5, <1>10 DEF ReadCopy, Returns, HasData
<1>11. ASSUME NEW p \in Procs, PollEnter(p) \/ Poll(p) \/ PollTimeout(p)
       PROVE  \E t \in Threads : pc'[t] = "wake"
  BY <1>5, <1>11 DEF PollEnter, Poll, PollTimeout, Returns, HasData
<1>12. ASSUME NEW p \in Procs, Ioctl(p) PROVE \E t \in Threads : pc'[t] = "wake"
  BY <1>5, <1>12, Zenon DEF Ioctl, Reset, Returns, HasData
<1>13. CASE UNCHANGED driverVars
  BY <1>4, <1>13 DEF driverVars, HasData, Sleeping
<1> QED
  BY <1>1, <1>2, <1>3, <1>6, <1>7, <1>8, <1>9, <1>10, <1>11, <1>12, <1>13
  DEF Next, Read

(***************************************************************************)
(* For any number of readers, pollers and writers: nobody sleeps on a      *)
(* fifo with data, unless the timer callback or the write() that put it    *)
(* there has still to call wake_up_interruptible.                          *)
(***************************************************************************)
THEOREM NeverStranded == Spec => []NoStrandedSleeper
<1>1. Init => NoStrandedSleeper
  BY DEF Init, NoStrandedSleeper, HasData
<1> QED
  BY <1>1, TypeCorrect, NextNoStrandedSleeper, PTL DEF Spec

-----------------------------------------------------------------------------
(***************************************************************************)
(* Weak fairness of the wake-up of thread t, written without ENABLED: t    *)
(* is infinitely often not in front of wake_up_interruptible, or it calls  *)
(* it infinitely often.  pc[t] = "wake" is the only guard of WakeUp(t),    *)
(* and the step always changes pc.                                         *)
(***************************************************************************)
FairWakeUp(t) == []<>(pc[t] # "wake") \/ []<><<WakeUp(t)>>_driverVars
FairWakeUps == \A t \in Threads : FairWakeUp(t)

(* p sleeps in read() or poll(). *)
Sleeps(p) == pc[p] \in {"asleep", "polling"}

(* p sleeps, and t has pushed a sample and not yet woken the sleepers. *)
SleepsBefore(p, t) == Sleeps(p) /\ pc[t] = "wake"

(* A sleeper in front of a pending wake-up stays so or is woken. *)
LEMMA WakeUpPending ==
    ASSUME NEW p \in Procs, NEW t \in Threads
    PROVE  TypeOK /\ SleepsBefore(p, t) /\ [Next]_driverVars
               => SleepsBefore(p, t)' \/ ~Sleeps(p)'
<1> SUFFICES ASSUME TypeOK, SleepsBefore(p, t), [Next]_driverVars, Sleeps(p)'
             PROVE  pc'[t] = "wake"
  BY DEF SleepsBefore, Sleeps
<1> USE DEF SleepsBefore, Sleeps
<1>1. pc \in [Threads -> States] /\ p \in Threads /\ "hrtimer" \in Threads
  BY DEF TypeOK, Threads
<1>2. p # t
  OBVIOUS
<1>3. CASE TimerFire
  BY <1>1, <1>3 DEF TimerFire
<1>4. ASSUME NEW u \in Threads, WakeUp(u) PROVE pc'[t] = "wake"
  <2>1. pc'[p] = IF p = u THEN "idle" ELSE Awake(pc[p])
    BY <1>1, <1>4 DEF WakeUp
  <2>2. pc'[p] \in {"idle", "wait", "poll"}
    BY <2>1 DEF Awake
  <2> QED
    BY <2>2
<1>5. ASSUME NEW q \in Procs, NEW s, pc[q] # "wake", pc' = [pc EXCEPT ![q] = s]
      PROVE  pc'[t] = "wake"
  BY <1>1, <1>5, Zenon
<1>6. ASSUME NEW q \in Procs,
             \/ Open(q) \/ Release(q) \/ WriteRefused(q) \/ Write(q)
             \/ PollEnter(q) \/ Poll(q) \/ PollTimeout(q) \/ Ioctl(q)
      PROVE  \E s : pc[q] # "wake" /\ pc' = [pc EXCEPT ![q] = s]
  BY <1>6, Zenon DEF Open, Release, WriteRefused, Write, PollEnter, Poll, PollTimeout,
              Ioctl, Reset, Returns
<1>7. ASSUME NEW q \in Procs, Read(q)
      PROVE  \E s : pc[q] # "wake" /\ pc' = [pc EXCEPT ![q] = s]
  BY <1>7 DEF Read, ReadEnter, WaitEvent, WaitInterrupted, ReadOut, ReadCopy,
              Returns
<1>8. CASE UNCHANGED driverVars
  BY <1>8 DEF driverVars
<1> QED
  BY <1>3, <1>4, <1>5, <1>6, <1>7, <1>8 DEF Next

(* wake_up_interruptible wakes every sleeper. *)
LEMMA WakeUpWakes ==
    ASSUME NEW p \in Procs, NEW t \in Threads
    PROVE  TypeOK /\ SleepsBefore(p, t) /\ <<WakeUp(t)>>_driverVars
               => ~Sleeps(p)'
<1> SUFFICES ASSUME TypeOK, SleepsBefore(p, t), WakeUp(t)
             PROVE  pc'[p] \notin {"asleep", "polling"}
  BY DEF Sleeps
<1>1. pc'[p] = IF p = t THEN "idle" ELSE Awake(pc[p])
  BY DEF WakeUp, Threads
<1>2. pc'[p] \in {"idle", "wait", "poll"}
  BY <1>1 DEF Awake, SleepsBefore, Sleeps
<1> QED
  BY <1>2

(* A pending wake-up of t ends the sleep of p. *)
LEMMA PendingWakes ==
    ASSUME NEW p \in Procs, NEW t \in Threads
    PROVE  Spec /\ FairWakeUp(t) => (SleepsBefore(p, t) ~> ~Sleeps(p))
<1>1. SleepsBefore(p, t) => ~(pc[t] # "wake")
  BY DEF SleepsBefore
<1> QED
  BY <1>1, TypeCorrect, WakeUpPending, WakeUpWakes, PTL DEF Spec, FairWakeUp

(***************************************************************************)
(* The liveness of read() and poll(), for any number of processes: when    *)
(* producers reach their wake-up, a reader or poller that sleeps while     *)
(* there is data wakes up.  No fairness of the sleepers is needed, and     *)
(* none of the readers that may take the data away first.                  *)
(***************************************************************************)
THEOREM SleepersAreWoken == Spec /\ FairWakeUps => SleeperWakes
<1> SUFFICES ASSUME NEW p \in Procs
             PROVE  Spec /\ FairWakeUps
                        => ((pc[p] \in {"asleep", "polling"} /\ HasData)
                               ~> (pc[p] \notin {"asleep", "polling"}))
  BY DEF SleeperWakes
<1>1. Spec /\ FairWakeUps
          => \A t \in Threads : [](SleepsBefore(p, t) => <>~Sleeps(p))
  <2> SUFFICES ASSUME NEW t \in Threads
               PROVE  Spec /\ FairWakeUps
                          => [](SleepsBefore(p, t) => <>~Sleeps(p))
    OBVIOUS
  <2>1. FairWakeUps => FairWakeUp(t)
    BY DEF FairWakeUps
  <2> QED
    BY <2>1, PendingWakes, PTL
<1>2. (\A t \in Threads : [](SleepsBefore(p, t) => <>~Sleeps(p)))
          => [](\A t \in Threads : SleepsBefore(p, t) => <>~Sleeps(p))
  OBVIOUS
<1>3. (\A t \in Threads : SleepsBefore(p, t) => <>~Sleeps(p))
          => ((\E t \in Threads : SleepsBefore(p, t)) => <>~Sleeps(p))
  OBVIOUS
<1>4. NoStrandedSleeper /\ pc[p] \in {"asleep", "polling"} /\ HasData
          => \E t \in Threads : SleepsBefore(p, t)
  BY DEF NoStrandedSleeper, SleepsBefore, Sleeps
<1>5. ~Sleeps(p) => pc[p] \notin {"asleep", "polling"}
  BY DEF Sleeps
<1> QED
  BY <1>1, <1>2, <1>3, <1>4, <1>5, NeverStranded, PTL

-----------------------------------------------------------------------------
(* A number of bytes that is a number of whole samples. *)
Whole(n) == \E k \in Nat : n = k * SampleBytes

(* Whole samples are closed under sums and differences. *)
LEMMA WholeArithmetic ==
    ASSUME NEW a \in Nat, NEW b \in Nat, Whole(a), Whole(b)
    PROVE  Whole(a + b) /\ (b <= a => Whole(a - b))
<1>1. PICK j \in Nat : a = j * SampleBytes
  BY DEF Whole
<1>2. PICK k \in Nat : b = k * SampleBytes
  BY DEF Whole
<1>3. j + k \in Nat /\ a + b = (j + k) * SampleBytes
  BY <1>1, <1>2, DriverAssumption
<1>4. ASSUME b <= a PROVE Whole(a - b)
  <2>1. k <= j
    <3> SUFFICES ASSUME j + 1 <= k PROVE FALSE
      OBVIOUS
    <3>1. (j + 1) * SampleBytes <= k * SampleBytes
      BY DriverAssumption
    <3> QED
      BY <1>1, <1>2, <1>4, <3>1, DriverAssumption
  <2>2. j - k \in Nat /\ a - b = (j - k) * SampleBytes
    BY <1>1, <1>2, <2>1, DriverAssumption
  <2> QED
    BY <2>2 DEF Whole
<1> QED
  BY <1>3, <1>4 DEF Whole

(* Some whole samples are at least one. *)
LEMMA WholeAtLeastOne ==
    ASSUME NEW n \in Nat, Whole(n), n # 0 PROVE n >= SampleBytes
<1>1. PICK k \in Nat : n = k * SampleBytes
  BY DEF Whole
<1>2. k >= 1
  BY <1>1, DriverAssumption
<1>3. k * SampleBytes >= 1 * SampleBytes
  BY <1>2, DriverAssumption
<1> QED
  BY <1>1, <1>3, DriverAssumption

(* The capacity, the batch, one sample and nothing are whole samples. *)
LEMMA WholeConstants ==
    /\ Whole(FifoBytes) /\ Whole(BatchSlots * SampleBytes)
    /\ Whole(SampleBytes) /\ Whole(0)
<1>1. Whole(FifoBytes) /\ Whole(BatchSlots * SampleBytes)
  BY DriverAssumption DEF Whole, FifoBytes
<1>2. SampleBytes = 1 * SampleBytes /\ 0 = 0 * SampleBytes
  BY DriverAssumption
<1> QED
  BY <1>1, <1>2 DEF Whole

(* count -= count % sizeof(sample) leaves whole samples. *)
LEMMA MaxBytesWhole ==
    ASSUME NEW count \in Counts PROVE Whole(MaxBytes(count))
<1>1. /\ count \div SampleBytes \in Nat
      /\ count - (count % SampleBytes) = (count \div SampleBytes) * SampleBytes
  BY DriverAssumption
<1>2. Whole(count - (count % SampleBytes))
  BY <1>1 DEF Whole
<1> QED
  BY <1>2, WholeConstants DEF MaxBytes, Smaller

(***************************************************************************)
(* The strengthening of BooksBalance: the fifo, and what every read in     *)
(* progress asks for, are whole samples.  It is what makes kfifo_in copy   *)
(* all of a sample or nothing of it.                                       *)
(***************************************************************************)
WholeSizes == Whole(Len(fifo)) /\ \A p \in Procs : Whole(want[p])

(* BooksBalance without the record. *)
LEMMA Books ==
    BooksBalance <=> (generated + injected) * SampleBytes = read_bytes + Len(fifo)
BY DEF BooksBalance, Stats

(* Under it kfifo_in copies a whole sample or nothing. *)
LEMMA AllOrNothing ==
    ASSUME TypeOK, WholeSizes
    PROVE  \/ FifoRoom(SampleBytes) = SampleBytes
           \/ FifoRoom(SampleBytes) = 0 /\ Len(fifo) = FifoBytes
<1>1. /\ Len(fifo) \in Nat /\ FifoBytes \in Nat /\ Len(fifo) <= FifoBytes
  BY LenProperties, SizesNat DEF TypeOK
<1>2. FifoBytes - Len(fifo) \in Nat /\ Whole(FifoBytes - Len(fifo))
  BY <1>1, WholeConstants, WholeArithmetic DEF WholeSizes
<1>3. CASE FifoBytes - Len(fifo) = 0
  BY <1>1, <1>3, DriverAssumption DEF FifoRoom, Smaller
<1>4. CASE FifoBytes - Len(fifo) # 0
  <2>1. FifoBytes - Len(fifo) >= SampleBytes
    BY <1>2, <1>4, WholeAtLeastOne
  <2> QED
    BY <1>1, <2>1, DriverAssumption DEF FifoRoom, Smaller
<1> QED
  BY <1>3, <1>4

(* A push keeps whole sizes and the balance. *)
LEMMA PushBalances ==
    ASSUME TypeOK, WholeSizes, BooksBalance, NEW b \in BOOLEAN, PushSample(b),
           UNCHANGED want
    PROVE  WholeSizes' /\ BooksBalance'
<1>1. Len(fifo) \in Nat
  BY LenProperties DEF TypeOK
<1>2. Len(fifo') = Len(fifo) + FifoRoom(SampleBytes)
  BY PushAppends
<1>3. CASE FifoRoom(SampleBytes) = SampleBytes
  <2>1. Whole(Len(fifo'))
    BY <1>1, <1>2, <1>3, DriverAssumption, WholeConstants, WholeArithmetic
    DEF WholeSizes
  <2>2. generated' + injected' = generated + injected + 1 /\ read_bytes' = read_bytes
    BY <1>3 DEF PushSample, TypeOK
  <2>3. (generated + injected + 1) * SampleBytes
          = (generated + injected) * SampleBytes + SampleBytes
    BY DriverAssumption DEF TypeOK
  <2>4. (generated + injected) * SampleBytes = read_bytes + Len(fifo)
    BY Books
  <2>5. (generated' + injected') * SampleBytes = read_bytes' + Len(fifo')
    <3>1. (generated' + injected') * SampleBytes
            = (read_bytes + Len(fifo)) + SampleBytes
      BY <2>2, <2>3, <2>4
    <3>2. read_bytes' + Len(fifo') = (read_bytes + Len(fifo)) + SampleBytes
      BY <1>1, <1>2, <1>3, <2>2, DriverAssumption DEF TypeOK
    <3> QED
      BY <3>1, <3>2
  <2> QED
    BY <2>1, <2>5 DEF WholeSizes, Whole, BooksBalance, Stats
<1>4. CASE FifoRoom(SampleBytes) = 0
  <2>1. Len(fifo') = Len(fifo)
    BY <1>1, <1>2, <1>4
  <2>2. UNCHANGED <<generated, injected, read_bytes>>
    BY <1>4, DriverAssumption DEF PushSample
  <2> QED
    BY <2>1, <2>2 DEF WholeSizes, Whole, BooksBalance, Stats
<1> QED
  BY <1>3, <1>4, AllOrNothing

(* So does kfifo_out. *)
LEMMA ReadOutBalances ==
    ASSUME TypeOK, WholeSizes, BooksBalance, NEW p \in Procs, ReadOut(p)
    PROVE  WholeSizes' /\ BooksBalance'
<1> DEFINE copied == Smaller(want[p], Len(fifo))
<1>1. Len(fifo) \in Nat /\ read_bytes \in Nat
  BY LenProperties DEF TypeOK
<1>2. /\ copied \in Nat /\ copied <= Len(fifo)
      /\ Len(fifo') = Len(fifo) - copied
      /\ read_bytes' = read_bytes + copied
  BY ReadOutMoves
<1>3. Whole(copied)
  BY DEF WholeSizes, Smaller
<1>4. UNCHANGED <<generated, injected, want>>
  BY DEF ReadOut
<1> HIDE DEF copied
<1>5. Whole(Len(fifo'))
  BY <1>1, <1>2, <1>3, WholeArithmetic DEF WholeSizes
<1>6. read_bytes' + Len(fifo') = read_bytes + Len(fifo)
  BY <1>1, <1>2
<1> QED
  BY <1>4, <1>5, <1>6 DEF WholeSizes, Whole, BooksBalance, Stats

(* The empty fifo is whole and balanced. *)
LEMMA InitBalances == Init => WholeSizes /\ BooksBalance
<1> SUFFICES ASSUME Init PROVE WholeSizes /\ BooksBalance
  OBVIOUS
<1>1. Len(fifo) = 0 /\ \A p \in Procs : want[p] = 0
  BY EmptySeq DEF Init
<1>2. (0 + 0) * SampleBytes = 0 + 0
  BY DriverAssumption
<1> QED
  BY <1>1, <1>2, WholeConstants DEF Init, WholeSizes, BooksBalance, Stats

(* Every step keeps whole sizes and the balance. *)
LEMMA NextBalances ==
    TypeOK /\ WholeSizes /\ BooksBalance /\ [Next]_driverVars
        => WholeSizes' /\ BooksBalance'
<1> SUFFICES ASSUME TypeOK, WholeSizes, BooksBalance, [Next]_driverVars
             PROVE  WholeSizes' /\ BooksBalance'
  OBVIOUS
<1>1. CASE TimerFire
  BY <1>1, PushBalances, Zenon DEF TimerFire
<1>2. ASSUME NEW p \in Procs, Write(p) PROVE WholeSizes' /\ BooksBalance'
  BY <1>2, PushBalances, Zenon DEF Write
<1>3. ASSUME NEW p \in Procs, ReadOut(p) PROVE WholeSizes' /\ BooksBalance'
  BY <1>3, ReadOutBalances
<1>4. ASSUME NEW p \in Procs, Reset(p) PROVE WholeSizes' /\ BooksBalance'
  <2>1. Len(fifo') = 0
    BY <1>4, EmptySeq DEF Reset
  <2>2. (0 + 0) * SampleBytes = 0 + 0
    BY DriverAssumption
  <2> QED
    BY <1>4, <2>1, <2>2, WholeConstants
    DEF Reset, WholeSizes, Whole, BooksBalance, Stats
<1>5. ASSUME UNCHANGED <<fifo, counters>>, \A p \in Procs : Whole(want'[p])
      PROVE  WholeSizes' /\ BooksBalance'
  BY <1>5 DEF counters, WholeSizes, Whole, BooksBalance, Stats
<1>6. ASSUME UNCHANGED <<fifo, counters, want>>
      PROVE  WholeSizes' /\ BooksBalance'
  BY <1>5, <1>6 DEF WholeSizes
<1>7. ASSUME NEW p \in Procs, NEW count \in Counts, NEW nonblock \in BOOLEAN,
             ReadEnter(p, count, nonblock)
      PROVE  WholeSizes' /\ BooksBalance'
  <2>1. \A q \in Procs : Whole(want'[q])
    BY <1>7, MaxBytesWhole DEF ReadEnter, WholeSizes, TypeOK
  <2> QED
    BY <1>5, <1>7, <2>1 DEF ReadEnter
<1>8. ASSUME NEW p \in Procs, ReadCopy(p) PROVE WholeSizes' /\ BooksBalance'
  <2>1. \A q \in Procs : Whole(want'[q])
    BY <1>8, WholeConstants DEF ReadCopy, WholeSizes, TypeOK
  <2> QED
    BY <1>5, <1>8, <2>1 DEF ReadCopy
<1> QED
  BY <1>1, <1>2, <1>3, <1>4, <1>6, <1>7, <1>8
  DEF Next, Read, WakeUp, Open, Release, WriteRefused, WaitEvent, WaitInterrupted,
      PollEnter, Poll, PollTimeout, Ioctl, driverVars

(***************************************************************************)
(* For every sample size and fifo length: what GET_STATS, sysfs and        *)
(* debugfs report always balances, through full fifos, odd read sizes,     *)
(* concurrent readers and RESET.                                           *)
(***************************************************************************)
THEOREM BooksAlwaysBalance == Spec => []BooksBalance
BY InitBalances, TypeCorrect, NextBalances, PTL DEF Spec

(***************************************************************************)
(* A sample is dropped only when not a byte is free, never because the     *)
(* room left is too small for it.                                          *)
(***************************************************************************)
THEOREM DropsOnlyWhenFull == Spec => DropOnlyWhenFull
<1>1. TypeOK /\ WholeSizes /\ [Next]_driverVars
        => [dropped' > dropped => Len(fifo) = FifoBytes]_driverVars
  <2> SUFFICES ASSUME TypeOK, WholeSizes, [Next]_driverVars, dropped' > dropped
               PROVE  Len(fifo) = FifoBytes
    OBVIOUS
  <2>1. dropped' # dropped /\ dropped' # 0
    BY DEF TypeOK
  <2>2. TimerFire \/ \E p \in Procs : Write(p)
    BY <2>1 DEF Next, Read, WakeUp, Open, Release, WriteRefused, WaitEvent,
                WaitInterrupted, ReadEnter, ReadOut, ReadCopy, PollEnter, Poll,
                PollTimeout, Ioctl, Reset, driverVars, counters
  <2>3. PushSample(TRUE) \/ PushSample(FALSE)
    BY <2>2, Zenon DEF TimerFire, Write
  <2>4. FifoRoom(SampleBytes) # SampleBytes
    BY <2>1, <2>3 DEF PushSample
  <2> QED
    BY <2>4, AllOrNothing
<1> QED
  BY <1>1, InitBalances, TypeCorrect, NextBalances, PTL DEF Spec, DropOnlyWhenFull

(* Division with remainder by the sample size. *)
LEMMA Remainder ==
    ASSUME NEW a \in Nat
    PROVE  /\ a \div SampleBytes \in Nat /\ a % SampleBytes \in 0..(SampleBytes - 1)
           /\ a = (a \div SampleBytes) * SampleBytes + (a % SampleBytes)
BY DriverAssumption

(* It is unique. *)
LEMMA RemainderUnique ==
    ASSUME NEW q \in Nat, NEW r \in 0..(SampleBytes - 1), NEW u \in Nat,
           NEW v \in 0..(SampleBytes - 1),
           q * SampleBytes + r = u * SampleBytes + v
    PROVE  q = u /\ r = v
<1>1. ASSUME NEW x \in Nat, NEW y \in Nat, x < y
      PROVE  x * SampleBytes + SampleBytes <= y * SampleBytes
  <2>1. (x + 1) * SampleBytes <= y * SampleBytes
    BY <1>1, DriverAssumption
  <2>2. (x + 1) * SampleBytes = x * SampleBytes + SampleBytes
    BY DriverAssumption
  <2> QED
    BY <2>1, <2>2
<1>2. q * SampleBytes \in Nat /\ u * SampleBytes \in Nat
  BY DriverAssumption
<1>3. ~(q < u) /\ ~(u < q)
  BY <1>1, <1>2, DriverAssumption
<1>4. q = u
  BY <1>3
<1> QED
  BY <1>2, <1>4, DriverAssumption

(* Shifting by whole samples does not change the remainder. *)
LEMMA ModShift ==
    ASSUME NEW a \in Nat, NEW c \in Nat, Whole(c)
    PROVE  (a + c) % SampleBytes = a % SampleBytes
<1>1. PICK k \in Nat : c = k * SampleBytes
  BY DEF Whole
<1> DEFINE q == a \div SampleBytes
           r == a % SampleBytes
           u == (a + c) \div SampleBytes
           v == (a + c) % SampleBytes
<1>2. q \in Nat /\ r \in 0..(SampleBytes - 1) /\ a = q * SampleBytes + r
  BY Remainder
<1>3. u \in Nat /\ v \in 0..(SampleBytes - 1) /\ a + c = u * SampleBytes + v
  BY Remainder
<1> HIDE DEF q, r, u, v
<1>4. (q + k) * SampleBytes + r = u * SampleBytes + v
  <2>1. (q + k) * SampleBytes = q * SampleBytes + k * SampleBytes
    BY <1>2, DriverAssumption
  <2>2. q * SampleBytes \in Nat /\ u * SampleBytes \in Nat /\ k * SampleBytes \in Nat
    BY <1>2, <1>3, DriverAssumption
  <2> QED
    BY <1>1, <1>2, <1>3, <2>1, <2>2
<1>5. r = v
  BY <1>2, <1>3, <1>4, RemainderUnique
<1> QED
  BY <1>5 DEF r, v

(* Inside a sample the offset is its own remainder. *)
LEMMA ModSmall ==
    ASSUME NEW r \in 0..(SampleBytes - 1) PROVE r % SampleBytes = r
BY DriverAssumption

(* Whole, said with the remainder as IsSampleStream does. *)
LEMMA WholeMod ==
    ASSUME NEW n \in Nat PROVE Whole(n) <=> n % SampleBytes = 0
<1>1. ASSUME n % SampleBytes = 0 PROVE Whole(n)
  <2>1. n \div SampleBytes \in Nat /\ n = (n \div SampleBytes) * SampleBytes
    BY <1>1, Remainder, DriverAssumption
  <2> QED
    BY <2>1 DEF Whole
<1>2. ASSUME Whole(n) PROVE n % SampleBytes = 0
  <2>1. (0 + n) % SampleBytes = 0 % SampleBytes
    BY <1>2, ModShift
  <2> QED
    BY <2>1, DriverAssumption
<1> QED
  BY <1>1, <1>2

-----------------------------------------------------------------------------
(***************************************************************************)
(* What SamplesIntact says of adjacent bytes, said of any two: of bytes of *)
(* different samples, the earlier one has the smaller seq.                 *)
(***************************************************************************)
Sorted(s) ==
    \A c \in Nat, i, j \in 1..Len(s) : Whole(c) /\ i <= c /\ c < j => s[i][1] < s[j][1]

(* What whole samples cut off at the front leave is a stream. *)
LEMMA SuffixStream ==
    ASSUME NEW s \in Seq(Byte), NEW c \in 0..Len(s), Whole(c), IsSampleStream(s),
           Sorted(s), NEW t \in Seq(Byte), Len(t) = Len(s) - c,
           \A i \in 1..Len(t) : t[i] = s[i + c]
    PROVE  IsSampleStream(t) /\ Sorted(t)
<1>1. Len(s) \in Nat /\ Len(t) \in Nat /\ c \in Nat
  BY LenProperties
<1>2. Len(t) % SampleBytes = 0
  <2>1. (Len(t) + c) % SampleBytes = Len(t) % SampleBytes
    BY <1>1, ModShift
  <2> QED
    BY <1>1, <2>1 DEF IsSampleStream
<1>3. ASSUME NEW i \in 1..Len(t) PROVE t[i][2] = ((i - 1) % SampleBytes) + 1
  <2>1. i + c \in 1..Len(s) /\ i - 1 \in Nat /\ (i + c) - 1 = (i - 1) + c
    BY <1>1
  <2>2. ((i - 1) + c) % SampleBytes = (i - 1) % SampleBytes
    BY <1>1, <2>1, ModShift
  <2>3. s[i + c][2] = (((i + c) - 1) % SampleBytes) + 1
    BY <2>1 DEF IsSampleStream
  <2> QED
    BY <2>1, <2>2, <2>3
<1>4. ASSUME NEW i \in 1..(Len(t) - 1)
      PROVE  IF i % SampleBytes = 0 THEN t[i][1] < t[i + 1][1]
                                    ELSE t[i][1] = t[i + 1][1]
  <2>1. /\ i + c \in 1..(Len(s) - 1) /\ i \in Nat /\ (i + c) + 1 = (i + 1) + c
        /\ i \in 1..Len(t) /\ i + 1 \in 1..Len(t)
    BY <1>1
  <2>2. (i + c) % SampleBytes = i % SampleBytes
    BY <1>1, <2>1, ModShift
  <2>3. t[i] = s[i + c] /\ t[i + 1] = s[(i + c) + 1]
    BY <2>1
  <2> QED
    BY <2>1, <2>2, <2>3 DEF IsSampleStream
<1>5. Sorted(t)
  <2> SUFFICES ASSUME NEW d \in Nat, NEW i \in 1..Len(t), NEW j \in 1..Len(t),
                      Whole(d), i <= d, d < j
               PROVE  t[i][1] < t[j][1]
    BY DEF Sorted
  <2>1. /\ d + c \in Nat /\ i + c \in 1..Len(s) /\ j + c \in 1..Len(s)
        /\ i + c <= d + c /\ d + c < j + c
    BY <1>1
  <2>2. Whole(d + c)
    BY <1>1, WholeArithmetic
  <2>3. s[i + c][1] < s[j + c][1]
    BY <2>1, <2>2 DEF Sorted
  <2> QED
    BY <2>3
<1> QED
  BY <1>2, <1>3, <1>4, <1>5 DEF IsSampleStream

(* What kfifo_out hands over is a stream. *)
LEMMA PrefixStream ==
    ASSUME NEW s \in Seq(Byte), NEW c \in 0..Len(s), Whole(c), IsSampleStream(s),
           NEW t \in Seq(Byte), Len(t) = c, \A i \in 1..c : t[i] = s[i]
    PROVE  IsSampleStream(t)
<1>1. Len(s) \in Nat /\ c \in Nat
  BY LenProperties
<1>2. Len(t) % SampleBytes = 0
  BY <1>1, WholeMod
<1>3. /\ \A i \in 1..c : i \in 1..Len(s)
      /\ \A i \in 1..(c - 1) : i \in 1..(Len(s) - 1) /\ i \in 1..c /\ i + 1 \in 1..c
  BY <1>1
<1>4. \A i \in 1..c : t[i][2] = ((i - 1) % SampleBytes) + 1
  BY <1>3 DEF IsSampleStream
<1>5. ASSUME NEW i \in 1..(c - 1)
      PROVE  IF i % SampleBytes = 0 THEN t[i][1] < t[i + 1][1]
                                    ELSE t[i][1] = t[i + 1][1]
  <2>1. t[i] = s[i] /\ t[i + 1] = s[i + 1] /\ i \in 1..(Len(s) - 1)
    BY <1>3
  <2> QED
    BY <2>1 DEF IsSampleStream
<1> QED
  BY <1>2, <1>4, <1>5 DEF IsSampleStream

(* One more sample, newer than all. *)
LEMMA PushStream ==
    ASSUME NEW s \in Seq(Byte), IsSampleStream(s), Sorted(s), NEW n \in Nat,
           \A i \in 1..Len(s) : s[i][1] < n,
           NEW t \in Seq(Byte), Len(t) = Len(s) + SampleBytes,
           \A i \in 1..Len(s) : t[i] = s[i],
           \A j \in 1..SampleBytes : t[Len(s) + j] = <<n, j>>
    PROVE  IsSampleStream(t) /\ Sorted(t)
<1> DEFINE m == Len(s)
<1>0. m \in Nat /\ SampleBytes \in Nat \ {0} /\ Len(t) = m + SampleBytes
  BY LenProperties, DriverAssumption
<1>1. m % SampleBytes = 0 /\ Whole(m)
  BY <1>0, WholeMod DEF IsSampleStream
<1> HIDE DEF m
<1>2. \A i \in 1..Len(t) : i \in 1..m \/ (i - m \in 1..SampleBytes /\ i = m + (i - m))
  BY <1>0
<1>3. Len(t) % SampleBytes = 0
  BY <1>0, <1>1, WholeConstants, WholeArithmetic, WholeMod
<1>4. \A i \in 1..m : t[i] = s[i]
  BY DEF m
<1>5. \A j \in 1..SampleBytes : t[m + j][1] = n /\ t[m + j][2] = j
  BY DEF m
<1>6. \A i \in 1..m : s[i][1] < n
  BY DEF m
<1>7. ASSUME NEW j \in 1..SampleBytes
      PROVE  ((m + j) - 1) % SampleBytes = j - 1
  <2>1. j - 1 \in 0..(SampleBytes - 1) /\ (m + j) - 1 = (j - 1) + m /\ j - 1 \in Nat
    BY <1>0
  <2>2. ((j - 1) + m) % SampleBytes = (j - 1) % SampleBytes
    BY <1>0, <1>1, <2>1, ModShift, Zenon
  <2>3. (j - 1) % SampleBytes = j - 1
    BY <2>1, ModSmall
  <2> QED
    BY <2>1, <2>2, <2>3
<1>8. ASSUME NEW i \in 1..Len(t) PROVE t[i][2] = ((i - 1) % SampleBytes) + 1
  <2>1. CASE i \in 1..m
    BY <1>4, <2>1 DEF IsSampleStream, m
  <2>2. CASE i - m \in 1..SampleBytes /\ i = m + (i - m)
    <3>1. PICK j \in 1..SampleBytes : i = m + j
      BY <2>2
    <3>2. t[i][2] = j /\ (i - 1) % SampleBytes = j - 1
      BY <1>5, <1>7, <3>1
    <3> QED
      BY <3>1, <3>2
  <2> QED
    BY <1>2, <2>1, <2>2
<1>9. ASSUME NEW i \in 1..(Len(t) - 1)
      PROVE  IF i % SampleBytes = 0 THEN t[i][1] < t[i + 1][1]
                                    ELSE t[i][1] = t[i + 1][1]
  <2>1. CASE i \in 1..(m - 1)
    <3>1. i \in 1..m /\ i + 1 \in 1..m
      BY <1>0, <2>1
    <3> QED
      BY <1>4, <2>1, <3>1 DEF IsSampleStream, m
  <2>2. CASE i = m
    <3>1. i \in 1..m /\ i + 1 = m + 1 /\ 1 \in 1..SampleBytes
      BY <1>0, <2>2
    <3>2. t[i] = s[i] /\ t[i + 1][1] = n
      BY <1>4, <1>5, <3>1
    <3> QED
      BY <1>1, <1>6, <2>2, <3>1, <3>2
  <2>3. CASE i > m
    <3>1. PICK j \in 1..(SampleBytes - 1) : i = m + j
      <4>1. i - m \in 1..(SampleBytes - 1) /\ i = m + (i - m)
        BY <1>0, <2>3
      <4> QED
        BY <4>1
    <3>2. j \in 1..SampleBytes /\ j + 1 \in 1..SampleBytes /\ i + 1 = m + (j + 1)
      BY <1>0, <3>1
    <3>3. t[i][1] = n /\ t[i + 1][1] = n
      BY <1>5, <3>1, <3>2
    <3>4. i % SampleBytes = j
      <4>1. ((m + (j + 1)) - 1) % SampleBytes = (j + 1) - 1
        BY <1>7, <3>2
      <4>2. (m + (j + 1)) - 1 = i /\ (j + 1) - 1 = j
        BY <1>0, <3>1
      <4> QED
        BY <4>1, <4>2
    <3> QED
      BY <3>1, <3>3, <3>4
  <2> QED
    BY <1>0, <2>1, <2>2, <2>3
<1>10. ASSUME NEW c \in Nat, NEW i \in 1..Len(t), NEW j \in 1..Len(t),
              Whole(c), i <= c, c < j
       PROVE  t[i][1] < t[j][1]
  <2>1. CASE j \in 1..m
    <3>1. i \in 1..m
      BY <1>0, <1>10, <2>1
    <3> QED
      BY <1>4, <1>10, <2>1, <3>1 DEF Sorted, m
  <2>2. CASE j > m /\ i \in 1..m
    <3>1. PICK k \in 1..SampleBytes : j = m + k
      BY <1>0, <1>2, <2>2
    <3> QED
      BY <1>4, <1>5, <1>6, <2>2, <3>1
  <2>3. CASE i > m
    <3>1. c - m \in Nat /\ c - m # 0 /\ c - m < SampleBytes
      BY <1>0, <1>10, <2>3
    <3>2. Whole(c - m)
      BY <1>0, <1>1, <1>10, <3>1, WholeArithmetic
    <3> QED
      BY <1>0, <3>1, <3>2, WholeAtLeastOne
  <2> QED
    BY <1>0, <2>1, <2>2, <2>3
<1>11. Sorted(t)
  BY <1>10 DEF Sorted
<1> QED
  BY <1>3, <1>8, <1>9, <1>11 DEF IsSampleStream
-----------------------------------------------------------------------------
(* One sample more. *)
LEMMA OneMore ==
    ASSUME NEW a \in Int
    PROVE  a * SampleBytes \in Int /\ (a + 1) * SampleBytes = a * SampleBytes + SampleBytes
BY DriverAssumption

(***************************************************************************)
(* A push adds the whole image of the sample, or leaves the fifo alone and *)
(* counts a drop.                                                          *)
(***************************************************************************)
LEMMA PushBytes ==
    ASSUME TypeOK, WholeSizes, NEW b \in BOOLEAN, PushSample(b)
    PROVE  \/ /\ Len(fifo') = Len(fifo) + SampleBytes
              /\ \A i \in 1..Len(fifo) : fifo'[i] = fifo[i]
              /\ \A j \in 1..SampleBytes : fifo'[Len(fifo) + j] = <<next_seq, j>>
              /\ dropped' = dropped
           \/ fifo' = fifo /\ dropped' = dropped + 1
<1> DEFINE image == SampleImage(next_seq)
<1>1. fifo \in Seq(Byte) /\ Len(fifo) \in Nat
  BY LenProperties DEF TypeOK, Byte
<1>2. image = [j \in 1..SampleBytes |-> <<next_seq, j>>] /\ SampleBytes \in Nat
  BY DriverAssumption DEF SampleImage
<1>3. image \in Seq(Byte) /\ Len(image) = SampleBytes
  BY <1>2 DEF TypeOK, Byte
<1>4. fifo' = fifo \o SubSeq(image, 1, FifoRoom(SampleBytes))
  BY DEF PushSample
<1>5. CASE FifoRoom(SampleBytes) = SampleBytes
  <2>1. SubSeq(image, 1, SampleBytes) = image
    BY <1>3, SubSeqFull
  <2>2. fifo' = fifo \o image
    BY <1>4, <1>5, <2>1, Zenon
  <2> HIDE DEF image
  <2>3. /\ Len(fifo') = Len(fifo) + SampleBytes
        /\ \A i \in 1..Len(fifo) : fifo'[i] = fifo[i]
        /\ \A j \in 1..SampleBytes : fifo'[Len(fifo) + j] = image[j]
    BY <1>1, <1>2, <1>3, <2>2, ConcatProperties
  <2> QED
    BY <1>2, <1>5, <2>3 DEF PushSample
<1>6. CASE FifoRoom(SampleBytes) = 0
  <2>1. SubSeq(image, 1, 0) = <<>>
    BY SubSeqEmpty
  <2> QED
    BY <1>1, <1>4, <1>6, <2>1, ConcatEmptySeq, DriverAssumption DEF PushSample
<1> QED
  BY <1>5, <1>6, AllOrNothing

(* kfifo_out hands over the bytes at the front and moves up the rest. *)
LEMMA ReadOutBytes ==
    ASSUME TypeOK, WholeSizes, NEW p \in Procs, ReadOut(p)
    PROVE  \E c \in 0..Len(fifo) :
              /\ Whole(c)
              /\ Len(fifo') = Len(fifo) - c
              /\ \A i \in 1..Len(fifo') : fifo'[i] = fifo[i + c]
              /\ Len(samples'[p]) = c
              /\ \A i \in 1..c : samples'[p][i] = fifo[i]
              /\ \A q \in Procs \ {p} : samples'[q] = samples[q]
<1>1. fifo \in Seq(Byte) /\ Len(fifo) \in Nat
  BY LenProperties DEF TypeOK, Byte
<1>2. PICK c \in Nat : c = Smaller(want[p], Len(fifo)) /\ c <= Len(fifo)
  BY ReadOutMoves
<1>3. Whole(c)
  BY <1>2 DEF WholeSizes, Smaller
<1>4. /\ samples' = [samples EXCEPT ![p] = SubSeq(fifo, 1, c)]
      /\ fifo' = SubSeq(fifo, c + 1, Len(fifo))
  BY <1>2 DEF ReadOut
<1>5. Len(fifo') = Len(fifo) - c
  BY <1>2, ReadOutMoves
<1>6. \A i \in 1..c : fifo[i] \in Byte
  BY <1>1, <1>2, ElementOfSeq
<1>7. \A i \in (c + 1)..Len(fifo) : fifo[i] \in Byte
  BY <1>1, <1>2, ElementOfSeq
<1>8. /\ Len(SubSeq(fifo, 1, c)) = c
      /\ \A i \in 1..c : SubSeq(fifo, 1, c)[i] = fifo[i]
  <2>1. /\ Len(SubSeq(fifo, 1, c)) = IF 1 <= c THEN c - 1 + 1 ELSE 0
        /\ \A i \in 1..(c - 1 + 1) : SubSeq(fifo, 1, c)[i] = fifo[1 + i - 1]
    BY <1>2, <1>6, SubSeqProperties
  <2>2. 1..(c - 1 + 1) = 1..c /\ \A i \in 1..c : 1 + i - 1 = i
    BY <1>2
  <2> QED
    BY <1>2, <2>1, <2>2
<1>9. \A i \in 1..Len(fifo') : fifo'[i] = fifo[i + c]
  <2>1. \A i \in 1..(Len(fifo) - (c + 1) + 1) : fifo'[i] = fifo[(c + 1) + i - 1]
    BY <1>1, <1>2, <1>4, <1>7, SubSeqProperties
  <2>2. /\ 1..(Len(fifo) - (c + 1) + 1) = 1..Len(fifo')
        /\ \A i \in 1..Len(fifo') : (c + 1) + i - 1 = i + c
    BY <1>1, <1>2, <1>5
  <2> QED
    BY <2>1, <2>2
<1>10. samples'[p] = SubSeq(fifo, 1, c) /\ \A q \in Procs \ {p} : samples'[q] = samples[q]
  BY <1>4 DEF TypeOK
<1>11. c \in 0..Len(fifo)
  BY <1>1, <1>2
<1> QED
  BY <1>3, <1>5, <1>8, <1>9, <1>10, <1>11, Zenon

-----------------------------------------------------------------------------
(***************************************************************************)
(* Every sample in the driver is older than the next one.  This makes a    *)
(* pushed sample newer than all in the fifo and in the read buffers.       *)
(***************************************************************************)
AllOld ==
    /\ \A i \in 1..Len(fifo) : fifo[i][1] < next_seq
    /\ \A p \in Procs : \A i \in 1..Len(samples[p]) : samples[p][i][1] < next_seq

(***************************************************************************)
(* GapsAreCounted from every sample of the fifo on, not from the first     *)
(* only: a read moves the first one up.                                    *)
(***************************************************************************)
GapsCountedFrom ==
    \A i \in 1..Len(fifo) :
        Whole(i - 1) => (next_seq - fifo[i][1]) * SampleBytes
                            <= (Len(fifo) - (i - 1)) + dropped * SampleBytes

(* The inductive invariant of the three properties. *)
Streams ==
    /\ SamplesIntact
    /\ Sorted(fifo)
    /\ AllOld
    /\ DeliveredOnceInOrder
    /\ GapsCountedFrom

(* A push keeps all of it. *)
LEMMA PushStreams ==
    ASSUME TypeOK, WholeSizes, Streams, NEW b \in BOOLEAN, PushSample(b),
           UNCHANGED samples
    PROVE  Streams'
<1>1. /\ fifo \in Seq(Byte) /\ Len(fifo) \in Nat /\ SampleBytes \in Nat \ {0}
      /\ next_seq \in Nat /\ dropped \in Nat /\ next_seq' = next_seq + 1
      /\ \A i \in 1..Len(fifo) : fifo[i][1] \in Nat
      /\ \A p \in Procs : Len(samples[p]) \in Nat
      /\ \A p \in Procs : \A i \in 1..Len(samples[p]) : samples[p][i][1] \in Nat
  <2>1. fifo \in Seq(Byte) /\ \A p \in Procs : samples[p] \in Seq(Byte)
    BY DEF TypeOK, Byte
  <2>2. \A i \in 1..Len(fifo) : fifo[i] \in Byte
    BY <2>1, ElementOfSeq
  <2>3. \A p \in Procs : \A i \in 1..Len(samples[p]) : samples[p][i] \in Byte
    BY <2>1, ElementOfSeq
  <2> QED
    BY <2>1, <2>2, <2>3, LenProperties, DriverAssumption, Zenon DEF TypeOK, Byte, PushSample
<1>0. dropped \in Int
  BY DEF TypeOK
<1>2. CASE fifo' = fifo /\ dropped' = dropped + 1
  <2>1. AllOld'
    BY <1>1, <1>2 DEF Streams, AllOld
  <2>2. ASSUME NEW i \in 1..Len(fifo), Whole(i - 1)
        PROVE  (next_seq' - fifo[i][1]) * SampleBytes
                   <= (Len(fifo) - (i - 1)) + dropped' * SampleBytes
    <3> DEFINE gap == next_seq - fifo[i][1]
    <3>1. gap * SampleBytes <= (Len(fifo) - (i - 1)) + dropped * SampleBytes
      BY <2>2 DEF Streams, GapsCountedFrom
    <3>2. gap \in Int /\ next_seq' - fifo[i][1] = gap + 1
      BY <1>1
    <3> HIDE DEF gap
    <3>3. /\ (gap + 1) * SampleBytes = gap * SampleBytes + SampleBytes
          /\ (dropped + 1) * SampleBytes = dropped * SampleBytes + SampleBytes
          /\ gap * SampleBytes \in Int /\ dropped * SampleBytes \in Int
      BY <1>0, <3>2, OneMore, Zenon
    <3>4. PICK g \in Int : g = gap * SampleBytes
      BY <3>3
    <3>5. PICK d \in Int : d = dropped * SampleBytes
      BY <3>3, Zenon
    <3>6. (next_seq' - fifo[i][1]) * SampleBytes = g + SampleBytes
      BY <3>2, <3>3, <3>4
    <3>7. dropped' * SampleBytes = d + SampleBytes
      BY <1>2, <3>3, <3>5
    <3>8. PICK k \in Int : k = Len(fifo) - (i - 1)
      <4>1. Len(fifo) \in Int
        BY <1>1
      <4>2. Len(fifo) - (i - 1) \in Int
        BY <4>1
      <4> QED
        BY <4>2
    <3>9. g + SampleBytes <= k + (d + SampleBytes)
      BY <3>1, <3>4, <3>5, <3>8, DriverAssumption
    <3> QED
      BY <3>6, <3>7, <3>8, <3>9
  <2>3. GapsCountedFrom'
    BY <1>2, <2>2 DEF GapsCountedFrom, Whole
  <2> QED
    BY <1>2, <2>1, <2>3
    DEF Streams, SamplesIntact, IsSampleStream, Sorted, Whole, DeliveredOnceInOrder
<1>3. CASE /\ Len(fifo') = Len(fifo) + SampleBytes
           /\ \A i \in 1..Len(fifo) : fifo'[i] = fifo[i]
           /\ \A j \in 1..SampleBytes : fifo'[Len(fifo) + j] = <<next_seq, j>>
           /\ dropped' = dropped
  <2>1. fifo' \in Seq(Byte)
    BY PushAppends
  <2>2. PICK t \in Seq(Byte) : t = fifo'
    BY <2>1
  <2>3. IsSampleStream(t) /\ Sorted(t)
    BY <1>1, <1>3, <2>2, PushStream, Zenon DEF Streams, SamplesIntact, AllOld
  <2>4. ASSUME NEW i \in 1..Len(fifo')
        PROVE  \/ i \in 1..Len(fifo) /\ fifo'[i] = fifo[i]
               \/ \E j \in 1..SampleBytes : i = Len(fifo) + j /\ fifo'[i][1] = next_seq
    <3>1. CASE i \in 1..Len(fifo)
      BY <1>3, <3>1
    <3>2. CASE i > Len(fifo)
      <4>1. i - Len(fifo) \in 1..SampleBytes /\ i = Len(fifo) + (i - Len(fifo))
        BY <1>1, <1>3, <3>2
      <4>2. PICK j \in 1..SampleBytes : i = Len(fifo) + j
        BY <4>1
      <4> QED
        BY <1>3, <4>2
    <3>3. Len(fifo) \in Nat
      BY <1>1
    <3>4. i \in 1..Len(fifo) \/ i > Len(fifo)
      BY <3>3
    <3> QED
      BY <3>1, <3>2, <3>4
  <2>5. AllOld'
    <3>1. next_seq \in Nat /\ next_seq' = next_seq + 1 /\ samples' = samples
      BY <1>1
    <3>2. ASSUME NEW i \in 1..Len(fifo') PROVE fifo'[i][1] < next_seq'
      <4>1. CASE i \in 1..Len(fifo) /\ fifo'[i] = fifo[i]
        <5>1. fifo[i][1] < next_seq /\ fifo[i][1] \in Nat
          BY <1>1, <4>1 DEF Streams, AllOld
        <5> QED
          BY <3>1, <4>1, <5>1
      <4>2. CASE fifo'[i][1] = next_seq
        BY <3>1, <4>2
      <4> QED
        BY <2>4, <4>1, <4>2, Zenon
    <3>3. ASSUME NEW p \in Procs, NEW i \in 1..Len(samples[p])
          PROVE  samples[p][i][1] < next_seq'
      BY <1>1, <3>1 DEF Streams, AllOld
    <3> QED
      BY <3>1, <3>2, <3>3, Zenon DEF AllOld
  <2>6. DeliveredOnceInOrder'
    <3>1. \A p \in Procs : \A i \in DOMAIN samples[p] : \A j \in DOMAIN fifo' :
             samples[p][i][1] < fifo'[j][1]
      <4> SUFFICES ASSUME NEW p \in Procs, NEW i \in DOMAIN samples[p],
                          NEW j \in DOMAIN fifo'
                   PROVE  samples[p][i][1] < fifo'[j][1]
        BY Zenon
      <4>1. j \in 1..Len(fifo') /\ i \in 1..Len(samples[p])
        BY <2>1, LenProperties, Zenon DEF TypeOK
      <4>2. samples[p][i][1] < next_seq
        BY <4>1 DEF Streams, AllOld
      <4>3. CASE j \in 1..Len(fifo) /\ fifo'[j] = fifo[j]
        <5>1. j \in DOMAIN fifo
          BY <1>1, <4>3, LenProperties
        <5> QED
          BY <4>3, <5>1 DEF Streams, DeliveredOnceInOrder
      <4> QED
        BY <2>4, <4>1, <4>2, <4>3, Zenon
    <3> QED
      BY <3>1 DEF Streams, DeliveredOnceInOrder
  <2>7. ASSUME NEW i \in 1..Len(fifo'), Whole(i - 1)
        PROVE  (next_seq' - fifo'[i][1]) * SampleBytes
                   <= (Len(fifo') - (i - 1)) + dropped' * SampleBytes
    <3>1. CASE i \in 1..Len(fifo) /\ fifo'[i] = fifo[i]
      <4> DEFINE gap == next_seq - fifo[i][1]
      <4>1. gap * SampleBytes <= (Len(fifo) - (i - 1)) + dropped * SampleBytes
        BY <2>7, <3>1 DEF Streams, GapsCountedFrom
      <4>2. gap \in Int /\ next_seq' - fifo'[i][1] = gap + 1
        BY <1>1, <3>1
      <4> HIDE DEF gap
      <4>3. /\ (gap + 1) * SampleBytes = gap * SampleBytes + SampleBytes
            /\ gap * SampleBytes \in Int /\ dropped * SampleBytes \in Int
        BY <1>0, <4>2, OneMore, Zenon
      <4>4. PICK g \in Int : g = gap * SampleBytes
        BY <4>3
      <4>5. PICK d \in Int : d = dropped * SampleBytes
        BY <4>3
      <4>6. (next_seq' - fifo'[i][1]) * SampleBytes = g + SampleBytes
        BY <4>2, <4>3, <4>4
      <4>7. dropped' * SampleBytes = d
        BY <1>3, <4>5
      <4>8. PICK k \in Int : k = Len(fifo) - (i - 1)
        <5>1. Len(fifo) \in Int
          BY <1>1
        <5>2. Len(fifo) - (i - 1) \in Int
          BY <5>1
        <5> QED
          BY <5>2, Zenon
      <4>9. Len(fifo') - (i - 1) = k + SampleBytes
        <5>1. Len(fifo) \in Int /\ i \in Int /\ SampleBytes \in Int
          BY <1>1
        <5>2. Len(fifo') = Len(fifo) + SampleBytes
          BY <1>3
        <5> QED
          BY <4>8, <5>1, <5>2
      <4>10. g + SampleBytes <= (k + SampleBytes) + d
        BY <4>1, <4>4, <4>5, <4>8, DriverAssumption
      <4> QED
        BY <4>6, <4>7, <4>9, <4>10
    <3>2. CASE \E j \in 1..SampleBytes : i = Len(fifo) + j /\ fifo'[i][1] = next_seq
      <4>1. PICK j \in 1..SampleBytes : i = Len(fifo) + j /\ fifo'[i][1] = next_seq
        BY <3>2
      <4>2. j = 1
        <5> SUFFICES ASSUME j # 1 PROVE FALSE
          OBVIOUS
        <5>1. /\ i - 1 \in Nat /\ Len(fifo) <= i - 1 /\ (i - 1) - Len(fifo) \in Nat
              /\ (i - 1) - Len(fifo) # 0 /\ (i - 1) - Len(fifo) < SampleBytes
          BY <1>1, <4>1
        <5>2. Whole((i - 1) - Len(fifo))
          BY <1>1, <2>7, <5>1, WholeArithmetic, Zenon DEF WholeSizes
        <5> QED
          BY <1>1, <5>1, <5>2, WholeAtLeastOne
      <4>3. /\ (next_seq' - fifo'[i][1]) = 1 /\ 1 * SampleBytes = SampleBytes
            /\ Len(fifo') - (i - 1) = SampleBytes /\ dropped' * SampleBytes \in Nat
        BY <1>1, <1>3, <4>1, <4>2
      <4> QED
        BY <1>1, <4>3
    <3> QED
      BY <2>4, <3>1, <3>2
  <2>8. GapsCountedFrom'
    BY <2>7 DEF GapsCountedFrom, Whole
  <2>9. SamplesIntact' /\ Sorted(fifo)'
    BY <2>2, <2>3, Zenon DEF Streams, SamplesIntact, IsSampleStream, Sorted, Whole
  <2> QED
    BY <2>5, <2>6, <2>8, <2>9 DEF Streams
<1> QED
  BY <1>2, <1>3, PushBytes

(* So does a read. *)
LEMMA ReadOutStreams ==
    ASSUME TypeOK, WholeSizes, Streams, NEW p \in Procs, ReadOut(p)
    PROVE  Streams'
<1>1. /\ fifo \in Seq(Byte) /\ Len(fifo) \in Nat
      /\ samples \in [Procs -> Seq(Byte)]
      /\ fifo' \in Seq(Byte) /\ samples' \in [Procs -> Seq(Byte)]
      /\ next_seq' = next_seq /\ dropped' = dropped
  BY LenProperties, ReadOutMoves, Zenon DEF TypeOK, Byte, ReadOut
<1>2. PICK c \in 0..Len(fifo) :
              /\ Whole(c)
              /\ Len(fifo') = Len(fifo) - c
              /\ \A i \in 1..Len(fifo') : fifo'[i] = fifo[i + c]
              /\ Len(samples'[p]) = c
              /\ \A i \in 1..c : samples'[p][i] = fifo[i]
              /\ \A q \in Procs \ {p} : samples'[q] = samples[q]
  BY ReadOutBytes, Zenon
<1>3. PICK t \in Seq(Byte) : t = fifo'
  BY <1>1
<1>4. PICK u \in Seq(Byte) : u = samples'[p]
  BY <1>1
<1>5. IsSampleStream(t) /\ Sorted(t)
  BY <1>1, <1>2, <1>3, SuffixStream DEF Streams, SamplesIntact
<1>6. IsSampleStream(u)
  BY <1>1, <1>2, <1>4, PrefixStream, Zenon DEF Streams, SamplesIntact
<1>7. SamplesIntact' /\ Sorted(fifo)'
  <2>1. \A q \in Procs : samples'[q] = u \/ samples'[q] = samples[q]
    BY <1>2, <1>4
  <2> QED
    BY <1>3, <1>5, <1>6, <2>1 DEF Streams, SamplesIntact
<1>8. /\ \A i \in 1..Len(fifo') : i + c \in 1..Len(fifo) /\ i + c > c
      /\ \A i \in 1..c : i \in 1..Len(fifo)
  BY <1>1, <1>2
<1>9. AllOld'
  <2>1. \A i \in 1..Len(fifo') : fifo'[i][1] < next_seq
    BY <1>2, <1>8, Zenon DEF Streams, AllOld
  <2>2. ASSUME NEW q \in Procs, NEW i \in 1..Len(samples'[q])
        PROVE  samples'[q][i][1] < next_seq
    BY <1>2, <1>8, <2>2, Zenon DEF Streams, AllOld
  <2> QED
    BY <1>1, <2>1, <2>2 DEF AllOld
<1>10. DeliveredOnceInOrder'
  <2>1. /\ DOMAIN fifo = 1..Len(fifo) /\ DOMAIN fifo' = 1..Len(fifo')
        /\ DOMAIN samples'[p] = 1..c
    BY <1>1, <1>2, LenProperties
  <2>2. ASSUME NEW q \in Procs, NEW i \in DOMAIN samples'[q], NEW j \in DOMAIN fifo'
        PROVE  samples'[q][i][1] < fifo'[j][1]
    <3>1. fifo'[j] = fifo[j + c] /\ j + c \in 1..Len(fifo) /\ j + c > c
      BY <1>2, <1>8, <2>1, Zenon
    <3>2. CASE q = p
      <4>1. samples'[p][i] = fifo[i] /\ i \in 1..Len(fifo) /\ i <= c /\ c < j + c /\ c \in Nat
        BY <1>1, <1>2, <1>8, <2>1, <3>1, <3>2
      <4>2. fifo[i][1] < fifo[j + c][1]
        BY <1>2, <3>1, <4>1, Zenon DEF Streams, Sorted
      <4> QED
        BY <3>1, <3>2, <4>1, <4>2
    <3>3. CASE q # p
      BY <1>2, <2>1, <3>1, <3>3 DEF Streams, DeliveredOnceInOrder
    <3> QED
      BY <3>2, <3>3
  <2>3. ASSUME NEW q \in Procs \ {p}, NEW i \in DOMAIN samples'[q], NEW j \in DOMAIN samples'[p]
        PROVE  samples'[q][i][1] < samples'[p][j][1]
    <3>1. samples'[q] = samples[q] /\ samples'[p][j] = fifo[j] /\ j \in DOMAIN fifo
      BY <1>2, <1>8, <2>1, Zenon
    <3> QED
      BY <3>1, Zenon DEF Streams, DeliveredOnceInOrder
  <2>4. \A q \in Procs, i \in Nat : i \in DOMAIN samples'[q] => samples'[q][i][1] \in Nat
    BY <1>1, LenProperties, ElementOfSeq DEF Byte
  <2>5. \A q \in Procs : DOMAIN samples'[q] \subseteq Nat
    BY <1>1, LenProperties
  <2>6. ASSUME NEW q \in Procs, NEW r \in Procs \ {q},
               NEW i \in DOMAIN samples'[q], NEW j \in DOMAIN samples'[r]
        PROVE  samples'[q][i][1] # samples'[r][j][1]
    <3>1. samples'[q][i][1] \in Nat /\ samples'[r][j][1] \in Nat
      BY <2>4, <2>5
    <3>2. CASE q = p
      BY <2>3, <3>1, <3>2
    <3>3. CASE r = p
      BY <2>3, <3>1, <3>3
    <3>4. CASE q # p /\ r # p
      BY <1>2, <3>4 DEF Streams, DeliveredOnceInOrder
    <3> QED
      BY <3>2, <3>3, <3>4
  <2> QED
    BY <2>2, <2>6 DEF DeliveredOnceInOrder
<1>11. GapsCountedFrom'
  <2> SUFFICES ASSUME NEW i \in 1..Len(fifo'), Whole(i - 1)
               PROVE  (next_seq' - fifo'[i][1]) * SampleBytes
                          <= (Len(fifo') - (i - 1)) + dropped' * SampleBytes
    BY Zenon DEF GapsCountedFrom, Whole
  <2>1. /\ i + c \in 1..Len(fifo) /\ fifo'[i] = fifo[i + c]
        /\ i - 1 \in Nat /\ c \in Nat /\ (i + c) - 1 = (i - 1) + c
        /\ Len(fifo) - ((i + c) - 1) = Len(fifo') - (i - 1)
    BY <1>1, <1>2, <1>8
  <2>2. Whole((i + c) - 1)
    BY <1>2, <2>1, WholeArithmetic, Zenon
  <2>3. (next_seq - fifo[i + c][1]) * SampleBytes
            <= (Len(fifo) - ((i + c) - 1)) + dropped * SampleBytes
    BY <2>1, <2>2, Zenon DEF Streams, GapsCountedFrom
  <2> QED
    BY <1>1, <2>1, <2>3
<1> QED
  BY <1>7, <1>9, <1>10, <1>11 DEF Streams

(* The empty sequence is a stream. *)
LEMMA EmptyStream == IsSampleStream(<<>>) /\ Sorted(<<>>) /\ DOMAIN << >> = {}
<1>1. Len(<<>>) = 0 /\ 0 % SampleBytes = 0
  BY DriverAssumption
<1> QED
  BY <1>1 DEF IsSampleStream, Sorted

(* Every step keeps all of it. *)
LEMMA NextStreams ==
    TypeOK /\ WholeSizes /\ Streams /\ [Next]_driverVars => Streams'
<1> SUFFICES ASSUME TypeOK, WholeSizes, Streams, [Next]_driverVars PROVE Streams'
  OBVIOUS
<1>1. CASE TimerFire
  BY <1>1, PushStreams, Zenon DEF TimerFire
<1>2. ASSUME NEW p \in Procs, Write(p) PROVE Streams'
  BY <1>2, PushStreams, Zenon DEF Write
<1>3. ASSUME NEW p \in Procs, ReadOut(p) PROVE Streams'
  BY <1>3, ReadOutStreams
<1>4. ASSUME NEW p \in Procs, ReadCopy(p) PROVE Streams'
  <2>1. /\ UNCHANGED <<fifo, next_seq, dropped>>
        /\ \A q \in Procs : samples'[q] = samples[q] \/ samples'[q] = <<>>
    BY <1>4 DEF ReadCopy, counters, TypeOK
  <2>2. Len(<<>>) = 0 /\ 1..0 = {}
    OBVIOUS
  <2>3. SamplesIntact' /\ Sorted(fifo)'
    BY <2>1, EmptyStream DEF Streams, SamplesIntact
  <2>4. AllOld' /\ GapsCountedFrom'
    BY <2>1, <2>2, Zenon DEF Streams, AllOld, GapsCountedFrom, Whole
  <2>5. DeliveredOnceInOrder'
    BY <2>1, EmptyStream DEF Streams, DeliveredOnceInOrder
  <2> QED
    BY <2>3, <2>4, <2>5 DEF Streams
<1>5. ASSUME NEW p \in Procs, Reset(p) PROVE Streams'
  <2>1. UNCHANGED <<next_seq, samples>> /\ fifo' = <<>> /\ Len(<<>>) = 0 /\ 1..0 = {}
    BY <1>5 DEF Reset
  <2>2. SamplesIntact' /\ Sorted(fifo)'
    BY <2>1, EmptyStream, Zenon DEF Streams, SamplesIntact, IsSampleStream, Sorted, Whole
  <2>3. AllOld' /\ GapsCountedFrom'
    BY <2>1 DEF Streams, AllOld, GapsCountedFrom, Whole
  <2>4. DeliveredOnceInOrder'
    BY <2>1, EmptyStream DEF Streams, DeliveredOnceInOrder
  <2> QED
    BY <2>2, <2>3, <2>4 DEF Streams
<1>6. ASSUME UNCHANGED <<fifo, next_seq, dropped, samples>> PROVE Streams'
  BY <1>6 DEF Streams, SamplesIntact, IsSampleStream, Sorted, Whole, AllOld,
              DeliveredOnceInOrder, GapsCountedFrom
<1> QED
  BY <1>1, <1>2, <1>3, <1>4, <1>5, <1>6, Zenon
  DEF Next, Read, ReadEnter, WakeUp, Open, Release, WriteRefused, WaitEvent,
      WaitInterrupted, PollEnter, Poll, PollTimeout, Ioctl, driverVars, counters

(* All of it, always. *)
LEMMA StreamsAlways == Spec => []Streams
<1>1. Init => Streams
  <2> SUFFICES ASSUME Init PROVE Streams
    OBVIOUS
  <2>1. /\ fifo = <<>> /\ \A p \in Procs : samples[p] = <<>>
        /\ Len(<<>>) = 0 /\ 1..0 = {}
    BY DEF Init
  <2> QED
    BY <2>1, EmptyStream
    DEF Streams, SamplesIntact, AllOld, GapsCountedFrom, DeliveredOnceInOrder
<1> QED
  BY <1>1, InitBalances, TypeCorrect, NextBalances, NextStreams, PTL DEF Spec

(***************************************************************************)
(* For every sample size, fifo length, batch and read size: no sample is   *)
(* ever torn, in the fifo or in what a read() hands out.                   *)
(***************************************************************************)
THEOREM SamplesAlwaysIntact == Spec => []SamplesIntact
<1>1. Streams => SamplesIntact
  BY DEF Streams
<1> QED
  BY <1>1, StreamsAlways, PTL

(***************************************************************************)
(* For any number of concurrent readers: no sample is delivered twice, and *)
(* none overtakes an older one that is still in the fifo.                  *)
(***************************************************************************)
THEOREM AlwaysDeliveredOnceInOrder == Spec => []DeliveredOnceInOrder
<1>1. Streams => DeliveredOnceInOrder
  BY DEF Streams
<1> QED
  BY <1>1, StreamsAlways, PTL

(***************************************************************************)
(* The counter dropped accounts for every missing sequence number between  *)
(* the oldest sample in the fifo and the next one.                         *)
(***************************************************************************)
THEOREM GapsAlwaysCounted == Spec => []GapsAreCounted
<1>1. TypeOK /\ Streams => GapsAreCounted
  <2> SUFFICES ASSUME TypeOK, Streams, HasData
               PROVE  (next_seq - fifo[1][1]) * SampleBytes
                          <= Len(fifo) + dropped * SampleBytes
    BY DEF GapsAreCounted
  <2>1. fifo \in Seq(Byte) /\ Len(fifo) \in Nat /\ Len(fifo) # 0
    BY EmptySeq, LenProperties DEF TypeOK, Byte, HasData
  <2>2. 1 \in 1..Len(fifo) /\ Whole(1 - 1) /\ Len(fifo) - (1 - 1) = Len(fifo)
    BY <2>1, WholeConstants
  <2>3. (next_seq - fifo[1][1]) * SampleBytes
            <= (Len(fifo) - (1 - 1)) + dropped * SampleBytes
    BY <2>2 DEF Streams, GapsCountedFrom
  <2> QED
    BY <2>2, <2>3
<1> QED
  BY <1>1, StreamsAlways, TypeCorrect, PTL

-----------------------------------------------------------------------------
(***************************************************************************)
(* What the test for data has seen is still there at kfifo_out, and what   *)
(* kfifo_out took is there at copy_to_user.                                *)
(***************************************************************************)
SeenIsThere ==
    \A p \in Procs :
        /\ pc[p] = "out" => HasData /\ want[p] > 0
        /\ pc[p] \in {"wait", "asleep"} => want[p] > 0
        /\ pc[p] = "copy" => samples[p] # <<>>
        /\ ret[p] # "zero"

(* A read that passes the test on its size asks for at least a byte. *)
LEMMA MaxBytesPositive ==
    ASSUME NEW count \in Counts, count >= SampleBytes PROVE MaxBytes(count) > 0
<1>1. count \in Nat /\ SampleBytes \in Nat /\ SampleBytes > 0
  BY DriverAssumption
<1>2. count % SampleBytes \in Nat /\ count % SampleBytes < SampleBytes
  BY <1>1, Remainder
<1>3. count - (count % SampleBytes) > 0
  BY <1>1, <1>2
<1>4. BatchSlots * SampleBytes > 0
  BY DriverAssumption
<1> QED
  BY <1>3, <1>4 DEF MaxBytes, Smaller

(* A push does not take data away. *)
LEMMA PushKeepsData ==
    ASSUME TypeOK, HasData, NEW injecting \in BOOLEAN, PushSample(injecting)
    PROVE  HasData'
<1>1. fifo \in Seq(Byte) /\ Len(fifo) > 0
  BY LenProperties, EmptySeq DEF TypeOK, HasData, Byte
<1>2. fifo' \in Seq(Byte) /\ Len(fifo') >= Len(fifo)
  BY PushAppends DEF TypeOK
<1> QED
  BY <1>1, <1>2, EmptySeq DEF HasData

(* The other processes are none: a step of the only one keeps SeenIsThere. *)
LEMMA SoleStep ==
    ASSUME \A p, q \in Procs : p = q, TypeOK, SeenIsThere, [Next]_driverVars
    PROVE  SeenIsThere'
<1>1. /\ pc \in [Threads -> States] /\ want \in [Procs -> Nat]
      /\ samples \in [Procs -> Seq(Byte)] /\ ret \in [Procs -> Results]
  BY DEF TypeOK, Byte
<1> SUFFICES ASSUME NEW p \in Procs
             PROVE  /\ pc'[p] = "out" => HasData' /\ want'[p] > 0
                    /\ pc'[p] \in {"wait", "asleep"} => want'[p] > 0
                    /\ pc'[p] = "copy" => samples'[p] # <<>>
                    /\ ret'[p] # "zero"
  BY DEF SeenIsThere
<1>2. /\ pc[p] = "out" => HasData /\ want[p] > 0
      /\ pc[p] \in {"wait", "asleep"} => want[p] > 0
      /\ pc[p] = "copy" => samples[p] # <<>>
      /\ ret[p] # "zero"
  BY DEF SeenIsThere
<1>3. p \in Threads /\ "hrtimer" \in Threads /\ p # "hrtimer"
  BY DriverAssumption DEF Threads
<1>4. CASE TimerFire
  <2>1. HasData => HasData'
    BY <1>4, PushKeepsData, Zenon DEF TimerFire
  <2>2. UNCHANGED <<want, samples, ret>> /\ pc'[p] = pc[p]
    BY <1>1, <1>3, <1>4 DEF TimerFire
  <2> QED
    BY <1>2, <2>1, <2>2
<1>5. ASSUME NEW t \in Threads, WakeUp(t)
      PROVE  /\ UNCHANGED <<fifo, want, samples>>
             /\ \/ pc'[p] \in {pc[p], "idle", "poll"}
                \/ pc'[p] = "wait" /\ pc[p] = "asleep"
             /\ ret'[p] = ret[p] \/ ret'[p] = "ok"
  <2>1. pc'[p] = IF p = t THEN "idle" ELSE Awake(pc[p])
    BY <1>3, <1>5 DEF WakeUp
  <2>2. ret'[p] = IF p = t THEN "ok" ELSE ret[p]
    BY <1>5 DEF WakeUp
  <2>3. \/ pc'[p] \in {pc[p], "idle", "poll"}
        \/ pc'[p] = "wait" /\ pc[p] = "asleep"
    BY <2>1 DEF Awake
  <2>4. UNCHANGED <<fifo, want, samples>>
    BY <1>5 DEF WakeUp
  <2> QED
    BY <2>2, <2>3, <2>4
<1>6. ASSUME \/ Open(p) \/ Release(p) \/ WriteRefused(p) \/ Write(p)
             \/ PollEnter(p) \/ Poll(p) \/ PollTimeout(p) \/ Ioctl(p)
      PROVE  /\ pc'[p] \notin {"out", "wait", "asleep", "copy"}
             /\ ret'[p] # "zero"
  BY <1>1, <1>2, <1>3, <1>6, Zenon
  DEF Open, Release, WriteRefused, Write, PollEnter, Poll, PollTimeout, Ioctl,
      Reset, Returns
<1>7. ASSUME NEW count \in Counts, NEW nonblock \in BOOLEAN,
             ReadEnter(p, count, nonblock)
      PROVE  /\ pc'[p] = "out" => HasData' /\ want'[p] > 0
             /\ pc'[p] \in {"wait", "asleep"} => want'[p] > 0
             /\ pc'[p] # "copy" /\ ret'[p] # "zero"
  <2>1. CASE Returns(p, "error")
    BY <1>1, <1>3, <2>1 DEF Returns
  <2>2. CASE /\ count >= SampleBytes
             /\ pc' = [pc EXCEPT ![p] = IF HasData THEN "out" ELSE "wait"]
             /\ want' = [want EXCEPT ![p] = MaxBytes(count)]
             /\ UNCHANGED <<ret, fifo>>
    <3>1. want'[p] = MaxBytes(count) /\ MaxBytes(count) > 0
      BY <1>1, <2>2, MaxBytesPositive
    <3>2. pc'[p] = IF HasData THEN "out" ELSE "wait"
      BY <1>1, <1>3, <2>2
    <3> QED
      BY <1>2, <2>2, <3>1, <3>2 DEF HasData
  <2> QED
    BY <1>7, <2>1, <2>2 DEF ReadEnter
<1>8. CASE WaitEvent(p)
  <2>1. pc'[p] = (IF HasData THEN "out" ELSE "asleep") /\ pc[p] = "wait"
    BY <1>1, <1>3, <1>8 DEF WaitEvent
  <2> QED
    BY <1>2, <1>8, <2>1 DEF WaitEvent, HasData
<1>9. CASE WaitInterrupted(p)
  <2>1. CASE Returns(p, "error")
    BY <1>1, <1>3, <2>1 DEF Returns
  <2>2. CASE HasData /\ pc' = [pc EXCEPT ![p] = "out"] /\ UNCHANGED ret
    BY <1>1, <1>2, <1>3, <1>9, <2>2 DEF WaitInterrupted, HasData
  <2> QED
    BY <1>9, <2>1, <2>2 DEF WaitInterrupted
<1>10. CASE ReadOut(p)
  <2>1. pc'[p] = "copy" /\ UNCHANGED ret /\ pc[p] = "out"
    BY <1>1, <1>3, <1>10 DEF ReadOut
  <2>2. fifo \in Seq(Byte) /\ Len(fifo) \in Nat /\ Len(fifo) # 0
    BY <1>2, <2>1, LenProperties, EmptySeq DEF TypeOK, Byte, HasData
  <2> DEFINE copied == Smaller(want[p], Len(fifo))
  <2>3. copied \in Nat /\ 0 < copied /\ copied <= Len(fifo)
    BY <1>1, <1>2, <2>1, <2>2 DEF Smaller
  <2>4. samples'[p] = SubSeq(fifo, 1, copied)
    BY <1>1, <1>10, Zenon DEF ReadOut
  <2> HIDE DEF copied
  <2>5. \A i \in 1..copied : fifo[i] \in Byte
    BY <2>2, <2>3, ElementOfSeq
  <2>6. Len(samples'[p]) = IF 1 <= copied THEN copied - 1 + 1 ELSE 0
    BY <2>3, <2>4, <2>5, SubSeqProperties
  <2>7. samples'[p] # <<>>
    BY <2>3, <2>6, EmptySeq
  <2> QED
    BY <1>2, <2>1, <2>7
<1>11. CASE ReadCopy(p)
  BY <1>1, <1>2, <1>3, <1>11 DEF ReadCopy, Returns
<1>12. CASE UNCHANGED driverVars
  BY <1>2, <1>12 DEF driverVars, HasData
<1>13. CASE \E t \in Threads : WakeUp(t)
  BY <1>2, <1>5, <1>13 DEF HasData
<1>14. CASE \/ Open(p) \/ Release(p) \/ WriteRefused(p) \/ Write(p)
            \/ PollEnter(p) \/ Poll(p) \/ PollTimeout(p) \/ Ioctl(p)
  BY <1>6, <1>14
<1>15. CASE Read(p)
  BY <1>7, <1>8, <1>9, <1>10, <1>11, <1>15 DEF Read
<1>16. \A q \in Procs : q = p
  OBVIOUS
<1> QED
  BY <1>4, <1>12, <1>13, <1>14, <1>15, <1>16, Zenon DEF Next

(***************************************************************************)
(* The comment in sensorhub_read holds for a device with one process, as   *)
(* the daemon uses it: nobody takes what its test for data has seen, so no *)
(* read returns 0, whatever the timer does meanwhile.                      *)
(***************************************************************************)
THEOREM SoleReaderNeverZero ==
    ASSUME \A p, q \in Procs : p = q
    PROVE  Spec => []ReadNeverReturnsZero
<1>1. Init => SeenIsThere
  BY DEF Init, SeenIsThere, Threads
<1>2. TypeOK /\ SeenIsThere /\ [Next]_driverVars => SeenIsThere'
  BY SoleStep
<1>3. SeenIsThere => ReadNeverReturnsZero
  BY DEF SeenIsThere, ReadNeverReturnsZero
<1> QED
  BY <1>1, <1>2, <1>3, TypeCorrect, PTL DEF Spec
=============================================================================
