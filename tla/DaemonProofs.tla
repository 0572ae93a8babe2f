---------------------------- MODULE DaemonProofs ----------------------------
(***************************************************************************)
(* Proofs about Daemon for every capacity and any number of workers and    *)
(* samples: no sample is lost or counted twice, the log is out of order    *)
(* only by what workers hold, an orderly exit has drained the queue, a     *)
(* stats reply never overcounts, and the state has its type; the theorems  *)
(* about BoundedQueue hold of its queue, and with fair workers the oldest  *)
(* sample is logged and every worker leaves a closed, empty queue.         *)
(***************************************************************************)
EXTENDS Daemon, FiniteSetTheorems, SequenceTheorems, TLAPS

(* The workers at certain stages, and the ends of the process other than 0. *)
At(stages) == {w \in Workers : stage[w] \in stages}
Dead == {"exit1", "aborted", "killed"}

Typed ==
    /\ queue \in Seq(Nat)
    /\ dropped \in Nat /\ received \in Nat /\ processed \in Nat /\ exported \in Nat
    /\ stage \in [Workers -> {"unborn", "pop", "write", "export", "exported"}]
    /\ pop \in [Workers -> {"idle", "waiting", "woken", "ended"}]
    /\ item \in [Workers -> Nat]

(* A step of main or of the world that moves no sample. *)
Idles == UNCHANGED <<queueVars, workVars>> /\ main' \notin Ended

(* Steps by what they do to samples. *)
Steps ==
    \/ Idles \/ JoinAndReturn \/ PushSample \/ CloseQueue
    \/ \E how \in Dead : Dies(how)
    \/ \E w \in Workers : \/ SpawnWorker(w) \/ WorkerPop(w) \/ WorkerWrite(w)
                          \/ WorkerExport(w) \/ WorkerExported(w)
                          \/ WorkerSpuriousWakeup(w)

(* Nothing happens after the end of the process. *)
LEMMA NextKinds ==
    ASSUME [Next]_daemonVars PROVE UNCHANGED daemonVars \/ (Alive /\ Steps)
<1>1. CASE Setup \/ OpenDevice \/ CreateSignalFd \/ Register
  BY <1>1 DEF Setup, OpenDevice, CreateSignalFd, Register, Proceeds, Alive, Ended,
              Steps, Idles, queueVars, workVars
<1>2. CASE RunOnce \/ RunOnceReturns \/ ReadSource \/ PushDone
  BY <1>2 DEF RunOnce, RunOnceReturns, ReadSource, PushDone, Handles, Proceeds,
              Alive, Ended, Steps, Idles, queueVars, workVars
<1>3. CASE HandleSignal \/ HandleOther \/ StatsBegin \/ StatsRead \/ StatsAnswer
  BY <1>3, Zenon DEF HandleSignal, HandleOther, StatsBegin, StatsRead, StatsAnswer,
              Handles, Alive, Ended, Steps, Idles, queueVars, workVars
<1>4. CASE SourceProduces
  BY <1>4 DEF SourceProduces, Alive, Ended, Steps, Idles, queueVars, workVars
<1>5. CASE PushSample \/ CloseQueue \/ JoinAndReturn
  BY <1>5 DEF PushSample, CloseQueue, JoinAndReturn, Proceeds, Alive, Ended, Steps
<1>6. ASSUME NEW w \in Workers, SpawnWorker(w) PROVE Alive /\ Steps
  BY <1>6, Zenon DEF SpawnWorker, Alive, Ended, Steps
<1>7. ASSUME NEW w \in Workers, Worker(w) \/ WorkerSpuriousWakeup(w)
      PROVE  Alive /\ Steps
  BY <1>7 DEF Worker, WorkerPop, WorkerWrite, WorkerExport, WorkerExported,
              WorkerSpuriousWakeup, Steps
<1>8. ASSUME NEW w \in Workers, WorkerThrows(w) PROVE Alive /\ Steps
  BY <1>8 DEF WorkerThrows, Steps, Dead
<1>9. CASE Throw
  BY <1>9 DEF Throw, CanThrow, Alive, Ended, Steps, Dead
<1>10. CASE SignalProcess \/ SignalMainThread
  <2>1. CASE Pends /\ Alive
    BY <2>1 DEF Pends, Alive, Steps, Idles, queueVars, workVars
  <2>2. CASE Dies("killed") /\ Alive
    BY <2>2 DEF Steps, Dead
  <2> QED
    BY <1>10, <2>1, <2>2 DEF SignalProcess, SignalMainThread
<1> QED
  BY <1>1, <1>2, <1>3, <1>4, <1>5, <1>6, <1>7, <1>8, <1>9, <1>10
  DEF Next, Main

-----------------------------------------------------------------------------
(* What the queue's operations do to its contents. *)
LEMMA PushEffect ==
    ASSUME Typed, Q!Push
    PROVE  /\ received' = received + 1 /\ item' = item /\ closed' = closed
           /\ \/ dropped' = dropped + 1 /\ queue' = queue
              \/ dropped' = dropped /\ ~closed /\ queue' = Append(queue, received + 1)
           /\ pop' \in [Workers -> {"idle", "waiting", "woken", "ended"}]
           /\ \A w \in Workers : pop'[w] = "ended" <=> pop[w] = "ended"
<1>1. /\ received' = received + 1 /\ item' = item /\ closed' = closed
      /\ \/ dropped' = dropped + 1 /\ queue' = queue
         \/ dropped' = dropped /\ ~closed /\ queue' = Append(queue, received + 1)
  BY DEF Q!Push, Q!Refuses
<1>2. /\ pop' \in [Workers -> {"idle", "waiting", "woken", "ended"}]
      /\ \A w \in Workers : pop'[w] = "ended" <=> pop[w] = "ended"
  BY Zenon DEF Q!Push, Q!NotifyOne, Q!Waiting, Typed
<1> QED
  BY <1>1, <1>2, Zenon

(* Popping takes the head, and the rest moves up. *)
LEMMA TakeEffect ==
    ASSUME Typed, NEW w \in Workers, Q!PopTake(w)
    PROVE  /\ queue # <<>> /\ Head(queue) \in Nat /\ Head(queue) = queue[1]
           /\ queue' = Tail(queue) /\ queue' \in Seq(Nat)
           /\ Len(queue') = Len(queue) - 1
           /\ \A i \in 1..Len(queue') : queue'[i] = queue[i + 1]
           /\ item' = [item EXCEPT ![w] = queue[1]]
           /\ UNCHANGED <<closed, dropped, received>>
           /\ pop' = [pop EXCEPT ![w] = "idle"]
<1>1. queue # <<>> /\ queue' = Tail(queue) /\ queue \in Seq(Nat)
  BY DEF Q!PopTake, Typed
<1>2. /\ Head(queue) \in Nat /\ Tail(queue) \in Seq(Nat)
      /\ Len(Tail(queue)) = Len(queue) - 1
      /\ \A i \in 1..Len(Tail(queue)) : Tail(queue)[i] = queue[i + 1]
  BY <1>1, HeadTailProperties
<1>3. Head(queue) = queue[1]
  BY <1>1
<1> QED
  BY <1>1, <1>2, <1>3 DEF Q!PopTake

(* The type is kept. *)
LEMMA TypedStep == ASSUME Typed, Steps PROVE Typed'
<1>1. CASE Idles
  BY <1>1 DEF Idles, queueVars, workVars, Typed
<1>2. CASE JoinAndReturn
  BY <1>2 DEF JoinAndReturn, Proceeds, queueVars, workVars, Typed
<1>3. CASE PushSample
  <2>1. Q!Push /\ UNCHANGED workVars
    BY <1>3 DEF PushSample
  <2>2. queue' = queue \/ queue' = Append(queue, received + 1)
    BY <2>1, PushEffect
  <2>3. queue' \in Seq(Nat)
    <3>1. queue \in Seq(Nat) /\ received + 1 \in Nat
      BY DEF Typed
    <3> QED
      BY <2>2, <3>1, AppendProperties
  <2>4. /\ received' = received + 1 /\ dropped' \in {dropped, dropped + 1}
        /\ item' = item
        /\ pop' \in [Workers -> {"idle", "waiting", "woken", "ended"}]
    BY <2>1, PushEffect
  <2> QED
    BY <2>1, <2>3, <2>4 DEF Typed, workVars
<1>4. CASE CloseQueue
  BY <1>4 DEF CloseQueue, Q!Close, Q!NotifyAll, workVars, Typed
<1>5. ASSUME NEW how \in Dead, Dies(how) PROVE Typed'
  BY <1>5, EmptySeq DEF Dies, Typed
<1>6. ASSUME NEW w \in Workers, SpawnWorker(w) PROVE Typed'
  BY <1>6 DEF SpawnWorker, queueVars, Typed
<1>7. ASSUME NEW w \in Workers, WorkerPop(w) PROVE Typed'
  <2>1. CASE Q!PopTake(w) /\ stage' = [stage EXCEPT ![w] = "write"]
    <3>1. /\ queue' \in Seq(Nat) /\ queue[1] \in Nat
          /\ item' = [item EXCEPT ![w] = queue[1]]
          /\ UNCHANGED <<dropped, received>> /\ pop' = [pop EXCEPT ![w] = "idle"]
      BY <2>1, TakeEffect
    <3> QED
      BY <1>7, <2>1, <3>1 DEF WorkerPop, Typed
  <2>2. CASE (Q!PopWait(w) \/ Q!PopEnd(w)) /\ UNCHANGED stage
    BY <1>7, <2>2 DEF WorkerPop, Q!PopWait, Q!PopEnd, Typed
  <2> QED
    BY <1>7, <2>1, <2>2 DEF WorkerPop
<1>8. ASSUME NEW w \in Workers, WorkerWrite(w) PROVE Typed'
  BY <1>8 DEF WorkerWrite, queueVars, Typed
<1>10. ASSUME NEW w \in Workers, WorkerExport(w) PROVE Typed'
  BY <1>10 DEF WorkerExport, queueVars, Typed
<1>11. ASSUME NEW w \in Workers, WorkerExported(w) PROVE Typed'
  BY <1>11 DEF WorkerExported, queueVars, Typed
<1>9. ASSUME NEW w \in Workers, WorkerSpuriousWakeup(w) PROVE Typed'
  BY <1>9 DEF WorkerSpuriousWakeup, Q!SpuriousWakeup, workVars, Typed
<1> QED
  BY <1>1, <1>2, <1>3, <1>4, <1>5, <1>6, <1>7, <1>8, <1>9, <1>10, <1>11
  DEF Steps

-----------------------------------------------------------------------------
(* How the number of workers at certain stages changes when one moves. *)
LEMMA AtFinite ==
    ASSUME NEW stages PROVE IsFiniteSet(At(stages)) /\ Cardinality(At(stages)) \in Nat
BY DaemonAssumption, FS_Subset, FS_CardinalityType DEF At

(* One worker enters the stages. *)
LEMMA Enters ==
    ASSUME Typed, NEW w \in Workers, NEW CONSTANT to, NEW CONSTANT stages,
           stage' = [stage EXCEPT ![w] = to], stage[w] \notin stages, to \in stages
    PROVE  Cardinality(At(stages)') = Cardinality(At(stages)) + 1
<1>1. At(stages)' = At(stages) \union {w} /\ w \notin At(stages)
  BY DEF At, Typed
<1> QED
  BY <1>1, AtFinite, FS_AddElement

(* One worker leaves them. *)
LEMMA Leaves ==
    ASSUME Typed, NEW w \in Workers, NEW CONSTANT to, NEW CONSTANT stages,
           stage' = [stage EXCEPT ![w] = to], stage[w] \in stages, to \notin stages
    PROVE  Cardinality(At(stages)') = Cardinality(At(stages)) - 1
<1>1. At(stages)' = At(stages) \ {w} /\ w \in At(stages)
  BY DEF At, Typed
<1> QED
  BY <1>1, AtFinite, FS_RemoveElement, Zenon

(* A move within the stages, or outside them. *)
LEMMA Stays ==
    ASSUME Typed, NEW w \in Workers, NEW CONSTANT to, NEW CONSTANT stages,
           stage' = [stage EXCEPT ![w] = to], stage[w] \in stages <=> to \in stages
    PROVE  At(stages)' = At(stages)
BY DEF At, Typed

(* SamplesAccounted in these terms. *)
Accounts ==
    /\ received = dropped + Len(queue) + Cardinality(At({"write", "export"})) + processed
    /\ processed = exported + Cardinality(At({"exported"}))

(* The same equations with the sets of workers by name. *)
LEMMA AccountsIs == SamplesAccounted <=> Accounts
<1>1. InFlight = At({"write", "export"})
  BY DEF InFlight, At
<1>2. {w \in Workers : stage[w] = "exported"} = At({"exported"})
  BY DEF At
<1> QED
  BY <1>1, <1>2, Zenon DEF SamplesAccounted, Accounts

(* One more is received, and one more dropped or queued; one moves on. *)
LEMMA OneMore ==
    ASSUME NEW d \in Nat, NEW q \in Nat, NEW f \in Nat, NEW p \in Nat,
           NEW d1 \in Nat, NEW q1 \in Nat, d1 + q1 = d + q + 1
    PROVE  (d + q + f + p) + 1 = d1 + q1 + f + p
OBVIOUS

(* One sample is counted and no longer in flight. *)
LEMMA OneMoves ==
    ASSUME NEW d \in Nat, NEW q \in Nat, NEW f \in Nat, NEW p \in Nat
    PROVE  d + q + f + p = d + q + (f - 1) + (p + 1)
OBVIOUS

(* Every step keeps the accounts. *)
LEMMA AccountsStep == ASSUME Typed, Accounts, Steps PROVE Accounts'
<1> DEFINE F == At({"write", "export"})
           E == At({"exported"})
<1>0. /\ dropped \in Nat /\ received \in Nat /\ processed \in Nat
      /\ exported \in Nat /\ Len(queue) \in Nat
      /\ Cardinality(F) \in Nat /\ Cardinality(E) \in Nat
  BY AtFinite, LenProperties DEF Typed
<1>s. ASSUME UNCHANGED stage PROVE F' = F /\ E' = E
  BY <1>s DEF At
<1>1. CASE Idles \/ JoinAndReturn
  BY <1>1, <1>s DEF Idles, JoinAndReturn, Proceeds, queueVars, workVars, Accounts
<1>2. CASE PushSample
  <2>1. Q!Push /\ UNCHANGED workVars
    BY <1>2 DEF PushSample
  <2>2. /\ received' = received + 1
        /\ \/ dropped' = dropped + 1 /\ queue' = queue
           \/ dropped' = dropped /\ queue' = Append(queue, received + 1)
    BY <2>1, PushEffect
  <2>3. Len(Append(queue, received + 1)) = Len(queue) + 1
    BY AppendProperties DEF Typed
  <2>4. F' = F /\ E' = E /\ UNCHANGED <<processed, exported>>
    BY <1>s, <2>1 DEF workVars
  <2>5. dropped' + Len(queue') = dropped + Len(queue) + 1
    BY <1>0, <2>2, <2>3
  <2>6. dropped' \in Nat /\ Len(queue') \in Nat
    BY <1>0, <2>2, <2>3
  <2>7. (dropped + Len(queue) + Cardinality(F) + processed) + 1
            = dropped' + Len(queue') + Cardinality(F) + processed
    BY <1>0, <2>5, <2>6, OneMore
  <2> QED
    BY <2>2, <2>4, <2>7 DEF Accounts
<1>3. CASE CloseQueue
  BY <1>3, <1>s DEF CloseQueue, Q!Close, workVars, Accounts
<1>4. ASSUME NEW how \in Dead, Dies(how) PROVE Accounts'
  <2>1. F' = {} /\ E' = {}
    BY <1>4 DEF Dies, At
  <2>2. Cardinality(F') = 0 /\ Cardinality(E') = 0 /\ Len(<<>>) = 0
    BY <2>1, FS_EmptySet
  <2>3. received' = 0 /\ dropped' = 0 /\ processed' = 0 /\ exported' = 0 /\ queue' = <<>>
    BY <1>4 DEF Dies
  <2> QED
    BY <2>2, <2>3 DEF Accounts
<1>5. ASSUME NEW w \in Workers, SpawnWorker(w) PROVE Accounts'
  <2>1. stage' = [stage EXCEPT ![w] = "pop"] /\ stage[w] = "unborn"
    BY <1>5 DEF SpawnWorker, Born
  <2>2. F' = F /\ E' = E
    BY <2>1, Stays, Zenon
  <2> QED
    BY <1>5, <2>2 DEF SpawnWorker, queueVars, Accounts
<1>6. ASSUME NEW w \in Workers, WorkerPop(w) PROVE Accounts'
  <2>1. CASE Q!PopTake(w) /\ stage' = [stage EXCEPT ![w] = "write"]
    <3>1. stage[w] = "pop"
      BY <1>6 DEF WorkerPop
    <3>2. Cardinality(F') = Cardinality(F) + 1 /\ E' = E
      BY <2>1, <3>1, Enters, Stays, Zenon
    <3>3. Len(queue') = Len(queue) - 1 /\ UNCHANGED <<dropped, received>>
      BY <2>1, TakeEffect
    <3> QED
      BY <1>0, <1>6, <3>2, <3>3 DEF WorkerPop, Accounts
  <2>2. CASE (Q!PopWait(w) \/ Q!PopEnd(w)) /\ UNCHANGED stage
    BY <1>6, <1>s, <2>2 DEF WorkerPop, Q!PopWait, Q!PopEnd, Accounts
  <2> QED
    BY <1>6, <2>1, <2>2 DEF WorkerPop
<1>7. ASSUME NEW w \in Workers, WorkerWrite(w) PROVE Accounts'
  <2>1. stage' = [stage EXCEPT ![w] = "export"] /\ stage[w] = "write"
    BY <1>7 DEF WorkerWrite
  <2>2. F' = F /\ E' = E
    BY <2>1, Stays, Zenon
  <2> QED
    BY <1>7, <2>2 DEF WorkerWrite, queueVars, Accounts
<1>8. ASSUME NEW w \in Workers, WorkerExport(w) PROVE Accounts'
  <2>1. stage' = [stage EXCEPT ![w] = "exported"] /\ stage[w] = "export"
    BY <1>8 DEF WorkerExport
  <2>2. Cardinality(F') = Cardinality(F) - 1
    <3>1. stage[w] \in {"write", "export"} /\ "exported" \notin {"write", "export"}
      BY <2>1
    <3> QED
      BY <2>1, <3>1, Leaves, Zenon
  <2>3. Cardinality(E') = Cardinality(E) + 1
    BY <2>1, Enters, Zenon
  <2>4. UNCHANGED <<queue, dropped, received, exported>> /\ processed' = processed + 1
    BY <1>8 DEF WorkerExport, queueVars
  <2>5. received = dropped + Len(queue) + (Cardinality(F) - 1) + (processed + 1)
    BY <1>0, OneMoves DEF Accounts
  <2>6. processed + 1 = exported + (Cardinality(E) + 1)
    BY <1>0 DEF Accounts
  <2> QED
    BY <2>2, <2>3, <2>4, <2>5, <2>6 DEF Accounts
<1>9. ASSUME NEW w \in Workers, WorkerExported(w) PROVE Accounts'
  <2>1. stage' = [stage EXCEPT ![w] = "pop"] /\ stage[w] = "exported"
    BY <1>9 DEF WorkerExported
  <2>2. F' = F
    BY <2>1, Stays, Zenon
  <2>3. Cardinality(E') = Cardinality(E) - 1
    <3>1. stage[w] \in {"exported"} /\ "pop" \notin {"exported"}
      BY <2>1
    <3> QED
      BY <2>1, <3>1, Leaves, Zenon
  <2> QED
    BY <1>0, <1>9, <2>2, <2>3 DEF WorkerExported, queueVars, Accounts
<1>10. ASSUME NEW w \in Workers, WorkerSpuriousWakeup(w) PROVE Accounts'
  BY <1>10, <1>s DEF WorkerSpuriousWakeup, Q!SpuriousWakeup, workVars, Accounts
<1> QED
  BY <1>1, <1>2, <1>3, <1>4, <1>5, <1>6, <1>7, <1>8, <1>9, <1>10 DEF Steps

-----------------------------------------------------------------------------
(* A worker that was told of the end holds nothing, and nothing is left. *)
EndsLast ==
    \A w \in Workers : pop[w] = "ended" => stage[w] = "pop" /\ closed /\ queue = <<>>

(* The end stays the end: a closed queue accepts nothing. *)
LEMMA EndsLastStep == ASSUME Typed, EndsLast, Steps PROVE EndsLast'
<1> SUFFICES ASSUME NEW v \in Workers, pop'[v] = "ended"
             PROVE  stage'[v] = "pop" /\ closed' /\ queue' = <<>>
  BY DEF EndsLast
<1>0. pop[v] = "ended" => stage[v] = "pop" /\ closed /\ queue = <<>>
  BY DEF EndsLast
<1>1. CASE Idles \/ JoinAndReturn
  BY <1>0, <1>1 DEF Idles, JoinAndReturn, Proceeds, queueVars, workVars
<1>2. CASE PushSample
  <2>1. Q!Push /\ UNCHANGED workVars
    BY <1>2 DEF PushSample
  <2>2. /\ pop[v] = "ended" /\ closed' = closed
        /\ queue' = queue \/ ~closed
    BY <2>1, PushEffect
  <2> QED
    BY <1>0, <2>1, <2>2 DEF workVars
<1>3. CASE CloseQueue
  BY <1>0, <1>3 DEF CloseQueue, Q!Close, Q!NotifyAll, workVars, Typed
<1>4. ASSUME NEW how \in Dead, Dies(how) PROVE FALSE
  BY <1>4 DEF Dies
<1>5. ASSUME NEW w \in Workers, SpawnWorker(w) PROVE stage'[v] = "pop" /\ closed' /\ queue' = <<>>
  BY <1>0, <1>5 DEF SpawnWorker, queueVars, Typed
<1>6. ASSUME NEW w \in Workers, WorkerPop(w) PROVE stage'[v] = "pop" /\ closed' /\ queue' = <<>>
  <2>1. CASE Q!PopTake(w) /\ stage' = [stage EXCEPT ![w] = "write"]
    <3>1. queue # <<>> /\ pop' = [pop EXCEPT ![w] = "idle"]
      BY <2>1, TakeEffect
    <3>2. v # w /\ pop[v] = "ended"
      BY <3>1 DEF Typed
    <3> QED
      BY <1>0, <3>1, <3>2
  <2>2. CASE Q!PopWait(w) /\ UNCHANGED stage
    BY <1>0, <1>6, <2>2 DEF Q!PopWait, Typed
  <2>3. CASE Q!PopEnd(w) /\ UNCHANGED stage
    BY <1>0, <1>6, <2>3 DEF WorkerPop, Q!PopEnd, Typed
  <2> QED
    BY <1>6, <2>1, <2>2, <2>3 DEF WorkerPop
<1>7. ASSUME NEW w \in Workers, WorkerWrite(w) \/ WorkerExport(w) \/ WorkerExported(w)
      PROVE  stage'[v] = "pop" /\ closed' /\ queue' = <<>>
  BY <1>0, <1>7 DEF WorkerWrite, WorkerExport, WorkerExported, queueVars, Typed
<1>8. ASSUME NEW w \in Workers, WorkerSpuriousWakeup(w)
      PROVE  stage'[v] = "pop" /\ closed' /\ queue' = <<>>
  BY <1>0, <1>8 DEF WorkerSpuriousWakeup, Q!SpuriousWakeup, workVars, Typed
<1> QED
  BY <1>1, <1>2, <1>3, <1>4, <1>5, <1>6, <1>7, <1>8 DEF Steps

-----------------------------------------------------------------------------
(***************************************************************************)
(* The queue is in order of arrival; everything logged or about to be is   *)
(* older than the queue, and what workers hold is theirs alone.            *)
(***************************************************************************)
Older(n) == n <= received /\ \A i \in 1..Len(queue) : n < queue[i]

InOrder ==
    /\ \A i \in 1..Len(queue) : queue[i] <= received
    /\ \A i, j \in 1..Len(queue) : i < j => queue[i] < queue[j]
    /\ logged \subseteq Nat /\ \A n \in logged : Older(n)
    /\ \A w \in Workers : stage[w] = "write" => item[w] \notin logged /\ Older(item[w])
    /\ \A v, w \in Workers :
        stage[v] = "write" /\ stage[w] = "write" /\ item[v] = item[w] => v = w

(* A step that leaves queue and holders alone, or starts or ends a holder. *)
LEMMA InOrderSame ==
    ASSUME InOrder, UNCHANGED <<queue, received, logged, item>>,
           \A w \in Workers : stage'[w] = "write" => stage[w] = "write"
    PROVE  InOrder'
BY DEF InOrder, Older

(* What arrives is newer than everything. *)
LEMMA InOrderPush == ASSUME Typed, InOrder, PushSample PROVE InOrder'
<1>1. Q!Push /\ UNCHANGED <<stage, logged>>
  BY DEF PushSample, workVars
<1>2. /\ received' = received + 1 /\ item' = item
      /\ queue' = queue \/ queue' = Append(queue, received + 1)
  BY <1>1, PushEffect
<1>3. queue \in Seq(Nat) /\ received \in Nat /\ Len(queue) \in Nat /\ item \in [Workers -> Nat]
  BY LenProperties DEF Typed
<1>4. \A i \in 1..Len(queue) : queue[i] \in Nat
  BY <1>3, ElementOfSeq
<1>5. CASE queue' = queue
  BY <1>1, <1>2, <1>3, <1>4, <1>5 DEF InOrder, Older
<1>6. CASE queue' = Append(queue, received + 1)
  <2>1. /\ Len(queue') = Len(queue) + 1 /\ queue'[Len(queue) + 1] = received + 1
        /\ \A i \in 1..Len(queue) : queue'[i] = queue[i]
    BY <1>3, <1>6, AppendProperties
  <2>2. \A i \in 1..Len(queue') : i \in 1..Len(queue) \/ i = Len(queue) + 1
    BY <1>3, <2>1
  <2>3. \A n \in Nat : Older(n) => Older(n)'
    BY <1>2, <1>3, <1>4, <2>1, <2>2 DEF Older
  <2>4. \A i \in 1..Len(queue') : queue'[i] <= received'
    BY <1>2, <1>3, <1>4, <2>1, <2>2 DEF InOrder
  <2>5. \A i, j \in 1..Len(queue') : i < j => queue'[i] < queue'[j]
    BY <1>3, <1>4, <2>1, <2>2 DEF InOrder
  <2> QED
    BY <1>1, <1>2, <1>3, <2>3, <2>4, <2>5 DEF InOrder
<1> QED
  BY <1>2, <1>5, <1>6

(* The head, now held, is older than the rest and newer than the log. *)
LEMMA InOrderTake ==
    ASSUME Typed, InOrder, NEW w \in Workers, Q!PopTake(w),
           stage[w] = "pop", stage' = [stage EXCEPT ![w] = "write"], UNCHANGED logged
    PROVE  InOrder'
<1>1. /\ Len(queue') = Len(queue) - 1 /\ queue # <<>>
      /\ \A i \in 1..Len(queue') : queue'[i] = queue[i + 1]
      /\ item' = [item EXCEPT ![w] = queue[1]] /\ received' = received
  BY TakeEffect
<1>2. queue \in Seq(Nat) /\ Len(queue) \in Nat \ {0} /\ received \in Nat
  BY <1>1, EmptySeq DEF Typed
<1>3. \A i \in 1..Len(queue) : queue[i] \in Nat
  BY <1>2, ElementOfSeq
<1>4. 1 \in 1..Len(queue) /\ \A i \in 1..Len(queue') : i + 1 \in 1..Len(queue) /\ 1 < i + 1
  BY <1>1, <1>2
<1>5. \A n : Older(n) => Older(n)'
  BY <1>1, <1>4 DEF Older
<1>6. PICK h \in Nat : h = queue[1]
  BY <1>3, <1>4
<1>7. Older(h)'
  BY <1>1, <1>4, <1>6 DEF InOrder, Older
<1>8. h \notin logged /\ \A v \in Workers : stage[v] = "write" => item[v] # h
  <2>1. \A n \in Nat : Older(n) => n # h
    BY <1>3, <1>4, <1>6 DEF Older
  <2> QED
    BY <1>6, <2>1 DEF InOrder, Typed
<1>9. /\ \A i \in 1..Len(queue') : queue'[i] <= received'
      /\ \A i, j \in 1..Len(queue') : i < j => queue'[i] < queue'[j]
  <2>1. \A i, j \in 1..Len(queue') : i < j => i + 1 < j + 1
    OBVIOUS
  <2> QED
    BY <1>1, <1>4, <2>1, Zenon DEF InOrder
<1>10. /\ item'[w] = h /\ stage'[w] = "write"
       /\ \A v \in Workers \ {w} : item'[v] = item[v] /\ stage'[v] = stage[v]
  BY <1>1, <1>6 DEF Typed
<1>11. \A v \in Workers : stage'[v] = "write" => item'[v] \notin logged' /\ Older(item[v])'
  <2> SUFFICES ASSUME NEW v \in Workers, stage'[v] = "write"
               PROVE  item'[v] \notin logged' /\ Older(item[v])'
    OBVIOUS
  <2>1. PICK n : n = item'[v]
    OBVIOUS
  <2>2. n \notin logged' /\ Older(n)'
    BY <1>5, <1>7, <1>8, <1>10, <2>1 DEF InOrder
  <2> QED
    BY <2>1, <2>2 DEF Older
<1>12. \A u, v \in Workers :
         stage'[u] = "write" /\ stage'[v] = "write" /\ item'[u] = item'[v] => u = v
  BY <1>8, <1>10 DEF InOrder
<1>13. logged' \subseteq Nat /\ \A n \in logged' : Older(n)'
  BY <1>5 DEF InOrder
<1> QED
  BY <1>9, <1>11, <1>12, <1>13 DEF InOrder

(* Logging what was held. *)
LEMMA InOrderWrite ==
    ASSUME Typed, InOrder, NEW w \in Workers, WorkerWrite(w) PROVE InOrder'
<1>1. /\ stage[w] = "write" /\ stage' = [stage EXCEPT ![w] = "export"]
      /\ logged' = logged \union {item[w]} /\ UNCHANGED <<queue, received, item>>
  BY DEF WorkerWrite, queueVars
<1>2. \A n : Older(n)' <=> Older(n)
  BY <1>1 DEF Older
<1>3. item[w] \in Nat /\ Older(item[w])
  BY <1>1 DEF Typed, InOrder
<1>4. \A v \in Workers : stage'[v] = "write" => v # w /\ stage[v] = "write"
  BY <1>1 DEF Typed
<1> QED
  BY <1>1, <1>2, <1>3, <1>4, Zenon DEF InOrder

(* Every step short of the death of the process keeps the order. *)
LEMMA InOrderStep == ASSUME Typed, InOrder, Steps, main' \notin Dead PROVE InOrder'
<1>1. CASE Idles \/ JoinAndReturn
  BY <1>1, InOrderSame DEF Idles, JoinAndReturn, Proceeds, queueVars, workVars
<1>2. CASE PushSample
  BY <1>2, InOrderPush
<1>3. CASE CloseQueue
  BY <1>3, InOrderSame DEF CloseQueue, Q!Close, workVars
<1>4. ASSUME NEW how \in Dead, Dies(how) PROVE FALSE
  BY <1>4 DEF Dies
<1>5. ASSUME NEW w \in Workers, SpawnWorker(w) PROVE InOrder'
  BY <1>5, InOrderSame DEF SpawnWorker, queueVars, Typed
<1>6. ASSUME NEW w \in Workers, WorkerPop(w) PROVE InOrder'
  <2>1. CASE Q!PopTake(w) /\ stage' = [stage EXCEPT ![w] = "write"]
    BY <1>6, <2>1, InOrderTake, Zenon DEF WorkerPop
  <2>2. CASE (Q!PopWait(w) \/ Q!PopEnd(w)) /\ UNCHANGED stage
    BY <1>6, <2>2, InOrderSame DEF WorkerPop, Q!PopWait, Q!PopEnd
  <2> QED
    BY <1>6, <2>1, <2>2 DEF WorkerPop
<1>7. ASSUME NEW w \in Workers, WorkerWrite(w) PROVE InOrder'
  BY <1>7, InOrderWrite
<1>8. ASSUME NEW w \in Workers, WorkerExport(w) PROVE InOrder'
  BY <1>8, InOrderSame DEF WorkerExport, queueVars, Typed
<1>9. ASSUME NEW w \in Workers, WorkerExported(w) PROVE InOrder'
  BY <1>9, InOrderSame DEF WorkerExported, queueVars, Typed
<1>10. ASSUME NEW w \in Workers, WorkerSpuriousWakeup(w) PROVE InOrder'
  BY <1>10, InOrderSame DEF WorkerSpuriousWakeup, Q!SpuriousWakeup, workVars
<1> QED
  BY <1>1, <1>2, <1>3, <1>4, <1>5, <1>6, <1>7, <1>8, <1>9, <1>10 DEF Steps

-----------------------------------------------------------------------------
(* Each sample is logged once: those counted and those about to be. *)
LoggedOnce ==
    IsFiniteSet(logged) /\ Cardinality(logged) = processed + Cardinality(At({"export"}))

(* A sample is new to the log when it is written, and counted after. *)
LEMMA LoggedOnceStep ==
    ASSUME Typed, InOrder, LoggedOnce, Steps, main' \notin Dead PROVE LoggedOnce'
<1> DEFINE X == At({"export"})
<1>0. processed \in Nat /\ Cardinality(X) \in Nat
  BY AtFinite DEF Typed
<1>s. ASSUME UNCHANGED <<stage, logged, processed>> PROVE LoggedOnce'
  <2>1. X' = X
    BY <1>s DEF At
  <2> QED
    BY <1>s, <2>1 DEF LoggedOnce
<1>1. CASE Idles \/ JoinAndReturn \/ PushSample \/ CloseQueue
  BY <1>1, <1>s DEF Idles, JoinAndReturn, Proceeds, PushSample, CloseQueue, workVars
<1>2. ASSUME NEW how \in Dead, Dies(how) PROVE FALSE
  BY <1>2 DEF Dies
<1>3. ASSUME NEW w \in Workers, SpawnWorker(w) PROVE LoggedOnce'
  <2>1. /\ stage' = [stage EXCEPT ![w] = "pop"] /\ stage[w] = "unborn"
        /\ UNCHANGED <<logged, processed>>
    BY <1>3 DEF SpawnWorker, Born
  <2>2. X' = X
    BY <2>1, Stays, Zenon
  <2> QED
    BY <2>1, <2>2 DEF LoggedOnce
<1>4. ASSUME NEW w \in Workers, WorkerPop(w) PROVE LoggedOnce'
  <2>1. CASE stage' = [stage EXCEPT ![w] = "write"]
    <3>1. stage[w] = "pop" /\ UNCHANGED <<logged, processed>>
      BY <1>4 DEF WorkerPop
    <3>2. X' = X
      BY <2>1, <3>1, Stays, Zenon
    <3> QED
      BY <3>1, <3>2 DEF LoggedOnce
  <2>2. CASE UNCHANGED stage
    BY <1>4, <1>s, <2>2 DEF WorkerPop
  <2> QED
    BY <1>4, <2>1, <2>2 DEF WorkerPop
<1>5. ASSUME NEW w \in Workers, WorkerWrite(w) PROVE LoggedOnce'
  <2>1. /\ stage' = [stage EXCEPT ![w] = "export"] /\ stage[w] = "write"
        /\ logged' = logged \union {item[w]} /\ processed' = processed
    BY <1>5 DEF WorkerWrite
  <2>2. Cardinality(X') = Cardinality(X) + 1
    BY <2>1, Enters, Zenon
  <2>3. item[w] \notin logged
    BY <2>1 DEF InOrder
  <2>4. IsFiniteSet(logged') /\ Cardinality(logged') = Cardinality(logged) + 1
    BY <2>1, <2>3, FS_AddElement, Zenon DEF LoggedOnce
  <2> QED
    BY <1>0, <2>1, <2>2, <2>4 DEF LoggedOnce
<1>6. ASSUME NEW w \in Workers, WorkerExport(w) PROVE LoggedOnce'
  <2>1. /\ stage' = [stage EXCEPT ![w] = "exported"] /\ stage[w] = "export"
        /\ processed' = processed + 1 /\ logged' = logged
    BY <1>6 DEF WorkerExport
  <2>2. Cardinality(X') = Cardinality(X) - 1
    <3>1. stage[w] \in {"export"} /\ "exported" \notin {"export"}
      BY <2>1
    <3> QED
      BY <2>1, <3>1, Leaves, Zenon
  <2> QED
    BY <1>0, <2>1, <2>2 DEF LoggedOnce
<1>7. ASSUME NEW w \in Workers, WorkerExported(w) PROVE LoggedOnce'
  <2>1. /\ stage' = [stage EXCEPT ![w] = "pop"] /\ stage[w] = "exported"
        /\ UNCHANGED <<logged, processed>>
    BY <1>7 DEF WorkerExported
  <2>2. X' = X
    BY <2>1, Stays, Zenon
  <2> QED
    BY <2>1, <2>2 DEF LoggedOnce
<1>8. ASSUME NEW w \in Workers, WorkerSpuriousWakeup(w) PROVE LoggedOnce'
  BY <1>8, <1>s DEF WorkerSpuriousWakeup, workVars
<1> QED
  BY <1>1, <1>2, <1>3, <1>4, <1>5, <1>6, <1>7, <1>8 DEF Steps

-----------------------------------------------------------------------------
(* How the process ended: with all workers done, or with its memory gone. *)
EndsWell ==
    /\ main = "exit0" => \A w \in Workers : pop[w] = "ended"
    /\ main \in Dead => queue = <<>> /\ ~closed

(* Only JoinAndReturn ends with 0, and only Dies otherwise. *)
LEMMA EndsWellStep == ASSUME Alive, Steps PROVE EndsWell'
<1>1. CASE Idles
  BY <1>1 DEF Idles, Ended, Dead, EndsWell
<1>2. CASE JoinAndReturn
  BY <1>2 DEF JoinAndReturn, Proceeds, queueVars, Dead, EndsWell
<1>3. CASE PushSample \/ CloseQueue
  BY <1>3 DEF PushSample, CloseQueue, Dead, EndsWell
<1>4. ASSUME NEW how \in Dead, Dies(how) PROVE EndsWell'
  BY <1>4 DEF Dies, Dead, EndsWell
<1>5. ASSUME NEW w \in Workers,
             \/ SpawnWorker(w) \/ WorkerPop(w) \/ WorkerWrite(w)
             \/ WorkerExport(w) \/ WorkerExported(w) \/ WorkerSpuriousWakeup(w)
      PROVE  EndsWell'
  <2>1. main' \notin Ended
    BY <1>5, Zenon DEF SpawnWorker, WorkerPop, WorkerWrite, WorkerExport,
                WorkerExported, WorkerSpuriousWakeup, Alive, Ended
  <2> QED
    BY <2>1 DEF Ended, Dead, EndsWell
<1> QED
  BY <1>1, <1>2, <1>3, <1>4, <1>5 DEF Steps

(* The inductive invariant. *)
DaemonInv ==
    /\ Typed /\ Accounts /\ EndsLast /\ EndsWell
    /\ main \notin Dead => InOrder /\ LoggedOnce

(* The invariant holds at the start ... *)
LEMMA InitDaemonInv == ASSUME Init PROVE DaemonInv
<1>1. Typed /\ EndsLast /\ EndsWell
  BY EmptySeq DEF Init, Q!Init, Typed, EndsLast, EndsWell, Dead
<1>2. At({"write", "export"}) = {} /\ At({"exported"}) = {} /\ At({"export"}) = {}
  BY DEF Init, At
<1>3. Accounts
  <2>1. Cardinality(At({"write", "export"})) = 0 /\ Cardinality(At({"exported"})) = 0
    BY <1>2, FS_EmptySet
  <2>2. /\ received = 0 /\ dropped = 0 /\ processed = 0 /\ exported = 0
        /\ Len(queue) = 0
    BY DEF Init, Q!Init
  <2> QED
    BY <2>1, <2>2 DEF Accounts
<1>4. LoggedOnce
  <2>1. Cardinality(At({"export"})) = 0 /\ Cardinality(logged) = 0 /\ IsFiniteSet(logged)
    BY <1>2, FS_EmptySet DEF Init
  <2> QED
    BY <2>1 DEF LoggedOnce, Init
<1>5. InOrder
  BY DEF InOrder, Init, Q!Init
<1> QED
  BY <1>1, <1>3, <1>4, <1>5 DEF DaemonInv

(* ... and every step keeps it. *)
LEMMA DaemonInvStep == ASSUME DaemonInv, [Next]_daemonVars PROVE DaemonInv'
<1>1. CASE UNCHANGED daemonVars
  BY <1>1, Zenon DEF daemonVars, queueVars, workVars, DaemonInv, Typed, Accounts, At,
              EndsLast, EndsWell, InOrder, Older, LoggedOnce
<1>2. CASE Alive /\ Steps
  <2>1. main \notin Dead /\ Typed /\ Accounts /\ EndsLast /\ InOrder /\ LoggedOnce
    BY <1>2 DEF DaemonInv, Alive, Ended, Dead
  <2>2. Typed' /\ Accounts' /\ EndsLast' /\ EndsWell'
    BY <1>2, <2>1, TypedStep, AccountsStep, EndsLastStep, EndsWellStep
  <2>3. main' \notin Dead => InOrder' /\ LoggedOnce'
    BY <1>2, <2>1, InOrderStep, LoggedOnceStep
  <2>4. Dead' = Dead
    BY DEF Dead
  <2> QED
    BY <2>2, <2>3, <2>4 DEF DaemonInv
<1> QED
  BY <1>1, <1>2, NextKinds

(* Every reachable state of the daemon satisfies the invariant. *)
THEOREM DaemonInvariant == Spec => []DaemonInv
<1>1. Init => DaemonInv
  BY InitDaemonInv
<1>2. DaemonInv /\ [Next]_daemonVars => DaemonInv'
  BY DaemonInvStep
<1> QED
  BY <1>1, <1>2, PTL DEF Spec

-----------------------------------------------------------------------------
(***************************************************************************)
(* No sample is lost or counted twice on its way from the epoll callback   *)
(* through the queue and the workers to the counters.                      *)
(***************************************************************************)
THEOREM NoSampleLost == Spec => []SamplesAccounted
<1>1. DaemonInv => SamplesAccounted
  BY AccountsIs DEF DaemonInv
<1> QED
  BY <1>1, DaemonInvariant, PTL

(***************************************************************************)
(* Whatever the workers' interleaving, write_sample has logged nothing     *)
(* newer than a sample still in the queue.                                 *)
(***************************************************************************)
THEOREM LogOvertakesOnlyHeld == Spec => []OvertakingBounded
<1>1. ASSUME DaemonInv PROVE OvertakingBounded
  <2>1. CASE main \in Dead
    <3>1. queue = <<>>
      BY <1>1, <2>1 DEF DaemonInv, EndsWell
    <3>2. DOMAIN queue = {}
      BY <3>1
    <3> QED
      BY <3>2 DEF OvertakingBounded
  <2>2. CASE main \notin Dead
    <3>1. DOMAIN queue = 1..Len(queue)
      BY <1>1, LenProperties DEF DaemonInv, Typed
    <3>2. InOrder
      BY <1>1, <2>2 DEF DaemonInv
    <3> QED
      BY <3>1, <3>2, Zenon DEF InOrder, Older, OvertakingBounded
  <2> QED
    BY <2>1, <2>2
<1>2. DaemonInv => OvertakingBounded
  BY <1>1
<1> QED
  BY <1>2, DaemonInvariant, PTL

(***************************************************************************)
(* When main returns 0 after close() and the joins, every accepted sample  *)
(* has been logged once, processed and exported.                           *)
(***************************************************************************)
THEOREM OrderlyExitDrains == Spec => []DrainedOnExit
<1>1. ASSUME DaemonInv, main = "exit0"
      PROVE  /\ Cardinality(logged) = received - dropped
             /\ processed = received - dropped /\ exported = processed
  <2>1. \A w \in Workers : stage[w] = "pop"
    BY <1>1 DEF DaemonInv, EndsLast, EndsWell
  <2>2. queue = <<>>
    BY <1>1, DaemonAssumption DEF DaemonInv, EndsLast, EndsWell
  <2>3. At({"write", "export"}) = {} /\ At({"exported"}) = {} /\ At({"export"}) = {}
    BY <2>1 DEF At
  <2>4. /\ Cardinality(At({"write", "export"})) = 0 /\ Cardinality(At({"exported"})) = 0
        /\ Cardinality(At({"export"})) = 0 /\ Len(queue) = 0
    BY <2>2, <2>3, FS_EmptySet, Zenon
  <2>5. Accounts /\ LoggedOnce /\ Typed
    BY <1>1 DEF DaemonInv, Dead
  <2>6. received = dropped + processed /\ processed = exported
    BY <2>4, <2>5 DEF Accounts, Typed
  <2>7. Cardinality(logged) = processed
    BY <2>4, <2>5 DEF LoggedOnce, Typed
  <2> QED
    BY <2>5, <2>6, <2>7 DEF Typed
<1>2. DaemonInv => DrainedOnExit
  BY <1>1 DEF DrainedOnExit
<1> QED
  BY <1>2, DaemonInvariant, PTL

-----------------------------------------------------------------------------
(***************************************************************************)
(* While build_stats_text runs nothing is received or dropped, and the     *)
(* counters of the workers only grow.                                      *)
(***************************************************************************)
Grows ==
    /\ main = "stats" /\ UNCHANGED <<reply, unread, received, dropped>>
    /\ processed' >= processed /\ exported' >= exported

(* The steps taken during, or into, a stats command. *)
LEMMA StatsKinds ==
    ASSUME Typed, [Next]_daemonVars, main' = "stats"
    PROVE  StatsBegin \/ StatsRead \/ Grows
<1>0. processed \in Nat /\ exported \in Nat
  BY DEF Typed
<1>u. ASSUME UNCHANGED <<main, reply, unread, received, dropped, processed, exported>>
      PROVE  Grows
  BY <1>0, <1>u DEF Grows
<1>1. CASE UNCHANGED daemonVars
  BY <1>1, <1>u DEF daemonVars, queueVars, workVars, replyVars
<1>2. CASE \/ Setup \/ OpenDevice \/ CreateSignalFd \/ Register \/ RunOnce
           \/ RunOnceReturns \/ ReadSource \/ PushSample \/ PushDone
           \/ HandleSignal \/ HandleOther \/ StatsAnswer \/ CloseQueue \/ JoinAndReturn
  BY <1>2, Zenon DEF Setup, OpenDevice, CreateSignalFd, Register, RunOnce, RunOnceReturns,
              ReadSource, PushSample, PushDone, HandleSignal, HandleOther, Handles,
              StatsAnswer, CloseQueue, JoinAndReturn, Proceeds
<1>3. CASE SourceProduces
  BY <1>3, <1>u DEF SourceProduces, queueVars, workVars, replyVars
<1>4. CASE Throw \/ (\E w \in Workers : SpawnWorker(w) \/ WorkerThrows(w))
  BY <1>4 DEF Throw, Dies, SpawnWorker, WorkerThrows
<1>5. CASE SignalProcess \/ SignalMainThread
  <2>1. CASE Pends
    BY <2>1, <1>u DEF Pends, queueVars, workVars, replyVars
  <2>2. CASE Dies("killed")
    BY <2>2 DEF Dies
  <2> QED
    BY <1>5, <2>1, <2>2 DEF SignalProcess, SignalMainThread
<1>6. ASSUME NEW w \in Workers, WorkerPop(w) PROVE Grows
  <2>1. UNCHANGED <<received, dropped>>
    BY <1>6 DEF WorkerPop, Q!PopWait, Q!PopEnd, Q!PopTake
  <2> QED
    BY <1>6, <1>u, <2>1 DEF WorkerPop, replyVars
<1>7. ASSUME NEW w \in Workers, WorkerSpuriousWakeup(w) PROVE Grows
  BY <1>7, <1>u DEF WorkerSpuriousWakeup, Q!SpuriousWakeup, workVars, replyVars
<1>8. ASSUME NEW w \in Workers, WorkerWrite(w) \/ WorkerExport(w) \/ WorkerExported(w)
      PROVE  Grows
  BY <1>0, <1>8 DEF WorkerWrite, WorkerExport, WorkerExported, queueVars, replyVars, Grows
<1> QED
  BY <1>1, <1>2, <1>3, <1>4, <1>5, <1>6, <1>7, <1>8 DEF Next, Main, Worker

(* What the fields read so far say of the counters still to be read. *)
Below(n) == n + reply.queue_size + dropped <= received

ReplySoFar ==
    \/ unread = StatsOrder
    \/ /\ unread = <<"processed", "exported", "queue_size", "queue_dropped">>
       /\ reply.received = received
    \/ /\ unread = <<"exported", "queue_size", "queue_dropped">>
       /\ reply.received = received /\ reply.processed <= processed
    \/ /\ unread = <<"queue_size", "queue_dropped">>
       /\ reply.received = received
       /\ reply.processed <= processed /\ reply.exported <= exported
    \/ /\ unread = <<"queue_dropped">>
       /\ reply.received = received
       /\ Below(reply.processed) /\ Below(reply.exported)
    \/ /\ unread = <<>>
       /\ reply.received = received /\ reply.queue_dropped = dropped
       /\ Below(reply.processed) /\ Below(reply.exported)

StatsInv ==
    /\ reply \in [received : Nat, processed : Nat, exported : Nat,
                  queue_size : Nat, queue_dropped : Nat]
    /\ main = "stats" => ReplySoFar

(* Reading the next field. *)
LEMMA StatsReadStep ==
    ASSUME Typed, Accounts, StatsInv, StatsRead PROVE StatsInv'
<1> DEFINE h == Head(unread)
<1>0. /\ main = "stats" /\ main' = "stats" /\ ReplySoFar /\ unread # <<>>
      /\ reply' = [reply EXCEPT ![h] = Counters[h]] /\ unread' = Tail(unread)
      /\ UNCHANGED <<received, dropped, processed, exported>>
  BY Zenon DEF StatsRead, StatsInv, queueVars, workVars
<1>1. /\ dropped \in Nat /\ received \in Nat /\ processed \in Nat
      /\ exported \in Nat /\ Len(queue) \in Nat
      /\ Cardinality(At({"write", "export"})) \in Nat
      /\ Cardinality(At({"exported"})) \in Nat
  BY AtFinite, LenProperties DEF Typed
<1>2. reply \in [received : Nat, processed : Nat, exported : Nat,
                 queue_size : Nat, queue_dropped : Nat]
  BY DEF StatsInv
<1>h. \A f : h = f => reply' = [reply EXCEPT ![f] = Counters[f]]
  BY <1>0, Zenon
<1> HIDE DEF h
<1>c. /\ Counters["received"] = received /\ Counters["processed"] = processed
      /\ Counters["exported"] = exported /\ Counters["queue_size"] = Len(queue)
      /\ Counters["queue_dropped"] = dropped
  BY DEF Counters
<1>3. CASE unread = StatsOrder
  <2>1. h = "received"
        /\ unread' = <<"processed", "exported", "queue_size", "queue_dropped">>
    BY <1>0, <1>3 DEF StatsOrder, h
  <2>2. reply' = [reply EXCEPT !.received = received]
    BY <1>h, <1>c, <2>1
  <2> QED
    BY <1>0, <1>1, <1>2, <2>1, <2>2, Zenon DEF StatsInv, ReplySoFar
<1>4. CASE /\ unread = <<"processed", "exported", "queue_size", "queue_dropped">>
           /\ reply.received = received
  <2>1. h = "processed" /\ unread' = <<"exported", "queue_size", "queue_dropped">>
    BY <1>0, <1>4 DEF h
  <2>2. reply' = [reply EXCEPT !.processed = processed]
    BY <1>h, <1>c, <2>1
  <2> QED
    BY <1>0, <1>1, <1>2, <1>4, <2>1, <2>2 DEF StatsInv, ReplySoFar
<1>5. CASE /\ unread = <<"exported", "queue_size", "queue_dropped">>
           /\ reply.received = received /\ reply.processed <= processed
  <2>1. h = "exported" /\ unread' = <<"queue_size", "queue_dropped">>
    BY <1>0, <1>5 DEF h
  <2>2. reply' = [reply EXCEPT !.exported = exported]
    BY <1>h, <1>c, <2>1
  <2> QED
    BY <1>0, <1>1, <1>2, <1>5, <2>1, <2>2 DEF StatsInv, ReplySoFar
<1>6. CASE /\ unread = <<"queue_size", "queue_dropped">>
           /\ reply.received = received
           /\ reply.processed <= processed /\ reply.exported <= exported
  <2>1. h = "queue_size" /\ unread' = <<"queue_dropped">>
    BY <1>0, <1>6 DEF h
  <2>2. reply' = [reply EXCEPT !.queue_size = Len(queue)]
    BY <1>h, <1>c, <2>1
  <2>3. reply.processed \in Nat /\ reply.exported \in Nat
    BY <1>2
  <2>4. /\ reply.processed + Len(queue) + dropped <= received
        /\ reply.exported + Len(queue) + dropped <= received
    <3>1. exported <= processed /\ processed + Len(queue) + dropped <= received
      BY <1>1 DEF Accounts
    <3>2. \A a \in Nat : a <= processed => a + Len(queue) + dropped <= received
      BY <1>1, <3>1
    <3>3. reply.processed <= processed /\ reply.exported <= processed
      BY <1>1, <1>6, <2>3, <3>1
    <3> QED
      BY <2>3, <3>2, <3>3
  <2>5. Below(reply.processed)' /\ Below(reply.exported)'
    BY <1>0, <1>2, <2>2, <2>4 DEF Below
  <2> QED
    BY <1>0, <1>1, <1>2, <1>6, <2>1, <2>2, <2>5, Zenon DEF StatsInv, ReplySoFar
<1>7. CASE /\ unread = <<"queue_dropped">>
           /\ reply.received = received
           /\ Below(reply.processed) /\ Below(reply.exported)
  <2>1. h = "queue_dropped" /\ unread' = <<>>
    BY <1>0, <1>7 DEF h
  <2>2. reply' = [reply EXCEPT !.queue_dropped = dropped]
    BY <1>h, <1>c, <2>1
  <2>3. Below(reply.processed)' /\ Below(reply.exported)'
    BY <1>0, <1>2, <1>7, <2>2 DEF Below
  <2> QED
    BY <1>0, <1>1, <1>2, <1>7, <2>1, <2>2, <2>3, Zenon DEF StatsInv, ReplySoFar
<1> QED
  BY <1>0, <1>3, <1>4, <1>5, <1>6, <1>7, Zenon DEF ReplySoFar

(* A worker's step between two reads. *)
LEMMA GrowsStep == ASSUME Typed, Typed', StatsInv, Grows PROVE StatsInv'
<1>1. /\ processed \in Nat /\ processed' \in Nat /\ exported \in Nat /\ exported' \in Nat
      /\ processed' >= processed /\ exported' >= exported
      /\ UNCHANGED <<reply, unread, received, dropped>>
  BY DEF Typed, Grows
<1>2. ReplySoFar /\ reply.processed \in Nat /\ reply.exported \in Nat
  BY DEF Grows, StatsInv
<1>3. ReplySoFar'
  BY <1>1, <1>2 DEF ReplySoFar, Below, StatsOrder
<1> QED
  BY <1>1, <1>3 DEF StatsInv

(* The reply only ever takes values of counters. *)
LEMMA ReplyKinds ==
    ASSUME [Next]_daemonVars PROVE StatsRead \/ reply' = NoReply \/ reply' = reply
<1>1. CASE UNCHANGED daemonVars
  BY <1>1 DEF daemonVars, replyVars
<1>2. CASE Main
  BY <1>2, Zenon DEF Main, Setup, OpenDevice, CreateSignalFd, Register, RunOnce, RunOnceReturns,
              ReadSource, PushSample, PushDone, HandleSignal, HandleOther, SpawnWorker,
              StatsBegin, StatsAnswer, CloseQueue, JoinAndReturn, Proceeds, replyVars
<1>3. CASE Throw \/ SourceProduces \/ SignalProcess \/ SignalMainThread
  BY <1>3, Zenon DEF Throw, SourceProduces, SignalProcess, SignalMainThread, Pends, Dies, replyVars
<1>4. ASSUME NEW w \in Workers, Worker(w) \/ WorkerThrows(w) \/ WorkerSpuriousWakeup(w)
      PROVE  reply' = NoReply \/ reply' = reply
  BY <1>4, Zenon DEF Worker, WorkerPop, WorkerWrite, WorkerExport, WorkerExported,
              WorkerThrows, WorkerSpuriousWakeup, Dies, replyVars
<1> QED
  BY <1>1, <1>2, <1>3, <1>4 DEF Next

(* Every step keeps what the reply says so far. *)
LEMMA StatsInvStep ==
    ASSUME DaemonInv, DaemonInv', StatsInv, [Next]_daemonVars PROVE StatsInv'
<1>0. Typed /\ Accounts /\ Typed'
  BY DEF DaemonInv
<1>1. CASE StatsRead
  BY <1>0, <1>1, StatsReadStep
<1>2. CASE ~StatsRead
  <2>1. reply' \in [received : Nat, processed : Nat, exported : Nat,
                    queue_size : Nat, queue_dropped : Nat]
    BY <1>2, ReplyKinds DEF NoReply, StatsInv
  <2>2. CASE main' # "stats"
    BY <2>1, <2>2 DEF StatsInv
  <2>3. CASE StatsBegin
    BY <2>1, <2>3, Zenon DEF StatsBegin, StatsInv, ReplySoFar, StatsOrder
  <2>4. CASE Grows
    BY <1>0, <2>4, GrowsStep
  <2> QED
    BY <1>0, <1>2, <2>2, <2>3, <2>4, StatsKinds
<1> QED
  BY <1>1, <1>2

(***************************************************************************)
(* A stats reply, read field by field while the workers go on, never shows *)
(* more samples processed (or exported), queued and dropped than received. *)
(***************************************************************************)
THEOREM StatsReplyConsistent == Spec => []StatsNeverOvercount
<1>1. Init => StatsInv
  BY DEF Init, NoReply, StatsInv
<1>2. DaemonInv /\ DaemonInv' /\ StatsInv /\ [Next]_daemonVars => StatsInv'
  BY StatsInvStep
<1>3. ASSUME StatsInv PROVE StatsNeverOvercount
  <2>1. ASSUME main = "stats", unread = <<>>
        PROVE  /\ reply.received = received /\ reply.queue_dropped = dropped
               /\ Below(reply.processed) /\ Below(reply.exported)
    BY <1>3, <2>1 DEF StatsInv, ReplySoFar, StatsOrder
  <2> QED
    BY <2>1 DEF StatsNeverOvercount, Below
<1>4. StatsInv => StatsNeverOvercount
  BY <1>3
<1> QED
  BY <1>1, <1>2, <1>4, DaemonInvariant, PTL DEF Spec

-----------------------------------------------------------------------------
Fields == {"received", "processed", "exported", "queue_size", "queue_dropped"}
Places == {"config", "spawn", "device", "signals", "register", "loop",
           "dispatch", "push", "stats", "join"} \union Ended

(* What TypeOK says beyond Typed, of the queue, the loop and the reply. *)
QueueType == closed \in BOOLEAN /\ Len(queue) <= Capacity
LoopType ==
    /\ running \in BOOLEAN /\ masked \in BOOLEAN /\ pending \in BOOLEAN
    /\ events \subseteq {"source", "socket", "signal"}
    /\ available \in Nat /\ batch \in Nat
    /\ main \in Places
ReplyType == reply \in [Fields -> Nat] /\ unread \in Seq(Fields)
Kinds == QueueType /\ LoopType /\ ReplyType /\ logged \subseteq Nat

(* The fields of the reply, once and for all. *)
LEMMA FieldsOfReply ==
    /\ DOMAIN NoReply = Fields /\ NoReply \in [Fields -> Nat]
    /\ StatsOrder \in Seq(Fields)
    /\ Typed => Counters \in [Fields -> Nat]
<1>1. DOMAIN NoReply = Fields /\ NoReply \in [Fields -> Nat]
  BY DEF NoReply, Fields
<1>2. StatsOrder \in Seq(Fields)
  BY DEF StatsOrder, Fields
<1>3. ASSUME Typed PROVE Counters \in [Fields -> Nat]
  <2>1. Len(queue) \in Nat
    BY <1>3, LenProperties DEF Typed
  <2> QED
    BY <1>3, <2>1 DEF Typed, Counters, Fields
<1> QED
  BY <1>1, <1>2, <1>3

(* TypeOK in these parts. *)
LEMMA TypeParts == Typed /\ Kinds => TypeOK
BY FieldsOfReply, Zenon
DEF TypeOK, Q!TypeOK, Typed, Kinds, QueueType, LoopType, ReplyType, Places

(* Only push lengthens the queue, and it refuses when there is no room. *)
LEMMA QueueTypeStep == ASSUME Typed, QueueType, [Next]_daemonVars PROVE QueueType'
<1>0. Capacity \in Nat /\ Len(queue) \in Nat
  BY DaemonAssumption, LenProperties DEF Typed
<1>1. CASE UNCHANGED <<queue, closed>>
  BY <1>1 DEF QueueType
<1>2. CASE PushSample
  <2>1. CASE queue' = queue
    BY <1>2, <2>1, PushEffect DEF PushSample, QueueType
  <2>2. CASE queue' # queue
    <3>1. /\ Len(queue) < Capacity /\ queue' = Append(queue, received + 1)
          /\ closed' = closed
      BY <1>0, <1>2, <2>2 DEF PushSample, Q!Push, Q!Refuses
    <3>2. Len(queue') = Len(queue) + 1
      BY <3>1, AppendProperties DEF Typed
    <3> QED
      BY <1>0, <3>1, <3>2 DEF QueueType
  <2> QED
    BY <2>1, <2>2
<1>3. CASE CloseQueue
  BY <1>3 DEF CloseQueue, Q!Close, QueueType
<1>4. ASSUME NEW how, Dies(how) PROVE QueueType'
  <2>1. queue' = <<>> /\ closed' = FALSE
    BY <1>4 DEF Dies
  <2>2. Len(queue') = 0
    BY <2>1, EmptySeq
  <2>3. Len(queue') <= Capacity
    BY <1>0, <2>2
  <2>4. closed' \in BOOLEAN
    BY <2>1, Zenon
  <2> QED
    BY <2>3, <2>4 DEF QueueType
<1>5. ASSUME NEW w \in Workers, WorkerPop(w) PROVE QueueType'
  <2>1. CASE Q!PopTake(w)
    BY <1>0, <2>1, TakeEffect DEF QueueType
  <2>2. CASE Q!PopWait(w) \/ Q!PopEnd(w)
    BY <1>1, <2>2 DEF Q!PopWait, Q!PopEnd
  <2> QED
    BY <1>5, <2>1, <2>2 DEF WorkerPop
<1>6. ASSUME NEW w \in Workers,
             SpawnWorker(w) \/ WorkerWrite(w) \/ WorkerExport(w) \/ WorkerExported(w)
                \/ WorkerSpuriousWakeup(w)
      PROVE  UNCHANGED <<queue, closed>>
  BY <1>6, Zenon DEF SpawnWorker, WorkerWrite, WorkerExport, WorkerExported,
              WorkerSpuriousWakeup, Q!SpuriousWakeup, queueVars
<1>7. CASE Idles \/ JoinAndReturn \/ UNCHANGED daemonVars
  BY <1>1, <1>7 DEF Idles, JoinAndReturn, Proceeds, daemonVars, queueVars
<1> QED
  BY <1>1, <1>2, <1>3, <1>4, <1>5, <1>6, <1>7, NextKinds DEF Steps

(* Steps that leave the event loop alone, but for the place of main. *)
Quiet == UNCHANGED <<loopVars, signalVars>> /\ main' \in Places

(* The loop, the signals and the place of the main thread. *)
LEMMA LoopTypeStep == ASSUME LoopType, [Next]_daemonVars PROVE LoopType'
<1>1. CASE Quiet
  BY <1>1 DEF Quiet, loopVars, signalVars, LoopType
<1>2. CASE Setup \/ OpenDevice \/ Register \/ RunOnceReturns \/ PushDone \/ JoinAndReturn
  <2>1. Quiet
    BY <1>2 DEF Setup, OpenDevice, Register, RunOnceReturns, PushDone, JoinAndReturn,
                Proceeds, Quiet, Places, Ended
  <2> QED
    BY <1>1, <2>1
<1>3. CASE StatsRead \/ StatsAnswer \/ CloseQueue \/ UNCHANGED daemonVars
  <2>1. Quiet
    BY <1>3 DEF StatsRead, StatsAnswer, CloseQueue, daemonVars, Quiet, Places, LoopType
  <2> QED
    BY <1>1, <2>1
<1>4. CASE CreateSignalFd
  BY <1>4 DEF CreateSignalFd, Proceeds, loopVars, LoopType, Places
<1>5. CASE RunOnce
  <2>1. /\ UNCHANGED <<running, available, batch, masked, pending>>
        /\ main' \in Places
    BY <1>5 DEF RunOnce, signalVars, Places
  <2>2. events' \subseteq {"source", "socket", "signal"}
    BY <1>5 DEF RunOnce
  <2> QED
    BY <2>1, <2>2 DEF LoopType
<1>6. CASE ReadSource
  BY <1>6 DEF ReadSource, Handles, signalVars, LoopType, Places
<1>7. CASE PushSample
  <2>1. /\ UNCHANGED <<running, events, available, masked, pending, main>>
        /\ batch' = batch - 1 /\ batch > 0
    BY <1>7 DEF PushSample, signalVars
  <2> QED
    BY <2>1 DEF LoopType
<1>8. CASE SourceProduces
  <2>1. /\ UNCHANGED <<running, events, batch, masked, pending, main>>
        /\ available' = available + 1
    BY <1>8 DEF SourceProduces, signalVars
  <2> QED
    BY <2>1 DEF LoopType
<1>9. CASE HandleSignal \/ HandleOther \/ StatsBegin
  BY <1>9, Zenon DEF HandleSignal, HandleOther, StatsBegin, Handles, signalVars, LoopType, Places
<1>10. CASE Pends
  BY <1>10 DEF Pends, loopVars, LoopType
<1>11. ASSUME NEW how \in Ended, Dies(how) PROVE LoopType'
  BY <1>11, Zenon DEF Dies, LoopType, Places
<1>12. CASE Throw \/ SignalProcess \/ SignalMainThread
  BY <1>10, <1>11, <1>12 DEF Throw, SignalProcess, SignalMainThread, Ended
<1>13. ASSUME NEW w \in Workers,
              SpawnWorker(w) \/ Worker(w) \/ WorkerSpuriousWakeup(w)
       PROVE  Quiet
  BY <1>13, Zenon DEF SpawnWorker, Worker, WorkerPop, WorkerWrite, WorkerExport,
               WorkerExported, WorkerSpuriousWakeup, Quiet, LoopType, Places
<1>14. ASSUME NEW w \in Workers, WorkerThrows(w) PROVE LoopType'
  BY <1>11, <1>14 DEF WorkerThrows, Ended
<1> QED
  BY <1>1, <1>2, <1>3, <1>4, <1>5, <1>6, <1>7, <1>8, <1>9, <1>12, <1>13, <1>14
  DEF Next, Main

(* The fields left to read. *)
LEMMA UnreadKinds ==
    ASSUME [Next]_daemonVars
    PROVE  StatsRead \/ unread' = StatsOrder \/ unread' = <<>> \/ unread' = unread
<1>1. CASE UNCHANGED daemonVars
  BY <1>1 DEF daemonVars, replyVars
<1>2. CASE Main
  BY <1>2, Zenon DEF Main, Setup, OpenDevice, CreateSignalFd, Register, RunOnce, RunOnceReturns,
              ReadSource, PushSample, PushDone, HandleSignal, HandleOther, SpawnWorker,
              StatsBegin, StatsAnswer, CloseQueue, JoinAndReturn, Proceeds, replyVars
<1>3. CASE Throw \/ SourceProduces \/ SignalProcess \/ SignalMainThread
  BY <1>3, Zenon DEF Throw, SourceProduces, SignalProcess, SignalMainThread, Pends, Dies, replyVars
<1>4. ASSUME NEW w \in Workers, Worker(w) \/ WorkerThrows(w) \/ WorkerSpuriousWakeup(w)
      PROVE  unread' = <<>> \/ unread' = unread
  BY <1>4, Zenon DEF Worker, WorkerPop, WorkerWrite, WorkerExport, WorkerExported,
              WorkerThrows, WorkerSpuriousWakeup, Dies, replyVars
<1> QED
  BY <1>1, <1>2, <1>3, <1>4 DEF Next

(* The stats reply. *)
LEMMA ReplyTypeStep ==
    ASSUME Typed, ReplyType, [Next]_daemonVars PROVE ReplyType'
<1>1. CASE StatsRead
  <2>1. PICK field \in Fields : field = Head(unread)
    BY <1>1, HeadTailProperties DEF StatsRead, ReplyType
  <2>2. unread' \in Seq(Fields)
    BY <1>1, HeadTailProperties DEF StatsRead, ReplyType
  <2>3. reply' = [reply EXCEPT ![field] = Counters[field]] /\ Counters[field] \in Nat
    BY <1>1, <2>1, FieldsOfReply DEF StatsRead
  <2> QED
    BY <2>2, <2>3 DEF ReplyType
<1>2. CASE ~StatsRead
  <2>1. reply' \in [Fields -> Nat]
    BY <1>2, ReplyKinds, FieldsOfReply DEF ReplyType
  <2>2. unread' \in Seq(Fields)
    BY <1>2, UnreadKinds, FieldsOfReply, EmptySeq, Zenon DEF ReplyType
  <2> QED
    BY <2>1, <2>2 DEF ReplyType
<1> QED
  BY <1>1, <1>2

(* Only samples are logged. *)
LEMMA LoggedStep ==
    ASSUME Typed, logged \subseteq Nat, [Next]_daemonVars PROVE logged' \subseteq Nat
<1>1. CASE UNCHANGED logged
  BY <1>1
<1>2. ASSUME NEW w \in Workers, WorkerWrite(w) PROVE logged' \subseteq Nat
  BY <1>2, Zenon DEF WorkerWrite, Typed
<1>3. ASSUME NEW w \in Workers,
             SpawnWorker(w) \/ WorkerPop(w) \/ WorkerExport(w) \/ WorkerExported(w)
                \/ WorkerSpuriousWakeup(w)
      PROVE  UNCHANGED logged
  BY <1>3, Zenon DEF SpawnWorker, WorkerPop, WorkerExport, WorkerExported,
              WorkerSpuriousWakeup, workVars
<1>4. CASE Idles \/ JoinAndReturn \/ PushSample \/ CloseQueue \/ UNCHANGED daemonVars
  BY <1>1, <1>4, Zenon DEF Idles, JoinAndReturn, PushSample, CloseQueue, Proceeds, workVars,
                    daemonVars
<1>5. ASSUME NEW how, Dies(how) PROVE UNCHANGED logged
  BY <1>5 DEF Dies
<1> QED
  BY <1>1, <1>2, <1>3, <1>4, <1>5, NextKinds DEF Steps

(***************************************************************************)
(* For every capacity, and any number of workers and samples, the state of *)
(* the daemon has its type: the queue never exceeds queue_capacity, main   *)
(* is always somewhere in its program, and the counters are numbers.       *)
(***************************************************************************)
THEOREM DaemonTypeCorrect == Spec => []TypeOK
<1>1. Init => Kinds
  <2> SUFFICES ASSUME Init PROVE Kinds
    OBVIOUS
  <2>1. QueueType
    <3>1. queue = <<>> /\ closed = FALSE
      BY DEF Init, Q!Init
    <3>2. Len(queue) = 0
      BY <3>1, EmptySeq
    <3>3. Len(queue) <= Capacity
      BY <3>2, DaemonAssumption
    <3>4. closed \in BOOLEAN
      BY <3>1, Zenon
    <3> QED
      BY <3>3, <3>4 DEF QueueType
  <2>2. LoopType
    BY Zenon DEF Init, LoopType, Places
  <2>3. ReplyType
    BY FieldsOfReply, EmptySeq DEF Init, ReplyType
  <2> QED
    BY <2>1, <2>2, <2>3 DEF Init, Kinds
<1>2. DaemonInv /\ Kinds /\ [Next]_daemonVars => Kinds'
  BY QueueTypeStep, LoopTypeStep, ReplyTypeStep, LoggedStep DEF DaemonInv, Kinds
<1>3. DaemonInv /\ Kinds => TypeOK
  BY TypeParts DEF DaemonInv
<1> QED
  BY <1>1, <1>2, <1>3, DaemonInvariant, PTL DEF Spec
-----------------------------------------------------------------------------
(***************************************************************************)
(* Weak fairness of worker w, written without ENABLED: its loop can always *)
(* step but for a worker that sleeps in pop(), has ended or is not born.   *)
(***************************************************************************)
Coming(w) == pop[w] \in {"idle", "woken"}
CanWork(w) ==
    Alive /\ \/ stage[w] \in {"write", "export", "exported"}
             \/ stage[w] = "pop" /\ Coming(w)
FairWorker(w) == []<>~CanWork(w) \/ []<><<Worker(w)>>_daemonVars
FairWorkers == \A w \in Workers : FairWorker(w)

(* Samples are queued, and the queue closed, only with all workers there. *)
SpawnsFirst ==
    /\ main \in {"config", "spawn"} \union Dead => queue = <<>> /\ ~closed
    /\ main \notin {"config", "spawn"} \union Dead
           => \A w \in Workers : stage[w] # "unborn"

(* Worker w is at a place of its loop. *)
IsStage(w, place) == stage[w] = place

(* What a step that does not end the process does to a worker's place. *)
LEMMA StageStep ==
    ASSUME Typed, [Next]_daemonVars, main' \notin Dead, NEW w \in Workers
    PROVE  \/ UNCHANGED <<stage[w], item[w]>>
           \/ stage[w] = "unborn" /\ stage'[w] = "pop"
           \/ Worker(w)
<1>1. ASSUME NEW v \in Workers, v # w, NEW to, stage' = [stage EXCEPT ![v] = to]
      PROVE  stage'[w] = stage[w]
  BY <1>1 DEF Typed
<1>2. CASE UNCHANGED daemonVars \/ Idles \/ JoinAndReturn
  BY <1>2, Zenon DEF daemonVars, queueVars, workVars, Idles, JoinAndReturn, Proceeds
<1>3. CASE PushSample \/ CloseQueue
  BY <1>3 DEF PushSample, CloseQueue, Q!Push, Q!Close, workVars
<1>4. ASSUME NEW v \in Workers, v # w, WorkerPop(v)
      PROVE  UNCHANGED <<stage[w], item[w]>>
  <2>1. item' = item \/ item' = [item EXCEPT ![v] = Head(queue)]
    BY <1>4 DEF WorkerPop, Q!PopWait, Q!PopEnd, Q!PopTake
  <2>2. stage' = stage \/ stage' = [stage EXCEPT ![v] = "write"]
    BY <1>4 DEF WorkerPop
  <2> QED
    BY <1>4, <2>1, <2>2 DEF Typed
<1>5. ASSUME NEW v \in Workers, v # w,
             WorkerWrite(v) \/ WorkerExport(v) \/ WorkerExported(v)
      PROVE  UNCHANGED <<stage[w], item[w]>>
  BY <1>1, <1>5, Zenon DEF WorkerWrite, WorkerExport, WorkerExported, queueVars
<1>6. ASSUME NEW v \in Workers, SpawnWorker(v)
      PROVE  \/ UNCHANGED <<stage[w], item[w]>>
             \/ stage[w] = "unborn" /\ stage'[w] = "pop"
  <2>1. item' = item /\ stage' = [stage EXCEPT ![v] = "pop"] /\ stage[v] = "unborn"
    BY <1>6, Zenon DEF SpawnWorker, Born, queueVars
  <2> QED
    BY <2>1 DEF Typed
<1>7. ASSUME NEW v \in Workers, WorkerSpuriousWakeup(v)
      PROVE  UNCHANGED <<stage[w], item[w]>>
  BY <1>7 DEF WorkerSpuriousWakeup, Q!SpuriousWakeup, workVars
<1>8. ASSUME NEW how \in Dead, Dies(how) PROVE FALSE
  BY <1>8 DEF Dies
<1>9. CASE \E v \in Workers : \/ WorkerPop(v) \/ WorkerWrite(v) \/ WorkerExport(v)
                              \/ WorkerExported(v)
  BY <1>4, <1>5, <1>9, Zenon DEF Worker
<1> QED
  BY <1>2, <1>3, <1>6, <1>7, <1>8, <1>9, NextKinds, Zenon DEF Steps

(* The queue is used only after the last worker was spawned. *)
LEMMA SpawnsFirstStep ==
    ASSUME Typed, SpawnsFirst, [Next]_daemonVars PROVE SpawnsFirst'
<1> DEFINE Early == {"config", "spawn"}
<1>1. CASE main' \in Dead
  <2>1. CASE \E how \in Dead : Dies(how)
    BY <2>1 DEF Dies, SpawnsFirst, Dead
  <2>2. CASE UNCHANGED daemonVars
    BY <2>2, <1>1 DEF daemonVars, queueVars, SpawnsFirst
  <2>3. CASE Alive /\ Steps
    BY <1>1, <2>1, <2>3, EndsWellStep DEF EndsWell, SpawnsFirst, Dead
  <2> QED
    BY <2>2, <2>3, NextKinds
<1>2. CASE main' \notin Dead
  <2>1. ASSUME NEW w \in Workers, stage[w] # "unborn" PROVE stage'[w] # "unborn"
    <3>1. CASE Worker(w)
      BY <3>1 DEF Worker, WorkerPop, WorkerWrite, WorkerExport, WorkerExported, Typed
    <3> QED
      BY <1>2, <2>1, <3>1, StageStep
  <2>2. CASE \E w \in Workers : SpawnWorker(w)
    <3>1. PICK w \in Workers : SpawnWorker(w)
      BY <2>2
    <3>2. /\ main = "spawn" /\ UNCHANGED <<queue, closed>>
          /\ stage' = [stage EXCEPT ![w] = "pop"]
          /\ main' = IF Born \union {w} = Workers THEN "device" ELSE "spawn"
      BY <3>1, Zenon DEF SpawnWorker, queueVars
    <3>3. Born \union {w} = Workers => \A v \in Workers : stage'[v] # "unborn"
      BY <3>2 DEF Born, Typed
    <3> QED
      BY <3>2, <3>3 DEF SpawnsFirst, Dead
  <2>3. ASSUME ~\E w \in Workers : SpawnWorker(w)
        PROVE  \/ main' = main
               \/ main \in Early /\ main' \in Early
               \/ main \notin Early /\ main' \notin Early
    BY <1>2, <2>3, Zenon
    DEF Next, Main, Setup, OpenDevice, CreateSignalFd, Register, Proceeds, RunOnce,
        RunOnceReturns, ReadSource, PushSample, PushDone, HandleSignal, HandleOther,
        StatsBegin, StatsRead, StatsAnswer, CloseQueue, JoinAndReturn, Handles, Throw,
        SourceProduces, Worker, WorkerPop, WorkerWrite, WorkerExport, WorkerExported,
        WorkerThrows, WorkerSpuriousWakeup, SignalProcess, SignalMainThread, Pends,
        Dies, daemonVars, Dead
  <2>4. main \notin Dead
    BY <1>2, NextKinds DEF daemonVars, Alive, Ended, Dead
  <2>5. ASSUME main \in Early PROVE queue' = <<>> /\ ~closed'
    <3>1. queue = <<>> /\ ~closed
      BY <2>5 DEF SpawnsFirst
    <3>2. CASE UNCHANGED <<queue, closed>>
      BY <3>1, <3>2
    <3>3. ~PushSample /\ ~CloseQueue
      BY <2>5 DEF PushSample, CloseQueue
    <3>4. ASSUME NEW w \in Workers,
                 \/ SpawnWorker(w) \/ WorkerPop(w) \/ WorkerWrite(w)
                 \/ WorkerExport(w) \/ WorkerExported(w) \/ WorkerSpuriousWakeup(w)
          PROVE  UNCHANGED <<queue, closed>>
      BY <3>1, <3>4, Zenon
      DEF SpawnWorker, WorkerPop, Q!PopWait, Q!PopEnd, Q!PopTake, WorkerWrite,
          WorkerExport, WorkerExported, WorkerSpuriousWakeup, Q!SpuriousWakeup, queueVars
    <3>5. CASE UNCHANGED daemonVars \/ Idles \/ JoinAndReturn
      BY <3>2, <3>5, Zenon
      DEF daemonVars, Idles, JoinAndReturn, Proceeds, queueVars
    <3>6. ASSUME NEW how \in Dead, Dies(how) PROVE FALSE
      BY <1>2, <3>6 DEF Dies
    <3> QED
      BY <3>2, <3>3, <3>4, <3>5, <3>6, NextKinds, Zenon DEF Steps
  <2> QED
    BY <1>2, <2>1, <2>2, <2>3, <2>4, <2>5 DEF SpawnsFirst
<1> QED
  BY <1>1, <1>2

(* What this section takes from the queue: no wake-up is lost. *)
Wakeful ==
    /\ queue # <<>> => \E w \in Workers : Coming(w)
    /\ closed => \A w \in Workers : pop[w] # "waiting"

(* The invariants this section rests on, together; they are proved below. *)
WorkInv == DaemonInv /\ SpawnsFirst /\ Wakeful
Working == []WorkInv /\ [][Next]_daemonVars

(* A worker's own step, at each place of its loop but pop(). *)
LEMMA WorkerMoves ==
    ASSUME Typed, NEW w \in Workers, Worker(w)
    PROVE  /\ IsStage(w, "write") => IsStage(w, "export")' /\ item[w] \in logged'
           /\ IsStage(w, "export") => IsStage(w, "exported")'
           /\ IsStage(w, "exported") => IsStage(w, "pop")'
           /\ IsStage(w, "pop") => WorkerPop(w)
BY DEF Worker, WorkerPop, WorkerWrite, WorkerExport, WorkerExported, IsStage, Typed

(* Worker w has a sample. *)
Busy(w) == stage[w] \in {"write", "export", "exported"}

(* A worker always comes back to pop(), unless the process ends. *)
LEMMA WorkerReturns ==
    ASSUME NEW w \in Workers
    PROVE  Working /\ FairWorker(w) /\ []Alive
               => (Busy(w) => <>IsStage(w, "pop"))
<1> DEFINE Step == WorkInv /\ Alive /\ Alive' /\ [Next]_daemonVars
<1>1. Step /\ IsStage(w, "write") => IsStage(w, "write")' \/ IsStage(w, "export")'
  BY StageStep, WorkerMoves DEF WorkInv, DaemonInv, IsStage, Alive, Ended, Dead
<1>2. Step /\ IsStage(w, "export") => IsStage(w, "export")' \/ IsStage(w, "exported")'
  BY StageStep, WorkerMoves DEF WorkInv, DaemonInv, IsStage, Alive, Ended, Dead
<1>3. Step /\ IsStage(w, "exported") => IsStage(w, "exported")' \/ IsStage(w, "pop")'
  BY StageStep, WorkerMoves DEF WorkInv, DaemonInv, IsStage, Alive, Ended, Dead
<1>4. Step /\ <<Worker(w)>>_daemonVars
          => /\ IsStage(w, "write") => IsStage(w, "export")'
             /\ IsStage(w, "export") => IsStage(w, "exported")'
             /\ IsStage(w, "exported") => IsStage(w, "pop")'
  BY WorkerMoves DEF WorkInv, DaemonInv
<1>5. Busy(w) => IsStage(w, "write") \/ IsStage(w, "export") \/ IsStage(w, "exported")
  BY DEF Busy, IsStage
<1>6. /\ Alive /\ IsStage(w, "write") => CanWork(w)
      /\ Alive /\ IsStage(w, "export") => CanWork(w)
      /\ Alive /\ IsStage(w, "exported") => CanWork(w)
  BY DEF CanWork, IsStage
<1> QED
  BY <1>1, <1>2, <1>3, <1>4, <1>5, <1>6, PTL DEF FairWorker, Working

-----------------------------------------------------------------------------
(* n is the oldest sample in the queue; worker w is about to log it. *)
Oldest(n) == Alive /\ queue # <<>> /\ Head(queue) = n
Holds(w, n) == Alive /\ stage[w] = "write" /\ item[w] = n
SomebodyHolds(n) == \E w \in Workers : Holds(w, n)

(* What a worker holds it logs. *)
Settled(n) == n \in logged \/ ~Alive
Logs(w, n) == [](Holds(w, n) => <>Settled(n))

(* A fair worker does: write_sample is the first thing it does. *)
LEMMA HeldIsLogged ==
    ASSUME NEW w \in Workers, NEW n
    PROVE  Working /\ FairWorker(w) => Logs(w, n)
<1>1. WorkInv /\ Holds(w, n) /\ [Next]_daemonVars
          => Holds(w, n)' \/ Settled(n)'
  BY StageStep, WorkerMoves
  DEF WorkInv, DaemonInv, Holds, IsStage, Settled, Alive, Ended, Dead
<1>2. WorkInv /\ Holds(w, n) /\ <<Worker(w)>>_daemonVars => Settled(n)'
  BY WorkerMoves DEF WorkInv, DaemonInv, Holds, IsStage, Settled
<1>3. Holds(w, n) => CanWork(w)
  BY DEF Holds, CanWork
<1> QED
  BY <1>1, <1>2, <1>3, PTL DEF Working, FairWorker, Logs

(* The oldest sample stays the oldest until a worker takes it. *)
LEMMA OldestStays ==
    ASSUME NEW n
    PROVE  WorkInv /\ Oldest(n) /\ [Next]_daemonVars
               => Oldest(n)' \/ SomebodyHolds(n)' \/ ~Alive'
<1> SUFFICES ASSUME WorkInv, Oldest(n), [Next]_daemonVars, Alive'
             PROVE  Oldest(n)' \/ SomebodyHolds(n)'
  OBVIOUS
<1>0. Typed
  BY DEF WorkInv, DaemonInv
<1>1. CASE UNCHANGED queue
  BY <1>1 DEF Oldest
<1>2. CASE PushSample
  <2>1. Q!Push
    BY <1>2 DEF PushSample
  <2>2. queue' = queue \/ queue' = Append(queue, received + 1)
    BY <1>0, <2>1, PushEffect
  <2>3. queue \in Seq(Nat) /\ queue # <<>> /\ received + 1 \in Nat
    BY <1>0 DEF Typed, Oldest
  <2>4. CASE queue' = Append(queue, received + 1)
    BY <2>3, <2>4 DEF Oldest
  <2> QED
    BY <1>1, <2>2, <2>4
<1>3. ASSUME NEW w \in Workers, WorkerPop(w) PROVE Oldest(n)' \/ SomebodyHolds(n)'
  <2>1. CASE UNCHANGED queue
    BY <1>1, <2>1
  <2>2. CASE Q!PopTake(w) /\ stage' = [stage EXCEPT ![w] = "write"]
    BY <1>0, <2>2 DEF Q!PopTake, Typed, Oldest, SomebodyHolds, Holds
  <2> QED
    BY <1>3, <2>1, <2>2, Zenon DEF WorkerPop, Q!PopWait, Q!PopEnd
<1>4. ASSUME NEW how \in Dead, Dies(how) PROVE FALSE
  BY <1>4 DEF Dies, Alive, Ended, Dead
<1>5. CASE UNCHANGED daemonVars \/ Idles \/ JoinAndReturn \/ CloseQueue
  BY <1>1, <1>5, Zenon DEF daemonVars, Idles, JoinAndReturn, Proceeds, queueVars,
                           CloseQueue, Q!Close
<1>6. ASSUME NEW w \in Workers,
             \/ SpawnWorker(w) \/ WorkerWrite(w) \/ WorkerExport(w)
             \/ WorkerExported(w) \/ WorkerSpuriousWakeup(w)
      PROVE  UNCHANGED queue
  BY <1>6, Zenon DEF SpawnWorker, WorkerWrite, WorkerExport, WorkerExported,
                     WorkerSpuriousWakeup, Q!SpuriousWakeup, queueVars
<1> QED
  BY <1>1, <1>2, <1>3, <1>4, <1>5, <1>6, NextKinds, Zenon DEF Steps

(* While n is the oldest, whoever comes for a sample keeps coming. *)
LEMMA ComingStays ==
    ASSUME NEW n, NEW w \in Workers
    PROVE  WorkInv /\ Oldest(n) /\ Coming(w) /\ [Next]_daemonVars /\ Alive'
               => Coming(w)'
<1> SUFFICES ASSUME WorkInv, Oldest(n), Coming(w), [Next]_daemonVars, Alive'
             PROVE  Coming(w)'
  OBVIOUS
<1>0. pop \in [Workers -> {"idle", "waiting", "woken", "ended"}] /\ queue # <<>>
  BY DEF WorkInv, DaemonInv, Typed, Oldest
<1>1. CASE UNCHANGED pop
  BY <1>1 DEF Coming
<1>2. CASE PushSample
  BY <1>0, <1>2 DEF PushSample, Q!Push, Q!NotifyOne, Q!Waiting, Coming
<1>3. CASE CloseQueue
  BY <1>0, <1>3 DEF CloseQueue, Q!Close, Q!NotifyAll, Coming
<1>4. ASSUME NEW v \in Workers, WorkerPop(v) PROVE Coming(w)'
  <2>1. Q!PopTake(v)
    BY <1>0, <1>4, Zenon DEF WorkerPop, Q!PopWait, Q!PopEnd
  <2> QED
    BY <1>0, <2>1 DEF Q!PopTake, Coming
<1>5. ASSUME NEW v \in Workers, WorkerSpuriousWakeup(v) PROVE Coming(w)'
  BY <1>0, <1>5 DEF WorkerSpuriousWakeup, Q!SpuriousWakeup, Coming
<1>6. ASSUME NEW how \in Dead, Dies(how) PROVE FALSE
  BY <1>6 DEF Dies, Alive, Ended, Dead
<1>7. CASE UNCHANGED daemonVars \/ Idles \/ JoinAndReturn
  BY <1>1, <1>7, Zenon DEF daemonVars, Idles, JoinAndReturn, Proceeds, queueVars
<1>8. ASSUME NEW v \in Workers,
             SpawnWorker(v) \/ WorkerWrite(v) \/ WorkerExport(v) \/ WorkerExported(v)
      PROVE  UNCHANGED pop
  BY <1>8, Zenon DEF SpawnWorker, WorkerWrite, WorkerExport, WorkerExported, queueVars
<1> QED
  BY <1>1, <1>2, <1>3, <1>4, <1>5, <1>6, <1>7, <1>8, NextKinds, Zenon DEF Steps

(* Who comes to pop() while n is the oldest takes it. *)
LEMMA ComerTakes ==
    ASSUME NEW n, NEW w \in Workers
    PROVE  WorkInv /\ Oldest(n) /\ IsStage(w, "pop") /\ Worker(w)
               => SomebodyHolds(n)'
<1> SUFFICES ASSUME Typed, Oldest(n), IsStage(w, "pop"), Worker(w)
             PROVE  Holds(w, n)'
  BY DEF WorkInv, DaemonInv, SomebodyHolds
<1>1. WorkerPop(w)
  BY WorkerMoves
<1>2. Q!PopTake(w) /\ stage' = [stage EXCEPT ![w] = "write"]
  BY <1>1, Zenon DEF WorkerPop, Q!PopWait, Q!PopEnd, Oldest
<1>3. main' = main
  BY <1>1, Zenon DEF WorkerPop
<1> QED
  BY <1>2, <1>3 DEF Q!PopTake, Typed, Oldest, Holds, Alive, Ended

(* If n were never taken, no worker could be on its way to it. *)
LEMMA TakenOrNobodyComes ==
    ASSUME NEW n, NEW w \in Workers
    PROVE  Working /\ FairWorker(w) /\ []Oldest(n) /\ []~SomebodyHolds(n)
               => ~Coming(w)
<1>1. WorkInv /\ Oldest(n) /\ Coming(w) /\ [Next]_daemonVars /\ Alive' => Coming(w)'
  BY ComingStays
<1>2. WorkInv /\ Oldest(n) /\ IsStage(w, "pop") /\ Worker(w) => SomebodyHolds(n)'
  BY ComerTakes
<1>3. Oldest(n) => Alive
  BY DEF Oldest
<1>4. WorkInv /\ Oldest(n) => IsStage(w, "pop") \/ Busy(w)
  BY DEF WorkInv, DaemonInv, Typed, SpawnsFirst, Oldest, IsStage, Busy, Alive, Ended, Dead
<1>5. WorkInv /\ IsStage(w, "pop") /\ [Next]_daemonVars /\ Alive /\ Alive' /\ ~Worker(w)
          => IsStage(w, "pop")'
  BY StageStep DEF WorkInv, DaemonInv, IsStage, Alive, Ended, Dead
<1>6. Alive /\ IsStage(w, "pop") /\ Coming(w) => CanWork(w)
  BY DEF CanWork, IsStage
<1> QED
  BY <1>1, <1>2, <1>3, <1>4, <1>5, <1>6, WorkerReturns, PTL DEF FairWorker, Working

(* Fairness does not wear off. *)
LEMMA FairWorkersStay == FairWorkers => []FairWorkers
<1>1. ASSUME NEW w \in Workers PROVE FairWorker(w) => []FairWorker(w)
  BY PTL DEF FairWorker
<1>2. FairWorkers => \A w \in Workers : []FairWorker(w)
  BY <1>1 DEF FairWorkers
<1>3. (\A w \in Workers : []FairWorker(w)) => [](\A w \in Workers : FairWorker(w))
  OBVIOUS
<1> QED
  BY <1>2, <1>3 DEF FairWorkers

(* The oldest sample is taken, or the process ends. *)
LEMMA OldestIsTaken ==
    ASSUME NEW n
    PROVE  Working /\ FairWorkers => [](Oldest(n) => <>(SomebodyHolds(n) \/ ~Alive))
<1> DEFINE Stuck == []Oldest(n) /\ []~SomebodyHolds(n)
<1>1. Working /\ FairWorkers /\ Stuck
          => \A w \in Workers : ~Coming(w)
  BY TakenOrNobodyComes DEF FairWorkers
<1>2. WorkInv /\ Oldest(n) => ~\A w \in Workers : ~Coming(w)
  BY DEF WorkInv, Wakeful, Oldest
<1>3. Working /\ FairWorkers => ~Stuck
  BY <1>1, <1>2, PTL DEF Working
<1>4. WorkInv /\ Oldest(n) /\ [Next]_daemonVars
          => Oldest(n)' \/ SomebodyHolds(n)' \/ ~Alive'
  BY OldestStays
<1> QED
  BY <1>3, <1>4, FairWorkersStay, PTL DEF Working

(* Whoever holds it, it is logged. *)
LEMMA TakenIsLogged ==
    ASSUME NEW n
    PROVE  Working /\ FairWorkers => [](SomebodyHolds(n) => <>Settled(n))
<1>1. Working /\ FairWorkers => \A w \in Workers : Logs(w, n)
  BY HeldIsLogged DEF FairWorkers
<1>2. (\A w \in Workers : [](Holds(w, n) => <>Settled(n)))
          => [](\A w \in Workers : Holds(w, n) => <>Settled(n))
  OBVIOUS
<1>3. (\A w \in Workers : Holds(w, n) => <>Settled(n))
          => (SomebodyHolds(n) => <>Settled(n))
  BY DEF SomebodyHolds
<1>4. (\A w \in Workers : Logs(w, n))
          => \A w \in Workers : [](Holds(w, n) => <>Settled(n))
  BY DEF Logs
<1> QED
  BY <1>1, <1>2, <1>3, <1>4, PTL

(* Together. *)
LEMMA OldestSettles ==
    ASSUME NEW n
    PROVE  Working /\ FairWorkers => (Oldest(n) ~> (n \in logged \/ ~Alive))
<1>1. ~Alive => Settled(n)
  BY DEF Settled
<1>2. Settled(n) => n \in logged \/ ~Alive
  BY DEF Settled
<1> QED
  BY <1>1, <1>2, OldestIsTaken, TakenIsLogged, PTL

-----------------------------------------------------------------------------
(* close() was called and the queue has been emptied. *)
Drained == Alive /\ closed /\ queue = <<>>
Told(w) == pop[w] = "ended"

(* It stays so: a push into a closed queue is dropped. *)
LEMMA DrainedStays ==
    ASSUME WorkInv, Drained, [Next]_daemonVars, Alive' PROVE Drained'
<1>0. Typed
  BY DEF WorkInv, DaemonInv
<1>1. CASE UNCHANGED <<queue, closed>>
  BY <1>1 DEF Drained
<1>2. CASE PushSample
  <2>1. closed' = closed /\ queue' = queue
    BY <1>0, <1>2, PushEffect DEF PushSample, Drained
  <2> QED
    BY <1>1, <2>1
<1>3. CASE CloseQueue
  BY <1>3 DEF CloseQueue, Q!Close, Drained
<1>4. ASSUME NEW w \in Workers,
             \/ SpawnWorker(w) \/ WorkerPop(w) \/ WorkerWrite(w)
             \/ WorkerExport(w) \/ WorkerExported(w) \/ WorkerSpuriousWakeup(w)
      PROVE  UNCHANGED <<queue, closed>>
  BY <1>4, Zenon
  DEF SpawnWorker, WorkerPop, Q!PopWait, Q!PopEnd, Q!PopTake, WorkerWrite, Drained,
      WorkerExport, WorkerExported, WorkerSpuriousWakeup, Q!SpuriousWakeup, queueVars
<1>5. CASE UNCHANGED daemonVars \/ Idles \/ JoinAndReturn
  BY <1>1, <1>5, Zenon DEF daemonVars, Idles, JoinAndReturn, Proceeds, queueVars
<1>6. ASSUME NEW how \in Dead, Dies(how) PROVE FALSE
  BY <1>6 DEF Dies, Alive, Ended, Dead
<1> QED
  BY <1>1, <1>2, <1>3, <1>4, <1>5, <1>6, NextKinds, Zenon DEF Steps

(* At pop() a worker is told of the end. *)
LEMMA ComerIsTold ==
    ASSUME WorkInv, Drained, NEW w \in Workers, IsStage(w, "pop"), Worker(w)
    PROVE  Told(w)'
<1>1. Typed
  BY DEF WorkInv, DaemonInv
<1>2. WorkerPop(w)
  BY <1>1, WorkerMoves
<1>3. Q!PopEnd(w)
  BY <1>2, Zenon DEF WorkerPop, Q!PopWait, Q!PopTake, Drained
<1> QED
  BY <1>1, <1>3 DEF Q!PopEnd, Typed, Told

(* And so every worker leaves. *)
LEMMA DrainedLeaves ==
    ASSUME NEW w \in Workers
    PROVE  Working /\ FairWorker(w) => (Drained ~> (pop[w] = "ended" \/ ~Alive))
<1>1. WorkInv /\ Drained /\ [Next]_daemonVars => Drained' \/ ~Alive'
  BY DrainedStays
<1>2. WorkInv /\ Drained /\ IsStage(w, "pop") /\ Worker(w) => Told(w)'
  BY ComerIsTold
<1>3. Drained => Alive
  BY DEF Drained
<1>4. WorkInv /\ Drained => IsStage(w, "pop") \/ Busy(w)
  BY DEF WorkInv, DaemonInv, Typed, SpawnsFirst, Drained, IsStage, Busy, Alive, Ended, Dead
<1>5. WorkInv /\ IsStage(w, "pop") /\ [Next]_daemonVars /\ Alive /\ Alive' /\ ~Worker(w)
          => IsStage(w, "pop")'
  BY StageStep DEF WorkInv, DaemonInv, IsStage, Alive, Ended, Dead
<1>6. WorkInv /\ Drained /\ IsStage(w, "pop") => CanWork(w) \/ Told(w)
  BY DEF WorkInv, DaemonInv, Typed, Wakeful, Drained, CanWork, Coming, Told, IsStage
<1>7. Working /\ FairWorker(w) /\ []Alive
          => (Busy(w) => <>IsStage(w, "pop"))
  BY WorkerReturns
<1>8. Told(w) => pop[w] = "ended"
  BY DEF Told
<1> QED
  BY <1>1, <1>2, <1>3, <1>4, <1>5, <1>6, <1>7, <1>8, PTL DEF Working, FairWorker

-----------------------------------------------------------------------------
(***************************************************************************)
(* The queue inside the daemon.  The theorems about BoundedQueue hold for  *)
(* it, because the daemon calls push, close and pop only as BoundedQueue   *)
(* allows; QueueProofs is that module's proofs, for the daemon's queue.    *)
(***************************************************************************)
QueueProofs ==
    INSTANCE BoundedQueueProofs WITH Consumers <- Workers, sent <- received

(* The daemon's constants are as the queue assumes. *)
LEMMA QueueConstants == QueueProofs!QueueAssumption
<1>1. QueueProofs!IsFiniteSet(Workers)
  BY DaemonAssumption, Zenon DEF IsFiniteSet, QueueProofs!IsFiniteSet
<1> QED
  BY <1>1, DaemonAssumption

(***************************************************************************)
(* Every step of the daemon is, for the queue, a step of BoundedQueue, no  *)
(* step, or the end of the process, after which there is a new queue.      *)
(***************************************************************************)
LEMMA QueueStep ==
    [Next]_daemonVars => [QueueProofs!Next]_(QueueProofs!queueVars) \/ QueueProofs!Init'
<1> SUFFICES ASSUME [Next]_daemonVars
             PROVE  \/ QueueProofs!Next \/ UNCHANGED queueVars
                    \/ QueueProofs!Init'
  BY Zenon DEF QueueProofs!queueVars, queueVars
<1>1. CASE UNCHANGED daemonVars \/ Idles \/ JoinAndReturn
  BY <1>1, Zenon DEF daemonVars, Idles, JoinAndReturn, Proceeds
<1>2. CASE PushSample
  <2>1. QueueProofs!Push
    BY <1>2 DEF PushSample, Q!Push, Q!Refuses, Q!NotifyOne, Q!Waiting,
                QueueProofs!Push, QueueProofs!Refuses, QueueProofs!NotifyOne,
                QueueProofs!Waiting
  <2> QED
    BY <2>1 DEF QueueProofs!Next
<1>3. CASE CloseQueue
  <2>1. QueueProofs!Close
    BY <1>3 DEF CloseQueue, Q!Close, Q!NotifyAll, QueueProofs!Close,
                QueueProofs!NotifyAll
  <2> QED
    BY <2>1 DEF QueueProofs!Next
<1>4. ASSUME NEW w \in Workers, WorkerPop(w) PROVE QueueProofs!Next
  <2>1. QueueProofs!Pop(w)
    BY <1>4, Zenon DEF WorkerPop, Q!PopWait, Q!PopEnd, Q!PopTake, Q!HoldsMutex,
                QueueProofs!Pop, QueueProofs!PopWait, QueueProofs!PopEnd,
                QueueProofs!PopTake, QueueProofs!HoldsMutex
  <2> QED
    BY <2>1 DEF QueueProofs!Next
<1>5. ASSUME NEW w \in Workers, WorkerSpuriousWakeup(w) PROVE QueueProofs!Next
  <2>1. QueueProofs!SpuriousWakeup(w)
    BY <1>5 DEF WorkerSpuriousWakeup, Q!SpuriousWakeup, QueueProofs!SpuriousWakeup
  <2> QED
    BY <2>1 DEF QueueProofs!Next
<1>6. ASSUME NEW how \in Dead, Dies(how) PROVE QueueProofs!Init'
  BY <1>6 DEF Dies, QueueProofs!Init
<1>7. ASSUME NEW w \in Workers, \/ SpawnWorker(w) \/ WorkerWrite(w)
                                \/ WorkerExport(w) \/ WorkerExported(w)
      PROVE  UNCHANGED queueVars
  BY <1>7 DEF SpawnWorker, WorkerWrite, WorkerExport, WorkerExported
<1> QED
  BY <1>1, <1>2, <1>3, <1>4, <1>5, <1>6, <1>7, NextKinds, Zenon DEF Steps

(***************************************************************************)
(* So what BoundedQueue guarantees holds in the daemon, for any number of  *)
(* workers: no wake-up is lost, and a worker that was told of the end was  *)
(* told rightly.                                                           *)
(***************************************************************************)
THEOREM QueueGuaranteesHold == Spec => []QueueProofs!QueueInv
<1>1. Q!Init => QueueProofs!Init
  BY DEF Q!Init, QueueProofs!Init
<1>2. QueueProofs!Init => QueueProofs!QueueInv
  <2>1. QueueProofs!Init => QueueProofs!TypeOK
    BY QueueConstants, QueueProofs!InitType
  <2>2. QueueProofs!Init => QueueProofs!NoLostWakeup /\ QueueProofs!EndIsFinal
    BY DEF QueueProofs!Init, QueueProofs!NoLostWakeup, QueueProofs!EndIsFinal,
           QueueProofs!Waiting
  <2> QED
    BY <2>1, <2>2 DEF QueueProofs!QueueInv
<1>3. QueueProofs!QueueInv /\ [QueueProofs!Next]_(QueueProofs!queueVars)
          => QueueProofs!QueueInv'
  BY QueueConstants, QueueProofs!NextType, QueueProofs!NextNoLostWakeup,
     QueueProofs!NextEndIsFinal DEF QueueProofs!QueueInv
<1>4. QueueProofs!Init' => QueueProofs!QueueInv'
  BY <1>2, PTL
<1>5. Init => Q!Init
  BY DEF Init
<1> QED
  BY <1>1, <1>2, <1>3, <1>4, <1>5, QueueStep, PTL DEF Spec

(***************************************************************************)
(* In particular a worker comes for every sample, and none sleeps on after *)
(* close(): the invariants of the section above hold.                      *)
(***************************************************************************)
LEMMA WorkInvariant == Spec => []WorkInv
<1>1. Init => SpawnsFirst
  BY DEF Init, Q!Init, SpawnsFirst, Dead
<1>2. DaemonInv /\ SpawnsFirst /\ [Next]_daemonVars => SpawnsFirst'
  BY SpawnsFirstStep DEF DaemonInv
<1>3. QueueProofs!QueueInv => Wakeful
  <2> SUFFICES ASSUME QueueProofs!QueueInv PROVE Wakeful
    OBVIOUS
  <2>1. ASSUME queue # <<>> PROVE \E w \in Workers : Coming(w)
    <3>1. QueueProofs!CanTake
      BY <2>1, DaemonAssumption DEF QueueProofs!QueueInv, QueueProofs!EndIsFinal,
                                    QueueProofs!CanTake, QueueProofs!Told
    <3> QED
      BY <3>1, QueueConstants, QueueProofs!SomebodyComes DEF QueueProofs!HoldsMutex, Coming
  <2>2. ASSUME closed, NEW w \in Workers PROVE pop[w] # "waiting"
    BY <2>2 DEF QueueProofs!QueueInv, QueueProofs!NoLostWakeup, QueueProofs!Waiting
  <2> QED
    BY <2>1, <2>2 DEF Wakeful
<1> QED
  BY <1>1, <1>2, <1>3, DaemonInvariant, QueueGuaranteesHold, PTL DEF Spec, WorkInv

(***************************************************************************)
(* For any number of workers and any capacity, if no worker is kept from   *)
(* running: the sample at the head of the queue is written to the log, or  *)
(* the process ends before.  A worker that sleeps in pop(), is busy with   *)
(* the log or the exports, or gave way to another one does not keep it.    *)
(***************************************************************************)
THEOREM OldestIsLogged ==
    ASSUME NEW n
    PROVE  Spec /\ FairWorkers => (Oldest(n) ~> (n \in logged \/ ~Alive))
BY OldestSettles, WorkInvariant, PTL DEF Spec, Working

(***************************************************************************)
(* The joins of main do not block on a worker: once the closed queue is    *)
(* empty every worker, also one that slept in pop() when close() was       *)
(* called or is busy with its last sample, leaves its loop, unless the     *)
(* process ends before.                                                    *)
(***************************************************************************)
THEOREM WorkersLeave ==
    ASSUME NEW w \in Workers
    PROVE  Spec /\ FairWorker(w) => (Drained ~> (pop[w] = "ended" \/ ~Alive))
BY DrainedLeaves, WorkInvariant, PTL DEF Spec, Working
=============================================================================
