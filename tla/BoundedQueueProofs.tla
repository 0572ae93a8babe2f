------------------------- MODULE BoundedQueueProofs -------------------------
(***************************************************************************)
(* Proofs about BoundedQueue for every capacity, every finite set of       *)
(* consumers and any number of calls: its type, no lost wake-up, that the  *)
(* end is final, that its steps are those of LossyFifo, and that with fair *)
(* consumers it delivers what LossyFifo promises.  TypeOK and NoLostWakeup *)
(* are inductive together; the other safety proofs need TypeOK only.       *)
(***************************************************************************)
EXTENDS BoundedQueue, FiniteSetTheorems, SequenceTheorems, TLAPS

(* The initial state is well typed. *)
LEMMA InitType == Init => TypeOK
<1> SUFFICES ASSUME Init PROVE TypeOK
  OBVIOUS
<1>1. queue \in Seq(Nat) /\ Len(queue) <= Capacity
  BY QueueAssumption, EmptySeq DEF Init
<1>2. closed \in BOOLEAN /\ dropped \in Nat /\ sent \in Nat
  BY Zenon DEF Init
<1>3. pop \in [Consumers -> {"idle", "waiting", "woken", "ended"}]
  BY DEF Init
<1>4. item \in [Consumers -> Nat]
  BY DEF Init
<1> QED
  BY <1>1, <1>2, <1>3, <1>4 DEF TypeOK

(* Notifying changes "waiting" to "woken" only, so pop keeps its type. *)
LEMMA NotifyType ==
    ASSUME TypeOK, NotifyOne \/ NotifyAll
    PROVE  pop' \in [Consumers -> {"idle", "waiting", "woken", "ended"}]
BY DEF TypeOK, NotifyOne, NotifyAll, Waiting

(* Every operation keeps the type, push() in particular the capacity. *)
LEMMA NextType == TypeOK /\ [Next]_queueVars => TypeOK'
<1> SUFFICES ASSUME TypeOK, [Next]_queueVars PROVE TypeOK'
  OBVIOUS
<1>1. CASE Push
  <2>1. CASE Refuses
    BY <1>1, <2>1 DEF Push, TypeOK
  <2>2. CASE ~Refuses
    <3>1. queue' = Append(queue, sent + 1) /\ NotifyOne
      BY <1>1, <2>2 DEF Push
    <3>2. queue' \in Seq(Nat) /\ Len(queue') = Len(queue) + 1
      BY <3>1, AppendProperties DEF TypeOK
    <3>3. Len(queue') <= Capacity
      BY <2>2, <3>2, QueueAssumption, LenProperties DEF Refuses, TypeOK
    <3> QED
      BY <1>1, <2>2, <3>1, <3>2, <3>3, NotifyType DEF Push, TypeOK
  <2> QED
    BY <2>1, <2>2
<1>2. CASE Close
  BY <1>2, NotifyType DEF Close, TypeOK
<1>3. ASSUME NEW c \in Consumers, PopWait(c) PROVE TypeOK'
  BY <1>3 DEF PopWait, TypeOK
<1>4. ASSUME NEW c \in Consumers, PopEnd(c) PROVE TypeOK'
  BY <1>4 DEF PopEnd, TypeOK
<1>5. ASSUME NEW c \in Consumers, PopTake(c) PROVE TypeOK'
  <2>1. queue # <<>> /\ queue' = Tail(queue)
    BY <1>5 DEF PopTake
  <2>2. Head(queue) \in Nat /\ Tail(queue) \in Seq(Nat)
        /\ Len(Tail(queue)) = Len(queue) - 1
    BY <2>1, HeadTailProperties DEF TypeOK
  <2>3. Len(queue') <= Capacity
    BY <2>1, <2>2, QueueAssumption, LenProperties DEF TypeOK
  <2> QED
    BY <1>5, <2>1, <2>2, <2>3 DEF PopTake, TypeOK
<1>6. ASSUME NEW c \in Consumers, SpuriousWakeup(c) PROVE TypeOK'
  BY <1>6 DEF SpuriousWakeup, TypeOK
<1>7. CASE UNCHANGED queueVars
  BY <1>7 DEF queueVars, TypeOK
<1> QED
  BY <1>1, <1>2, <1>3, <1>4, <1>5, <1>6, <1>7 DEF Next, Pop

(***************************************************************************)
(* Type correctness: push() never exceeds the capacity, and pop() returns  *)
(* values that were pushed.                                                *)
(***************************************************************************)
THEOREM TypeCorrect == Spec => []TypeOK
BY InitType, NextType, PTL DEF Spec

-----------------------------------------------------------------------------
(* The woken consumers can be counted. *)
LEMMA WokenFinite == IsFiniteSet(Woken) /\ Cardinality(Woken) \in Nat
BY QueueAssumption, FS_Subset, FS_CardinalityType DEF Woken

(* A consumer that becomes woken adds one to their number. *)
LEMMA OneMoreWoken ==
    ASSUME TypeOK, NEW c \in Waiting, pop' = [pop EXCEPT ![c] = "woken"]
    PROVE  /\ Cardinality(Woken') = Cardinality(Woken) + 1
           /\ Waiting' = Waiting \ {c}
<1>1. c \in Consumers /\ c \notin Woken
  BY DEF Waiting, Woken
<1>2. Woken' = Woken \union {c}
  BY <1>1 DEF Woken, TypeOK
<1>3. Waiting' = Waiting \ {c}
  BY <1>1 DEF Waiting, TypeOK
<1> QED
  BY <1>1, <1>2, <1>3, WokenFinite, FS_AddElement, Zenon

(***************************************************************************)
(* A consumer that leaves pop() from the idle state changes neither set;   *)
(* one that was woken takes itself out of Woken.                           *)
(***************************************************************************)
LEMMA PopLeaves ==
    ASSUME TypeOK, NEW c \in Consumers, HoldsMutex(c),
           NEW s \in {"idle", "ended"}, pop' = [pop EXCEPT ![c] = s]
    PROVE  /\ Waiting' = Waiting
           /\ Cardinality(Woken') \in Nat
           /\ Cardinality(Woken') >= Cardinality(Woken) - 1
<1>1. Waiting' = Waiting
  BY DEF Waiting, TypeOK, HoldsMutex
<1>2. CASE pop[c] = "idle"
  <2>1. Woken' = Woken
    BY <1>2 DEF Woken, TypeOK
  <2> QED
    BY <1>1, <2>1, WokenFinite
<1>3. CASE pop[c] = "woken"
  <2>1. Woken' = Woken \ {c} /\ c \in Woken
    BY <1>3 DEF Woken, TypeOK
  <2>2. /\ IsFiniteSet(Woken \ {c})
        /\ Cardinality(Woken \ {c}) = Cardinality(Woken) - 1
    BY <2>1, WokenFinite, FS_RemoveElement
  <2>3. Cardinality(Woken \ {c}) \in Nat
    BY <2>2, FS_CardinalityType
  <2> QED
    BY <1>1, <2>1, <2>2, <2>3, WokenFinite
<1> QED
  BY <1>2, <1>3 DEF HoldsMutex

(* No lost wake-up is preserved by every operation. *)
LEMMA NextNoLostWakeup ==
    TypeOK /\ NoLostWakeup /\ [Next]_queueVars => NoLostWakeup'
<1> SUFFICES ASSUME TypeOK, NoLostWakeup, [Next]_queueVars, Waiting' # {}
             PROVE  ~closed' /\ Len(queue') <= Cardinality(Woken')
  BY DEF NoLostWakeup
<1>t. queue \in Seq(Nat) /\ Len(queue) \in Nat
  BY LenProperties DEF TypeOK
<1>1. CASE Push
  <2>1. CASE UNCHANGED <<queue, pop>>
    <3>1. Waiting' = Waiting /\ Woken' = Woken
      BY <2>1 DEF Waiting, Woken
    <3> QED
      BY <1>1, <2>1, <3>1 DEF Push, NoLostWakeup
  <2>2. CASE ~Refuses
    <3>1. queue' = Append(queue, sent + 1) /\ NotifyOne
      BY <1>1, <2>2 DEF Push
    <3>2. Len(queue') = Len(queue) + 1
      BY <3>1, <1>t, AppendProperties DEF TypeOK
    <3>3. Waiting # {}
      <4> SUFFICES ASSUME Waiting = {} PROVE FALSE
        OBVIOUS
      <4>1. pop' = pop
        BY <3>1 DEF NotifyOne
      <4> QED
        BY <4>1 DEF Waiting
    <3>4. PICK c \in Waiting : pop' = [pop EXCEPT ![c] = "woken"]
      BY <3>1, <3>3 DEF NotifyOne
    <3>5. Cardinality(Woken') = Cardinality(Woken) + 1
      BY <3>4, OneMoreWoken, Zenon
    <3>6. ~closed'
      BY <1>1, <3>3 DEF Push, NoLostWakeup
    <3> QED
      BY <1>t, <3>2, <3>3, <3>5, <3>6, WokenFinite DEF NoLostWakeup
  <2> QED
    BY <1>1, <2>1, <2>2 DEF Push
<1>2. CASE Close
  <2>1. Waiting' = {}
    BY <1>2 DEF Close, NotifyAll, Waiting, TypeOK
  <2> QED
    BY <2>1
<1>3. ASSUME NEW c \in Consumers, PopWait(c)
      PROVE  ~closed' /\ Len(queue') <= Cardinality(Woken')
  <2>1. Len(queue') = 0 /\ ~closed'
    BY <1>3, EmptySeq DEF PopWait
  <2>2. Cardinality(Woken') \in Nat
    BY WokenFinite, FS_Subset, QueueAssumption, FS_CardinalityType DEF Woken
  <2> QED
    BY <2>1, <2>2
<1>4. ASSUME NEW c \in Consumers, PopEnd(c)
      PROVE  ~closed' /\ Len(queue') <= Cardinality(Woken')
  <2>1. Waiting' = Waiting
    BY <1>4, PopLeaves, Zenon DEF PopEnd
  <2> QED
    BY <1>4, <2>1 DEF PopEnd, NoLostWakeup
<1>5. ASSUME NEW c \in Consumers, PopTake(c)
      PROVE  ~closed' /\ Len(queue') <= Cardinality(Woken')
  <2>1. /\ Waiting' = Waiting
        /\ Cardinality(Woken') \in Nat
        /\ Cardinality(Woken') >= Cardinality(Woken) - 1
    BY <1>5, PopLeaves, Zenon DEF PopTake
  <2>2. Len(queue') = Len(queue) - 1
    BY <1>5, <1>t, HeadTailProperties DEF PopTake
  <2>3. closed' = closed
    BY <1>5 DEF PopTake
  <2> QED
    BY <1>t, <2>1, <2>2, <2>3, WokenFinite DEF NoLostWakeup
<1>6. ASSUME NEW c \in Consumers, SpuriousWakeup(c)
      PROVE  ~closed' /\ Len(queue') <= Cardinality(Woken')
  <2>1. c \in Waiting
    BY <1>6 DEF SpuriousWakeup, Waiting
  <2>2. Cardinality(Woken') = Cardinality(Woken) + 1
    BY <1>6, <2>1, OneMoreWoken, Zenon DEF SpuriousWakeup
  <2> QED
    BY <1>6, <1>t, <2>1, <2>2, WokenFinite DEF SpuriousWakeup, NoLostWakeup
<1>7. CASE UNCHANGED queueVars
  <2>1. Waiting' = Waiting /\ Woken' = Woken
    BY <1>7 DEF queueVars, Waiting, Woken
  <2> QED
    BY <1>7, <2>1 DEF queueVars, NoLostWakeup
<1> QED
  BY <1>1, <1>2, <1>3, <1>4, <1>5, <1>6, <1>7 DEF Next, Pop

(***************************************************************************)
(* No lost wake-up, for any number of workers: while a worker sleeps in    *)
(* pop(), every queued sample has a notified worker coming for it.         *)
(***************************************************************************)
THEOREM NeverLostWakeup == Spec => []NoLostWakeup
<1>1. Init => NoLostWakeup
  BY DEF Init, NoLostWakeup, Waiting
<1> QED
  BY <1>1, TypeCorrect, NextNoLostWakeup, PTL DEF Spec

-----------------------------------------------------------------------------
(* Nothing reopens or refills a queue whose end was reported. *)
LEMMA NextEndIsFinal ==
    TypeOK /\ EndIsFinal /\ [Next]_queueVars => EndIsFinal'
<1> SUFFICES ASSUME TypeOK, EndIsFinal, [Next]_queueVars,
                    NEW c \in Consumers, pop'[c] = "ended"
             PROVE  closed' /\ queue' = <<>>
  BY DEF EndIsFinal
<1>1. CASE pop[c] = "ended"
  <2>1. closed /\ queue = <<>>
    BY <1>1 DEF EndIsFinal
  <2> QED
    BY <2>1, Zenon DEF Next, Push, Refuses, Close, Pop, PopWait, PopEnd, PopTake,
                SpuriousWakeup, queueVars
<1>2. CASE pop[c] # "ended"
  <2>1. \E d \in Consumers : PopEnd(d)
    BY <1>2 DEF Next, Push, NotifyOne, NotifyAll, Waiting, Close, Pop, PopWait,
                PopTake, SpuriousWakeup, queueVars, TypeOK
  <2> QED
    BY <2>1 DEF PopEnd
<1> QED
  BY <1>1, <1>2

(***************************************************************************)
(* The end is final: a worker that left its loop left a closed and empty   *)
(* queue behind, and it stays so.                                          *)
(***************************************************************************)
THEOREM EndStaysFinal == Spec => []EndIsFinal
<1>1. Init => EndIsFinal
  BY DEF Init, EndIsFinal
<1> QED
  BY <1>1, TypeCorrect, NextEndIsFinal, PTL DEF Spec

-----------------------------------------------------------------------------
(* Every operation is an operation of LossyFifo, or changes nothing there. *)
LEMMA StepRefinesFifo ==
    TypeOK /\ [Next]_queueVars => [Fifo!Next]_(Fifo!fifoVars)
<1> DEFINE ended == {c \in Consumers : pop[c] = "ended"}
<1> SUFFICES ASSUME TypeOK, [Next]_queueVars
             PROVE  [Fifo!Next]_(Fifo!fifoVars)
  OBVIOUS
<1>1. CASE Push
  <2>1. ended' = ended
    BY <1>1 DEF Push, NotifyOne, Waiting, TypeOK
  <2>2. CASE Refuses
    <3>1. closed \/ Len(queue) = Capacity
      BY <2>2, QueueAssumption, LenProperties DEF Refuses, TypeOK
    <3>2. Fifo!Refuse
      BY <1>1, <2>1, <2>2, <3>1 DEF Push, Fifo!Refuse
    <3> QED
      BY <3>2 DEF Fifo!Next
  <2>3. CASE ~Refuses
    <3>1. ~closed /\ Len(queue) < Capacity
      BY <2>3, QueueAssumption, LenProperties DEF Refuses, TypeOK
    <3>2. Fifo!Accept
      BY <1>1, <2>1, <2>3, <3>1 DEF Push, Fifo!Accept
    <3> QED
      BY <3>2 DEF Fifo!Next
  <2> QED
    BY <2>2, <2>3
<1>2. CASE Close
  <2>1. ended' = ended
    BY <1>2 DEF Close, NotifyAll, TypeOK
  <2>2. Fifo!Close
    BY <1>2, <2>1 DEF Close, Fifo!Close
  <2> QED
    BY <2>2 DEF Fifo!Next
<1>3. ASSUME NEW c \in Consumers, PopWait(c) \/ SpuriousWakeup(c)
      PROVE  UNCHANGED Fifo!fifoVars
  <2>1. ended' = ended
    BY <1>3 DEF PopWait, SpuriousWakeup, HoldsMutex, TypeOK
  <2> QED
    BY <1>3, <2>1 DEF PopWait, SpuriousWakeup, Fifo!fifoVars
<1>4. ASSUME NEW c \in Consumers, PopEnd(c) PROVE Fifo!Next
  <2>1. c \notin ended /\ ended' = ended \union {c}
    BY <1>4 DEF PopEnd, HoldsMutex, TypeOK
  <2>2. Fifo!End(c)
    BY <1>4, <2>1 DEF PopEnd, Fifo!End
  <2> QED
    BY <2>2 DEF Fifo!Next
<1>5. ASSUME NEW c \in Consumers, PopTake(c) PROVE Fifo!Next
  <2>1. c \notin ended /\ ended' = ended
    BY <1>5 DEF PopTake, HoldsMutex, TypeOK
  <2>2. Fifo!Take(c)
    BY <1>5, <2>1 DEF PopTake, Fifo!Take
  <2> QED
    BY <2>2 DEF Fifo!Next
<1>6. CASE UNCHANGED queueVars
  BY <1>6 DEF queueVars, Fifo!fifoVars
<1> QED
  BY <1>1, <1>2, <1>3, <1>4, <1>5, <1>6 DEF Next, Pop

(***************************************************************************)
(* The mutex, the condition variable and their spurious and late wake-ups  *)
(* are invisible to callers: every behaviour is one of the lossy fifo      *)
(* queue of LossyFifo, its liveness aside.                                 *)
(***************************************************************************)
THEOREM RefinesFifo == Spec => Fifo!Init /\ [][Fifo!Next]_(Fifo!fifoVars)
<1>1. Init => Fifo!Init
  BY DEF Init, Fifo!Init
<1> QED
  BY <1>1, TypeCorrect, StepRefinesFifo, PTL DEF Spec
-----------------------------------------------------------------------------
(***************************************************************************)
(* The liveness of ImplementsFifo.  ENABLED is not available to the        *)
(* provers, so weak fairness is written with the guard of its action: a    *)
(* consumer that holds the mutex can always take, end or wait, and a fifo  *)
(* can be taken from when it is not empty and somebody has not ended.      *)
(***************************************************************************)
FairPop(c) == []<>~HoldsMutex(c) \/ []<><<Pop(c)>>_queueVars
FairPops == \A c \in Consumers : FairPop(c)

Told == {c \in Consumers : pop[c] = "ended"}
CanTake == queue # <<>> /\ Told # Consumers
CanEnd(c) == c \notin Told /\ closed /\ queue = <<>>

Takes == \E c \in Consumers : Fifo!Take(c)
FairTakes == []<>~CanTake \/ []<><<Takes>>_(Fifo!fifoVars)
FairEnd(c) == []<>~CanEnd(c) \/ []<><<Fifo!End(c)>>_(Fifo!fifoVars)

(* The invariants proved above, together. *)
QueueInv == TypeOK /\ NoLostWakeup /\ EndIsFinal

(* They hold of every reachable queue. *)
LEMMA QueueInvariant == Spec => []QueueInv
  BY TypeCorrect, NeverLostWakeup, EndStaysFinal, PTL DEF QueueInv

(* Somebody comes for a queued item. *)
LEMMA SomebodyComes ==
    ASSUME QueueInv, CanTake PROVE \E c \in Consumers : HoldsMutex(c)
<1>1. PICK c \in Consumers : pop[c] # "ended"
  BY DEF CanTake, Told
<1>2. CASE Waiting = {}
  BY <1>1, <1>2 DEF Waiting, HoldsMutex, QueueInv, TypeOK
<1>3. CASE Waiting # {}
  <2>1. Len(queue) <= Cardinality(Woken) /\ Len(queue) \in Nat /\ Len(queue) # 0
    BY <1>3, LenProperties, EmptySeq DEF QueueInv, NoLostWakeup, TypeOK, CanTake
  <2>2. Cardinality(Woken) # 0
    BY <2>1, WokenFinite DEF QueueInv
  <2>3. Woken # {}
    BY <2>2, FS_EmptySet
  <2> QED
    BY <2>3 DEF Woken, HoldsMutex
<1> QED
  BY <1>2, <1>3

(* While there is something to take, pop() does nothing else. *)
LEMMA PopTakes ==
    ASSUME QueueInv, CanTake, NEW c \in Consumers, <<Pop(c)>>_queueVars
    PROVE  <<Takes>>_(Fifo!fifoVars)
<1>1. PopTake(c)
  BY Zenon DEF Pop, PopWait, PopEnd, CanTake
<1>2. Told' = Told /\ c \notin Told
  BY <1>1 DEF PopTake, HoldsMutex, Told, QueueInv, TypeOK
<1>3. Fifo!Take(c)
  BY <1>1, <1>2, Zenon DEF PopTake, Fifo!Take, Told
<1>4. queue' # queue
  <2>1. queue \in Seq(Nat) /\ queue # <<>> /\ queue' = Tail(queue)
    BY <1>1 DEF PopTake, QueueInv, TypeOK
  <2>2. Len(queue') = Len(queue) - 1 /\ Len(queue) \in Nat
    BY <2>1, HeadTailProperties, LenProperties
  <2> QED
    BY <2>2
<1> QED
  BY <1>3, <1>4 DEF Takes, Fifo!fifoVars

(* Nobody loses the mutex, or the way to it, but by its own pop(). *)
LEMMA KeepsMutex ==
    ASSUME QueueInv, NEW c \in Consumers, HoldsMutex(c), [Next]_queueVars,
           ~<<Pop(c)>>_queueVars
    PROVE  HoldsMutex(c)'
<1>1. CASE Push
  BY <1>1 DEF Push, NotifyOne, Waiting, HoldsMutex, QueueInv, TypeOK
<1>2. CASE Close
  BY <1>2 DEF Close, NotifyAll, HoldsMutex, QueueInv, TypeOK
<1>3. ASSUME NEW d \in Consumers, Pop(d), d # c PROVE HoldsMutex(c)'
  BY <1>3 DEF Pop, PopWait, PopEnd, PopTake, HoldsMutex, QueueInv, TypeOK
<1>4. ASSUME NEW d \in Consumers, SpuriousWakeup(d) PROVE HoldsMutex(c)'
  BY <1>4 DEF SpuriousWakeup, HoldsMutex, QueueInv, TypeOK
<1>5. CASE UNCHANGED queueVars
  BY <1>5 DEF queueVars, HoldsMutex
<1> QED
  BY <1>1, <1>2, <1>3, <1>4, <1>5 DEF Next

(* An item that is never taken would keep everybody from the mutex. *)
LEMMA TakenOrStuck ==
    ASSUME NEW c \in Consumers
    PROVE  /\ []QueueInv /\ [][Next]_queueVars /\ FairPop(c) /\ []CanTake
           /\ [][~Takes]_(Fifo!fifoVars)
           => ~HoldsMutex(c)
<1>1. QueueInv /\ HoldsMutex(c) /\ [Next]_queueVars /\ ~<<Pop(c)>>_queueVars => HoldsMutex(c)'
  BY KeepsMutex
<1>2. QueueInv /\ CanTake /\ <<Pop(c)>>_queueVars
          => <<Takes>>_(Fifo!fifoVars)
  BY PopTakes
<1> QED
  BY <1>1, <1>2, PTL DEF FairPop

(* Fairness of pop() does not wear off. *)
LEMMA FairPopsStays == FairPops => []FairPops
<1>1. ASSUME NEW c \in Consumers PROVE FairPop(c) => []FairPop(c)
  BY PTL DEF FairPop
<1>2. FairPops => \A c \in Consumers : []FairPop(c)
  BY <1>1 DEF FairPops
<1>3. (\A c \in Consumers : []FairPop(c)) => [](\A c \in Consumers : FairPop(c))
  OBVIOUS
<1> QED
  BY <1>2, <1>3 DEF FairPops

(* So a queue with items and a consumer is not left alone for ever. *)
LEMMA TakesGoOn == Spec /\ FairPops => FairTakes
<1> DEFINE Stuck == []CanTake /\ [][~Takes]_(Fifo!fifoVars)
<1>1. []QueueInv /\ [][Next]_queueVars /\ FairPops /\ Stuck => \A c \in Consumers : ~HoldsMutex(c)
  BY TakenOrStuck DEF FairPops
<1>2. QueueInv /\ CanTake => ~\A c \in Consumers : ~HoldsMutex(c)
  BY SomebodyComes
<1>3. []QueueInv /\ [][Next]_queueVars /\ FairPops => ~Stuck
  BY <1>1, <1>2, PTL
<1> QED
  BY <1>3, QueueInvariant, FairPopsStays, PTL DEF Spec, FairTakes

(* And a consumer of a closed, empty queue is told: pop() returns nullopt. *)
LEMMA EndGoesOn ==
    ASSUME NEW c \in Consumers PROVE Spec /\ FairPop(c) => FairEnd(c)
<1>1. QueueInv /\ CanEnd(c) => HoldsMutex(c)
  BY DEF CanEnd, Told, HoldsMutex, QueueInv, TypeOK, NoLostWakeup, Waiting
<1>2. QueueInv /\ CanEnd(c) /\ <<Pop(c)>>_queueVars => <<Fifo!End(c)>>_(Fifo!fifoVars)
  <2> SUFFICES ASSUME QueueInv, CanEnd(c), Pop(c)
               PROVE  <<Fifo!End(c)>>_(Fifo!fifoVars)
    OBVIOUS
  <2>1. PopEnd(c)
    BY Zenon DEF Pop, PopWait, PopTake, CanEnd
  <2>2. c \notin Told /\ Told' = Told \union {c}
    BY <2>1 DEF PopEnd, HoldsMutex, Told, QueueInv, TypeOK
  <2>3. Fifo!End(c)
    BY <2>1, <2>2, Zenon DEF PopEnd, Fifo!End, Told
  <2> QED
    BY <2>2, <2>3, Zenon DEF Fifo!fifoVars, Told
<1> QED
  BY <1>1, <1>2, QueueInvariant, PTL DEF Spec, FairPop, FairEnd

(***************************************************************************)
(* The queue is live, for any number of workers: if each of them gets the  *)
(* mutex when it can, accepted samples are taken as long as somebody has   *)
(* not ended, and every worker learns of the end; so with its liveness the *)
(* queue is the one LossyFifo specifies.                                   *)
(***************************************************************************)
THEOREM RefinesLiveFifo ==
    Spec /\ FairPops => /\ Fifo!Init /\ [][Fifo!Next]_(Fifo!fifoVars)
                        /\ FairTakes /\ \A c \in Consumers : FairEnd(c)
<1>1. Spec /\ FairPops => \A c \in Consumers : FairEnd(c)
  BY EndGoesOn DEF FairPops
<1> QED
  BY <1>1, RefinesFifo, TakesGoOn
=============================================================================
