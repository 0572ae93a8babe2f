---------------------------- MODULE BoundedQueue ----------------------------
(***************************************************************************)
(* BoundedQueue<T> of userspace/include/bounded_queue.hpp, the queue       *)
(* between the epoll thread of sensorhubd and its workers.                 *)
(*                                                                         *)
(* Every operation runs under mutex_, so each is one action, except that   *)
(* pop() gives the mutex up while it waits on the condition variable       *)
(* not_empty_.  A consumer inside wait() is "waiting"; once notified (or   *)
(* woken spuriously, which C++ allows) it is "woken", and takes the mutex  *)
(* again to evaluate the predicate some time later: another consumer, or   *)
(* a push, may come first.                                                 *)
(***************************************************************************)
EXTENDS Naturals, Sequences, FiniteSets

CONSTANTS Capacity,   \* capacity_
          Consumers,  \* the threads that call pop() until it returns nullopt
          MaxPushes   \* bound on the calls of push()

ASSUME QueueAssumption ==
    /\ Capacity \in Nat \ {0}        \* load_config_file refuses 0
    /\ IsFiniteSet(Consumers)
    /\ MaxPushes \in Nat

VARIABLES queue,      \* queue_
          closed,     \* closed_
          dropped,    \* dropped_
          sent,       \* number of calls of push(); the n-th call pushes n
          pop,        \* where each consumer is in pop()
          item        \* what its last pop() returned, 0 before the first

queueVars == <<queue, closed, dropped, sent, pop, item>>

-----------------------------------------------------------------------------
Waiting == {c \in Consumers : pop[c] = "waiting"}
Woken   == {c \in Consumers : pop[c] = "woken"}

Init ==
    /\ queue = <<>>
    /\ closed = FALSE
    /\ dropped = 0
    /\ sent = 0
    /\ pop = [c \in Consumers |-> "idle"]
    /\ item = [c \in Consumers |-> 0]

(***************************************************************************)
(* not_empty_.notify_one(), where the library chooses the waiter, and      *)
(* notify_all().  Mutants: a notification on the empty-to-non-empty edge   *)
(* only, and none at all.                                                  *)
(***************************************************************************)
NotifyNobody == UNCHANGED pop

NotifyOnEdge ==
    IF Waiting = {} \/ queue # <<>> THEN UNCHANGED pop
    ELSE \E c \in Waiting : pop' = [pop EXCEPT ![c] = "woken"]

NotifyOne ==
    IF Waiting = {} THEN UNCHANGED pop
    ELSE \E c \in Waiting : pop' = [pop EXCEPT ![c] = "woken"]

NotifyAll ==
    pop' = [c \in Consumers |-> IF pop[c] = "waiting" THEN "woken" ELSE pop[c]]

(***************************************************************************)
(* push(): refused when closed or full, otherwise appended and one waiter  *)
(* notified, all under mutex_.  Mutants: a size test that admits one       *)
(* element too many, and one that forgets closed_.                         *)
(***************************************************************************)
RefusesLate == closed \/ Len(queue) > Capacity
RefusesWhenFull == Len(queue) >= Capacity
Refuses == closed \/ Len(queue) >= Capacity

Push ==
    /\ sent < MaxPushes
    /\ sent' = sent + 1
    /\ \/ /\ Refuses
          /\ dropped' = dropped + 1
          /\ UNCHANGED <<queue, pop>>
       \/ /\ ~Refuses
          /\ queue' = Append(queue, sent + 1)
          /\ NotifyOne
          /\ UNCHANGED dropped
    /\ UNCHANGED <<closed, item>>

(***************************************************************************)
(* pop(), from the moment a consumer holds mutex_ (on entry, or after it   *)
(* was woken) until it gives the mutex up: PopWait releases it inside      *)
(* wait(), PopEnd returns nullopt, PopTake returns the front element.      *)
(* Mutant: pop() takes the newest element.                                 *)
(***************************************************************************)
HoldsMutex(c) == pop[c] \in {"idle", "woken"}

PopWait(c) ==
    /\ HoldsMutex(c)
    /\ ~closed /\ queue = <<>>
    /\ pop' = [pop EXCEPT ![c] = "waiting"]
    /\ UNCHANGED <<queue, closed, dropped, sent, item>>

PopEnd(c) ==
    /\ HoldsMutex(c)
    /\ closed /\ queue = <<>>
    /\ pop' = [pop EXCEPT ![c] = "ended"]
    /\ UNCHANGED <<queue, closed, dropped, sent, item>>

PopTakeNewest(c) ==
    /\ HoldsMutex(c)
    /\ queue # <<>>
    /\ item' = [item EXCEPT ![c] = queue[Len(queue)]]
    /\ queue' = SubSeq(queue, 1, Len(queue) - 1)
    /\ pop' = [pop EXCEPT ![c] = "idle"]
    /\ UNCHANGED <<closed, dropped, sent>>

PopTake(c) ==
    /\ HoldsMutex(c)
    /\ queue # <<>>
    /\ item' = [item EXCEPT ![c] = Head(queue)]
    /\ queue' = Tail(queue)
    /\ pop' = [pop EXCEPT ![c] = "idle"]
    /\ UNCHANGED <<closed, dropped, sent>>

(***************************************************************************)
(* wait() may return without a notification; the predicate is evaluated    *)
(* again, so this is only "waiting" becoming "woken".                      *)
(***************************************************************************)
SpuriousWakeup(c) ==
    /\ pop[c] = "waiting"
    /\ pop' = [pop EXCEPT ![c] = "woken"]
    /\ UNCHANGED <<queue, closed, dropped, sent, item>>

(***************************************************************************)
(* close(): sets closed_ and wakes every waiter, under mutex_.             *)
(***************************************************************************)
Close ==
    /\ closed' = TRUE
    /\ NotifyAll
    /\ UNCHANGED <<queue, dropped, sent, item>>

Pop(c) == PopWait(c) \/ PopEnd(c) \/ PopTake(c)

Next ==
    \/ Push
    \/ Close
    \/ \E c \in Consumers : Pop(c) \/ SpuriousWakeup(c)

Spec == Init /\ [][Next]_queueVars

(***************************************************************************)
(* A consumer that can take the mutex eventually does: the worker loop of  *)
(* main.cpp calls pop() again after every value, and std::mutex lets a     *)
(* contender in.  No fairness of push, close or spurious wake-ups.         *)
(***************************************************************************)
FairSpec == Spec /\ \A c \in Consumers : WF_queueVars(Pop(c))

-----------------------------------------------------------------------------
(* The type of the queue's state, with the capacity bound of push().       *)
TypeOK ==
    /\ queue \in Seq(Nat)
    /\ Len(queue) <= Capacity
    /\ closed \in BOOLEAN
    /\ dropped \in Nat
    /\ sent \in Nat
    /\ pop \in [Consumers -> {"idle", "waiting", "woken", "ended"}]
    /\ item \in [Consumers -> Nat]

(***************************************************************************)
(* No lost wake-up: as long as somebody sleeps in pop(), every queued      *)
(* element has a consumer of its own that was notified and is on its way   *)
(* to the mutex (push() notifies once per element, not once per            *)
(* empty-to-non-empty edge), and nobody sleeps on a closed queue.          *)
(***************************************************************************)
NoLostWakeup ==
    Waiting # {} => /\ ~closed
                    /\ Len(queue) <= Cardinality(Woken)

(***************************************************************************)
(* The end is final: once one pop() returned nullopt the queue is closed,  *)
(* empty, and stays so, whatever push() is called afterwards.              *)
(***************************************************************************)
EndIsFinal ==
    (\E c \in Consumers : pop[c] = "ended") => closed /\ queue = <<>>

(***************************************************************************)
(* The mutex and condition variable implement the queue its callers see,   *)
(* liveness included: what was accepted is taken in order, each value by   *)
(* one consumer, and every consumer learns of the end.                     *)
(***************************************************************************)
Fifo == INSTANCE LossyFifo WITH ended <- {c \in Consumers : pop[c] = "ended"}
ImplementsFifo == Fifo!Spec
=============================================================================
