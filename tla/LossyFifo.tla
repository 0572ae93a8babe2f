----------------------------- MODULE LossyFifo -----------------------------
(***************************************************************************)
(* What BoundedQueue (userspace/include/bounded_queue.hpp) promises to its *)
(* callers, with no mutex and no condition variable: a first-in first-out  *)
(* queue that drops what does not fit, hands every accepted value to       *)
(* exactly one consumer, and tells every consumer that it has ended only   *)
(* after it was closed and emptied.                                        *)
(***************************************************************************)
EXTENDS Naturals, Sequences

CONSTANTS Capacity,   \* capacity_
          Consumers,  \* the threads that call pop()
          MaxPushes   \* bound on the calls of push()

VARIABLES queue,      \* accepted and not yet taken
          closed,
          dropped,    \* number of refused pushes
          sent,       \* number of calls of push(); the n-th call pushes n
          item,       \* what the last pop() of a consumer returned, 0 before
          ended       \* the consumers whose pop() returned nullopt

fifoVars == <<queue, closed, dropped, sent, item, ended>>

Init ==
    /\ queue = <<>>
    /\ closed = FALSE
    /\ dropped = 0
    /\ sent = 0
    /\ item = [c \in Consumers |-> 0]
    /\ ended = {}

Accept ==
    /\ sent < MaxPushes
    /\ ~closed /\ Len(queue) < Capacity
    /\ queue' = Append(queue, sent + 1)
    /\ sent' = sent + 1
    /\ UNCHANGED <<closed, dropped, item, ended>>

Refuse ==
    /\ sent < MaxPushes
    /\ closed \/ Len(queue) = Capacity
    /\ dropped' = dropped + 1
    /\ sent' = sent + 1
    /\ UNCHANGED <<queue, closed, item, ended>>

Take(c) ==
    /\ c \notin ended
    /\ queue # <<>>
    /\ item' = [item EXCEPT ![c] = Head(queue)]
    /\ queue' = Tail(queue)
    /\ UNCHANGED <<closed, dropped, sent, ended>>

End(c) ==
    /\ c \notin ended
    /\ closed /\ queue = <<>>
    /\ ended' = ended \union {c}
    /\ UNCHANGED <<queue, closed, dropped, sent, item>>

Close ==
    /\ closed' = TRUE
    /\ UNCHANGED <<queue, dropped, sent, item, ended>>

Next ==
    \/ Accept
    \/ Refuse
    \/ Close
    \/ \E c \in Consumers : Take(c) \/ End(c)

(***************************************************************************)
(* A value that can be taken is taken by some consumer; a consumer of a    *)
(* closed and empty queue is told so.                                      *)
(***************************************************************************)
Spec ==
    /\ Init
    /\ [][Next]_fifoVars
    /\ WF_fifoVars(\E c \in Consumers : Take(c))
    /\ \A c \in Consumers : WF_fifoVars(End(c))
=============================================================================
