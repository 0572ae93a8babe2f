------------------------------- MODULE Daemon -------------------------------
(***************************************************************************)
(* sensorhubd, userspace/src/main.cpp: the main thread from start-up       *)
(* through its event loop to the join of the workers, the worker threads,  *)
(* the queue between them (BoundedQueue), the counters both update, and    *)
(* the signals that may hit the process.                                   *)
(*                                                                         *)
(* An exception that main's catch block handles is a Throw step: unwinding *)
(* destroys the vector of workers, and destroying a thread that was not    *)
(* joined is std::terminate, so the outcome depends on whether a worker    *)
(* exists.  The n-th sample received is the number n.  What the sockets,   *)
(* the log file and the configuration do is abstracted to whether a call   *)
(* throws; the connections of the control server are in ControlServer.     *)
(***************************************************************************)
EXTENDS Naturals, Sequences, FiniteSets

CONSTANTS Workers,    \* config.worker_threads of them
          Capacity,   \* config.queue_capacity
          MaxPushes   \* bound on the samples the source produces

ASSUME DaemonAssumption ==
    /\ IsFiniteSet(Workers) /\ Workers # {}     \* load_config_file refuses 0
    /\ Capacity \in Nat \ {0}                   \* likewise
    /\ MaxPushes \in Nat

VARIABLES queue, closed, dropped, pop, item,    \* BoundedQueue
          received, processed, exported,        \* RuntimeStats
          main,       \* where the main thread is, or how the process ended
          running,    \* the flag of the event loop
          events,     \* the events of this epoll_wait not yet dispatched
          available,  \* samples in the source: the driver's FIFO, or
                      \* expirations of the simulated device's timer
          batch,      \* samples of this callback not yet pushed
          stage,      \* where each worker is in its loop
          logged,     \* the samples write_sample has written
          masked,     \* SIGINT and SIGTERM are blocked in the main thread
          pending,    \* a signal waits in the signalfd
          reply,      \* the fields of the stats reply, as far as read
          unread      \* the fields still to read, in order

Q == INSTANCE BoundedQueue WITH Consumers <- Workers, sent <- received

queueVars == <<queue, closed, dropped, pop, item, received>>
loopVars == <<running, events, available, batch>>
signalVars == <<masked, pending>>
workVars == <<stage, logged, processed, exported>>
replyVars == <<reply, unread>>
daemonVars == <<queueVars, loopVars, signalVars, workVars, main, replyVars>>

Ended == {"exit0", "exit1", "aborted", "killed"}
Alive == main \notin Ended
Born == {w \in Workers : stage[w] # "unborn"}
NoReply == [received |-> 0, processed |-> 0, exported |-> 0,
            queue_size |-> 0, queue_dropped |-> 0]

Init ==
    /\ Q!Init
    /\ main = "config" /\ logged = {} /\ masked = FALSE
    /\ processed = 0 /\ exported = 0
    /\ running = TRUE /\ events = {} /\ available = 0 /\ batch = 0
    /\ stage = [w \in Workers |-> "unborn"]
    /\ pending = FALSE
    /\ reply = NoReply /\ unread = <<>>

(***************************************************************************)
(* The process ends without returning 0, and its memory is gone, queue and *)
(* counters included: what the invariants say of them they say of a live   *)
(* process, or of one that returned 0.  Only the log is left.              *)
(***************************************************************************)
Dies(how) ==
    /\ main' = how
    /\ queue' = <<>> /\ closed' = FALSE /\ dropped' = 0 /\ received' = 0
    /\ pop' = [w \in Workers |-> "idle"] /\ item' = [w \in Workers |-> 0]
    /\ processed' = 0 /\ exported' = 0
    /\ running' = TRUE /\ events' = {} /\ available' = 0 /\ batch' = 0
    /\ stage' = [w \in Workers |-> "unborn"]
    /\ pending' = FALSE
    /\ reply' = NoReply /\ unread' = <<>>
    /\ UNCHANGED <<logged, masked>>

-----------------------------------------------------------------------------
(***************************************************************************)
(* Start-up: configuration, UDP and TCP sockets; the workers; the device;  *)
(* signalfd, which blocks the signals in the calling thread only; the      *)
(* control socket and the registrations with epoll.                        *)
(***************************************************************************)
Proceeds(from, to) ==
    /\ main = from /\ main' = to
    /\ UNCHANGED <<queueVars, loopVars, workVars, replyVars>>

Setup == Proceeds("config", "spawn") /\ UNCHANGED signalVars
OpenDevice == Proceeds("device", "signals") /\ UNCHANGED signalVars
CreateSignalFd ==
    Proceeds("signals", "register") /\ masked' = TRUE /\ UNCHANGED pending
Register == Proceeds("register", "loop") /\ UNCHANGED signalVars

SpawnWorker(w) ==
    /\ main = "spawn" /\ w \notin Born
    /\ stage' = [stage EXCEPT ![w] = "pop"]
    /\ main' = IF Born \union {w} = Workers THEN "device" ELSE "spawn"
    /\ UNCHANGED <<queueVars, loopVars, signalVars, logged, processed,
                   exported, replyVars>>

(***************************************************************************)
(* An exception reaches the catch block of main, or std::terminate first.  *)
(* Start-up calls throw, and in the loop epoll_wait, read_samples and the  *)
(* two accept callbacks do (a control command that throws is caught by     *)
(* ControlServer::ready).                                                  *)
(***************************************************************************)
CanThrow ==
    \/ main \in {"config", "spawn", "device", "signals", "register"}
    \/ main = "loop" /\ running
    \/ main = "dispatch" /\ events \intersect {"source", "socket"} # {}

Throw ==
    /\ CanThrow
    /\ Dies(IF Born = {} THEN "exit1" ELSE "aborted")

-----------------------------------------------------------------------------
(***************************************************************************)
(* A sample appears in the source: sensorhub_push_sample, or the timer that*)
(* SimulatedSensorDevice::start has armed.                                 *)
(***************************************************************************)
SourceProduces ==
    /\ main \in {"loop", "dispatch", "push", "stats"}
    /\ received + batch + available < MaxPushes
    /\ available' = available + 1
    /\ UNCHANGED <<queueVars, running, events, batch, signalVars, workVars,
                   main, replyVars>>

(***************************************************************************)
(* The event loop.  epoll_wait reports what is ready (level-triggered);    *)
(* "socket" stands for the control and TCP sockets, whose peers may do     *)
(* anything.  run_once dispatches every event it got, in any order, also   *)
(* after one of them has cleared running; a timeout reports none.          *)
(***************************************************************************)
RunOnce ==
    /\ main = "loop" /\ running
    /\ \E socket \in SUBSET {"socket"} :
        events' = socket \union (IF available > 0 THEN {"source"} ELSE {})
                         \union (IF pending THEN {"signal"} ELSE {})
    /\ main' = "dispatch"
    /\ UNCHANGED <<queueVars, running, available, batch, signalVars, workVars,
                   replyVars>>

RunOnceReturns ==
    events = {} /\ Proceeds("dispatch", "loop") /\ UNCHANGED signalVars

Handles(event) ==
    /\ main = "dispatch" /\ event \in events
    /\ events' = events \ {event}

(***************************************************************************)
(* read_samples() takes all there is: SensorDevice reads until EAGAIN, the *)
(* simulated device makes a sample per expiration.  Each is counted and    *)
(* pushed.  Mutant: the event is taken and the samples are not.            *)
(***************************************************************************)
ReadNothing ==
    /\ Handles("source")
    /\ UNCHANGED <<queueVars, running, available, batch, main, signalVars,
                   workVars, replyVars>>

ReadSource ==
    /\ Handles("source")
    /\ batch' = available /\ available' = 0
    /\ main' = "push"
    /\ UNCHANGED <<queueVars, running, signalVars, workVars, replyVars>>

PushSample ==
    /\ main = "push" /\ batch > 0
    /\ Q!Push
    /\ batch' = batch - 1
    /\ UNCHANGED <<main, running, events, available, signalVars, workVars,
                   replyVars>>

PushDone ==
    batch = 0 /\ Proceeds("push", "dispatch") /\ UNCHANGED signalVars

(* The signalfd callback. *)
HandleSignal ==
    /\ Handles("signal")
    /\ pending' = FALSE /\ running' = FALSE
    /\ UNCHANGED <<queueVars, main, available, batch, masked, workVars,
                   replyVars>>

(***************************************************************************)
(* handle_control_command, and the accept callbacks.  Apart from stats and *)
(* shutdown nothing here changes: reload concerns the driver, any other    *)
(* command is answered "unknown command".                                  *)
(***************************************************************************)
HandleOther ==
    /\ Handles("socket")
    /\ running' \in {running, FALSE}            \* FALSE: shutdown
    /\ UNCHANGED <<queueVars, main, available, batch, signalVars, workVars,
                   replyVars>>

(***************************************************************************)
(* build_stats_text reads the counters one after the other while the       *)
(* workers go on.  Mutant: it reads the queue first.                       *)
(***************************************************************************)
StatsQueueFirst ==
    <<"received", "queue_size", "queue_dropped", "processed", "exported">>
StatsOrder ==
    <<"received", "processed", "exported", "queue_size", "queue_dropped">>

Counters == [received |-> received, processed |-> processed,
             exported |-> exported, queue_size |-> Len(queue),
             queue_dropped |-> dropped]

StatsBegin ==
    /\ Handles("socket")
    /\ unread' = StatsOrder
    /\ main' = "stats"
    /\ UNCHANGED <<queueVars, running, available, batch, signalVars, workVars,
                   reply>>

StatsRead ==
    /\ main = "stats" /\ unread # <<>>
    /\ reply' = [reply EXCEPT ![Head(unread)] = Counters[Head(unread)]]
    /\ unread' = Tail(unread)
    /\ UNCHANGED <<queueVars, main, loopVars, signalVars, workVars>>

StatsAnswer ==
    /\ main = "stats" /\ unread = <<>>
    /\ reply' = NoReply
    /\ main' = "dispatch"
    /\ UNCHANGED <<queueVars, loopVars, signalVars, workVars, unread>>

(* After the loop: queue.close(), the joins, unlink and return 0. *)
CloseQueue ==
    /\ main = "loop" /\ ~running
    /\ Q!Close
    /\ main' = "join"
    /\ UNCHANGED <<loopVars, signalVars, workVars, replyVars>>

(* Mutant: the workers are not waited for. *)
ReturnWithoutJoin == Proceeds("join", "exit0") /\ UNCHANGED signalVars

JoinAndReturn ==
    /\ \A w \in Workers : pop[w] = "ended"
    /\ Proceeds("join", "exit0") /\ UNCHANGED signalVars

-----------------------------------------------------------------------------
(***************************************************************************)
(* The worker loop: pop, write_sample under writer_mutex, sendto and       *)
(* broadcast_line, processed++, exported++.                                *)
(***************************************************************************)
WorkerPop(w) ==
    /\ Alive /\ stage[w] = "pop"
    /\ \/ Q!PopWait(w) /\ UNCHANGED stage
       \/ Q!PopEnd(w) /\ UNCHANGED stage
       \/ Q!PopTake(w) /\ stage' = [stage EXCEPT ![w] = "write"]
    /\ UNCHANGED <<main, loopVars, signalVars, logged, processed, exported, replyVars>>

WorkerSpuriousWakeup(w) ==
    /\ Alive
    /\ Q!SpuriousWakeup(w)
    /\ UNCHANGED <<main, loopVars, signalVars, workVars, replyVars>>

WorkerWrite(w) ==
    /\ Alive /\ stage[w] = "write"
    /\ logged' = logged \union {item[w]}
    /\ stage' = [stage EXCEPT ![w] = "export"]
    /\ UNCHANGED <<queueVars, main, loopVars, signalVars, processed, exported,
                   replyVars>>

(***************************************************************************)
(* The log file cannot be opened, or reopened after rotation: the          *)
(* exception leaves the thread, which is std::terminate.  Mutant: it is    *)
(* swallowed and the worker goes on with the next sample.                  *)
(***************************************************************************)
WorkerSkips(w) ==
    /\ Alive /\ stage[w] = "write"
    /\ stage' = [stage EXCEPT ![w] = "pop"]
    /\ UNCHANGED <<queueVars, main, loopVars, signalVars, logged, processed,
                   exported, replyVars>>

WorkerThrows(w) ==
    /\ Alive /\ stage[w] = "write"
    /\ Dies("aborted")

WorkerExport(w) ==
    /\ Alive /\ stage[w] = "export"
    /\ processed' = processed + 1
    /\ stage' = [stage EXCEPT ![w] = "exported"]
    /\ UNCHANGED <<queueVars, main, loopVars, signalVars, logged, exported, replyVars>>

WorkerExported(w) ==
    /\ Alive /\ stage[w] = "exported"
    /\ exported' = exported + 1
    /\ stage' = [stage EXCEPT ![w] = "pop"]
    /\ UNCHANGED <<queueVars, main, loopVars, signalVars, logged, processed, replyVars>>

(***************************************************************************)
(* SIGINT or SIGTERM.  The kernel gives a signal sent to the process to a  *)
(* thread that does not block it, and its default action ends the process; *)
(* the workers were created before the mask was set and never block it.    *)
(* A signal sent to the main thread alone waits in the signalfd.           *)
(***************************************************************************)
Unblocked == ~masked \/ \E w \in Born : pop[w] # "ended"

Pends == pending' = TRUE /\ UNCHANGED <<queueVars, loopVars, main, masked,
                                         workVars, replyVars>>

SignalProcess == Alive /\ IF Unblocked THEN Dies("killed") ELSE Pends
SignalMainThread == Alive /\ IF masked THEN Pends ELSE Dies("killed")

-----------------------------------------------------------------------------
Main ==
    \/ Setup \/ \E w \in Workers : SpawnWorker(w)
    \/ OpenDevice \/ CreateSignalFd \/ Register
    \/ RunOnce \/ RunOnceReturns
    \/ ReadSource \/ PushSample \/ PushDone
    \/ HandleSignal \/ HandleOther
    \/ StatsBegin \/ StatsRead \/ StatsAnswer
    \/ CloseQueue \/ JoinAndReturn

Worker(w) == \/ WorkerPop(w) \/ WorkerWrite(w) \/ WorkerExport(w)
             \/ WorkerExported(w)

Next ==
    \/ Main \/ Throw \/ SourceProduces
    \/ \E w \in Workers : Worker(w) \/ WorkerThrows(w) \/ WorkerSpuriousWakeup(w)
    \/ SignalProcess \/ SignalMainThread
    \/ ~Alive /\ UNCHANGED daemonVars

Spec == Init /\ [][Next]_daemonVars

(***************************************************************************)
(* The scheduler lets every runnable thread run.  Nothing is assumed of    *)
(* exceptions, signals and spurious wake-ups.                              *)
(***************************************************************************)
FairSpec ==
    /\ Spec
    /\ WF_daemonVars(Main)
    /\ \A w \in Workers : WF_daemonVars(Worker(w))

-----------------------------------------------------------------------------
InFlight == {w \in Workers : stage[w] \in {"write", "export"}}

(* The type of the daemon's state. *)
TypeOK ==
    /\ Q!TypeOK
    /\ processed \in Nat /\ exported \in Nat
    /\ main \in {"config", "spawn", "device", "signals", "register", "loop",
                 "dispatch", "push", "stats", "join"} \union Ended
    /\ running \in BOOLEAN /\ masked \in BOOLEAN /\ pending \in BOOLEAN
    /\ events \subseteq {"source", "socket", "signal"}
    /\ available \in Nat /\ batch \in Nat
    /\ stage \in [Workers -> {"unborn", "pop", "write", "export", "exported"}]
    /\ logged \subseteq Nat
    /\ reply \in [DOMAIN NoReply -> Nat]
    /\ unread \in Seq(DOMAIN NoReply)

(***************************************************************************)
(* No sample is lost or counted twice between the queue, the workers and   *)
(* the counters: a received sample was dropped, is queued, is in the hands *)
(* of a worker, or was processed.                                          *)
(***************************************************************************)
SamplesAccounted ==
    /\ received = dropped + Len(queue) + Cardinality(InFlight) + processed
    /\ processed = exported + Cardinality({w \in Workers : stage[w] = "exported"})

(***************************************************************************)
(* README: the queue is drained after it is closed.  A daemon that returns *)
(* 0 has logged every sample it accepted, each of them once, and its       *)
(* counters say so.                                                        *)
(***************************************************************************)
DrainedOnExit ==
    main = "exit0" =>
        /\ Cardinality(logged) = received - dropped
        /\ processed = received - dropped
        /\ exported = processed

(***************************************************************************)
(* Several workers may log out of order, but only what they hold at the    *)
(* same time: nothing in the queue is older than anything in the log.      *)
(***************************************************************************)
OvertakingBounded ==
    \A n \in logged : \A i \in DOMAIN queue : n < queue[i]

(***************************************************************************)
(* The stats reply is not a snapshot, but never shows a sample twice: the  *)
(* samples processed (or exported), queued and dropped are at most those   *)
(* received.                                                               *)
(***************************************************************************)
StatsNeverOvercount ==
    (main = "stats" /\ unread = <<>>) =>
        \A done \in {reply.processed, reply.exported} :
            done + reply.queue_size + reply.queue_dropped <= reply.received

(* A loop told to stop, by a command or a signal, ends the process. *)
ShutdownCompletes == ~running ~> ~Alive

(***************************************************************************)
(* A sample does not get stuck on its way from the source through the      *)
(* event loop, the queue and a worker: it is received, and once accepted   *)
(* by the queue it is logged, unless the process ends first.               *)
(***************************************************************************)
SourceReachesLog ==
    \A n \in 1..MaxPushes :
        /\ (received + batch + available >= n) ~> (received >= n \/ ~Alive)
        /\ (\E i \in DOMAIN queue : queue[i] = n) ~> (n \in logged \/ ~Alive)

(***************************************************************************)
(* main.cpp on signalfd: signals become an fd, so that epoll manages them. *)
(* So once the signalfd exists a signal does not end the process.          *)
(***************************************************************************)
SignalsGoThroughEpoll == main = "killed" => ~masked
=============================================================================
