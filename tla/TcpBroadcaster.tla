--------------------------- MODULE TcpBroadcaster ---------------------------
(***************************************************************************)
(* TcpBroadcaster, userspace/src/net/tcp_broadcaster.cpp, between the main *)
(* thread that accepts subscribers, the workers that broadcast lines under *)
(* mutex_, and subscribers that run tools/sensor_subscribe.cpp, read at    *)
(* their own pace and may be killed at any time.                           *)
(*                                                                         *)
(* Each send is a step, as the subscribers go on while the mutex is held.  *)
(* Line n consists of the bytes <<n, 1>> to <<n, LineBytes>>, the last of  *)
(* them its newline.  A connection takes Window bytes that are not read.   *)
(***************************************************************************)
EXTENDS Naturals, SequencesExt

CONSTANTS Subscribers,  \* processes that run sensor_subscribe once
          Workers,      \* threads that broadcast
          LineBytes,    \* length of a line with its newline
          Window,       \* bytes a connection takes before it is full
          Count,        \* the lines a subscriber asks for (-n)
          MaxLines      \* bound on the lines broadcast

ASSUME TcpAssumption ==
    /\ \A n \in {LineBytes, Window, Count, MaxLines} : n \in Nat \ {0}
    /\ "none" \notin Workers

VARIABLES backlog,  \* connections waiting for accept4
          clients,  \* clients_
          holder,   \* the worker that holds mutex_, or "none"
          it,       \* the position of each worker in clients_
          line,     \* the line each worker broadcasts, or 0
          taken,    \* number of lines given to workers
          up,       \* the daemon runs
          link,     \* each connection: "none", "open", "closed" by the
                    \* daemon, "left" by the subscriber
          wire,     \* the bytes sent to it and not yet read
          pending,  \* the subscriber's pending
          printed,  \* the lines it has printed
          status,   \* "running", then how it ended: "ok" or "failed"
          due       \* the clients this broadcast has still to serve

serverVars == <<backlog, clients, up>>
castVars == <<holder, it, line, taken, due>>
subVars == <<pending, printed, status>>
tcpVars == <<serverVars, castVars, link, wire, subVars>>

LineOf(n) == [i \in 1..LineBytes |-> <<n, i>>]
IsNewline(byte) == byte[2] = LineBytes
Room(s) == Window - Len(wire[s])

Init ==
    /\ backlog = <<>> /\ clients = <<>> /\ up = TRUE
    /\ holder = "none" /\ taken = 0 /\ due = {}
    /\ line = [w \in Workers |-> 0] /\ it = [w \in Workers |-> 1]
    /\ link = [s \in Subscribers |-> "none"]
    /\ wire = [s \in Subscribers |-> <<>>]
    /\ pending = [s \in Subscribers |-> <<>>]
    /\ printed = [s \in Subscribers |-> <<>>]
    /\ status = [s \in Subscribers |-> "running"]

-----------------------------------------------------------------------------
(* The main thread: accept_ready, which takes the mutex for each client. *)
AcceptReady ==
    /\ up /\ backlog # <<>> /\ holder = "none"
    /\ clients' = Append(clients, Head(backlog))
    /\ backlog' = Tail(backlog)
    /\ UNCHANGED <<up, castVars, link, wire, subVars>>

(***************************************************************************)
(* accept4 fails with anything but EAGAIN (no descriptor is left, say):    *)
(* the exception ends the daemon, and with it every connection.            *)
(***************************************************************************)
AcceptThrows ==
    /\ up /\ backlog # <<>>
    /\ up' = FALSE /\ backlog' = <<>> /\ clients' = <<>>
    /\ holder' = "none" /\ due' = {}
    /\ link' = [s \in Subscribers |->
                    IF link[s] = "open" THEN "closed" ELSE link[s]]
    /\ UNCHANGED <<it, line, taken, wire, subVars>>

-----------------------------------------------------------------------------
(* A worker has popped a sample and calls broadcast_line. *)
WorkerTakes(w) ==
    /\ up /\ line[w] = 0 /\ taken < MaxLines
    /\ taken' = taken + 1
    /\ line' = [line EXCEPT ![w] = taken + 1]
    /\ UNCHANGED <<serverVars, holder, it, due, link, wire, subVars>>

Lock(w) ==
    /\ up /\ line[w] # 0 /\ holder = "none"
    /\ holder' = w /\ due' = Range(clients)
    /\ UNCHANGED <<serverVars, it, line, taken, link, wire, subVars>>

(* The loop runs under mutex_.  Mutant: there is no lock_guard. *)
HoldsNothing(w) == line[w] # 0
HoldsMutex(w) == holder = w

(***************************************************************************)
(* What send does: with room it takes as much of the line as fits, without *)
(* it fails with EAGAIN; once the subscriber has left it fails, or still   *)
(* succeeds if the reset has not arrived.                                  *)
(* Mutant: a blocking socket waits for room for the whole line.            *)
(***************************************************************************)
SendBlocking(s, n) ==
    IF link[s] = "left" THEN n = 0
    ELSE n = LineBytes /\ Room(s) >= LineBytes

Send(s, n) ==
    IF link[s] = "left" THEN n \in {0, LineBytes}
    ELSE n = IF Room(s) < LineBytes THEN Room(s) ELSE LineBytes

(***************************************************************************)
(* What the loop does with the result: EAGAIN and a whole line keep the    *)
(* client, anything else erases it, which closes its descriptor.           *)
(* Mutant: a short send keeps the client.                                  *)
(***************************************************************************)
KeepsShort(s, n) == link[s] # "left" \/ n > 0
Keeps(s, n) == n = LineBytes \/ (link[s] # "left" /\ n = 0)

(* The next position.  Mutant: the iterator moves on after an erase too. *)
AdvanceAlways(w, keeps) == it' = [it EXCEPT ![w] = @ + 1]
Advance(w, keeps) == it' = [it EXCEPT ![w] = IF keeps THEN @ + 1 ELSE @]

SendLine(w) ==
    /\ up /\ HoldsMutex(w) /\ it[w] <= Len(clients)
    /\ LET s == clients[it[w]]
       IN  \E n \in 0..LineBytes :
            /\ Send(s, n)
            /\ wire' = [wire EXCEPT ![s] =
                    IF link[s] = "left" THEN @
                    ELSE @ \o SubSeq(LineOf(line[w]), 1, n)]
            /\ Advance(w, Keeps(s, n))
            /\ due' = due \ {s}
            /\ IF Keeps(s, n) THEN UNCHANGED <<clients, link>>
               ELSE /\ clients' = RemoveAt(clients, it[w])
                    /\ link' = [link EXCEPT ![s] =
                            IF @ = "open" THEN "closed" ELSE @]
    /\ UNCHANGED <<backlog, up, holder, line, taken, subVars>>

Unlock(w) ==
    /\ up /\ HoldsMutex(w) /\ it[w] > Len(clients)
    /\ holder' = "none"
    /\ line' = [line EXCEPT ![w] = 0] /\ it' = [it EXCEPT ![w] = 1]
    /\ UNCHANGED <<serverVars, taken, due, link, wire, subVars>>

-----------------------------------------------------------------------------
(* sensor_subscribe: connect, which the kernel completes before accept4. *)
Connect(s) ==
    /\ up /\ status[s] = "running" /\ link[s] = "none"
    /\ link' = [link EXCEPT ![s] = "open"]
    /\ backlog' = Append(backlog, s)
    /\ UNCHANGED <<clients, up, castVars, wire, subVars>>

(* The ends of lines in what was read and not yet printed. *)
Newlines(s) == {i \in DOMAIN pending[s] : IsNewline(pending[s][i])}

(* One read, of whatever part of the stream has arrived. *)
Read(s) ==
    /\ status[s] = "running" /\ link[s] \in {"open", "closed"}
    /\ Newlines(s) = {}
    /\ \E n \in 1..Len(wire[s]) :
        /\ pending' = [pending EXCEPT ![s] = @ \o SubSeq(wire[s], 1, n)]
        /\ wire' = [wire EXCEPT ![s] = SubSeq(@, n + 1, Len(@))]
    /\ UNCHANGED <<serverVars, castVars, link, printed, status>>

(* One turn of the inner loop prints a line; after count lines main ends. *)
PrintLine(s) ==
    /\ status[s] = "running" /\ Newlines(s) # {}
    /\ LET pos == Min(Newlines(s))
           done == Len(printed[s]) + 1 = Count
       IN  /\ printed' = [printed EXCEPT ![s] = Append(@, SubSeq(pending[s], 1, pos))]
           /\ pending' = [pending EXCEPT ![s] = SubSeq(@, pos + 1, Len(@))]
           /\ status' = [status EXCEPT ![s] = IF done THEN "ok" ELSE @]
           /\ link' = [link EXCEPT ![s] = IF done THEN "left" ELSE @]
    /\ UNCHANGED <<serverVars, castVars, wire>>

(* read returns 0, connect is refused, or the process is killed. *)
Fails(s) ==
    /\ status[s] = "running"
    /\ \/ link[s] = "closed" /\ wire[s] = <<>> /\ Newlines(s) = {}
       \/ link[s] = "none" /\ ~up
       \/ link[s] = "open"
    /\ status' = [status EXCEPT ![s] = "failed"]
    /\ link' = [link EXCEPT ![s] = "left"]
    /\ UNCHANGED <<serverVars, castVars, wire, pending, printed>>

Worker(w) == Lock(w) \/ SendLine(w) \/ Unlock(w)

(* The lines of the instance are broadcast, or the daemon is gone. *)
Finished ==
    /\ ~up \/ (taken = MaxLines /\ \A w \in Workers : line[w] = 0)
    /\ \A s \in Subscribers : status[s] # "running"
    /\ UNCHANGED tcpVars

Next ==
    \/ AcceptReady \/ AcceptThrows \/ Finished
    \/ \E w \in Workers : WorkerTakes(w) \/ Worker(w)
    \/ \E s \in Subscribers : Connect(s) \/ Read(s) \/ PrintLine(s) \/ Fails(s)

Spec == Init /\ [][Next]_tcpVars

(* A worker that can run does; nothing is assumed of the subscribers. *)
FairSpec == Spec /\ \A w \in Workers : WF_tcpVars(Worker(w))

-----------------------------------------------------------------------------
(* All that was sent to a subscriber. *)
Received(s) == FlattenSeq(printed[s]) \o pending[s] \o wire[s]

(***************************************************************************)
(* A subscriber's stream consists of whole lines, each at most once; only  *)
(* its end may be part of a line, and then broadcast_line has dropped the  *)
(* client.  So sensor_subscribe never prints a line that was not sent.     *)
(***************************************************************************)
StreamOfWholeLines ==
    \A s \in Subscribers :
        LET bytes == Received(s)
            whole == Len(bytes) \div LineBytes
        IN  /\ \A i \in DOMAIN bytes : bytes[i] =
                    <<bytes[((i - 1) \div LineBytes) * LineBytes + 1][1],
                      ((i - 1) % LineBytes) + 1>>
            /\ Cardinality({bytes[i] : i \in DOMAIN bytes}) = Len(bytes)
            /\ Contains(clients, s) => Len(bytes) = whole * LineBytes
            /\ \A i \in DOMAIN printed[s] : Len(printed[s][i]) = LineBytes

(***************************************************************************)
(* Subscribers may miss lines, and workers may broadcast out of order, but *)
(* no two subscribers see two lines in different orders: mutex_ is held    *)
(* for a whole broadcast.                                                  *)
(***************************************************************************)
Before(s, m, n) ==
    \E i, j \in DOMAIN Received(s) :
        i < j /\ Received(s)[i] = <<m, 1>> /\ Received(s)[j] = <<n, 1>>

SameOrderEverywhere ==
    \A s, t \in Subscribers, m, n \in 1..taken :
        ~(Before(s, m, n) /\ Before(t, n, m))

(***************************************************************************)
(* A broadcast offers its line to every client it found, also when it      *)
(* erases clients on the way.                                              *)
(***************************************************************************)
EveryClientServed == holder = "none" => due = {}

(***************************************************************************)
(* No subscriber, however slow, holds up a worker: broadcast_line returns. *)
(***************************************************************************)
BroadcastReturns ==
    \A w \in Workers : line[w] # 0 ~> (line[w] = 0 \/ ~up)
=============================================================================
