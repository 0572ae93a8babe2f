--------------------------- MODULE ControlServer ---------------------------
(***************************************************************************)
(* The control connections of sensorhubd: ControlServer                    *)
(* (userspace/src/net/control_server.cpp) on top of EpollLoop              *)
(* (userspace/src/reactor/epoll_loop.cpp), against peers that send byte by *)
(* byte, stop reading, half-close and disconnect at any time.              *)
(*                                                                         *)
(* All callbacks run in one thread, so the interleaving is with the peers  *)
(* and with the kernel: every epoll_wait, accept4, recv and send is a      *)
(* step.  Descriptor numbers are reused; the id of a connection, which     *)
(* the code does not have, tells two users of one number apart.  A byte is *)
(* a newline or some other character; a reply is its length.               *)
(***************************************************************************)
EXTENDS Naturals, Sequences, FiniteSetsExt, Functions

CONSTANTS Fds,        \* descriptor numbers for accepted connections, of
                      \* which accept4 takes the lowest free one
          MaxClients, \* 64 in add_client
          MaxEvents,  \* 32 in run_once
          Limit,      \* 127 in ready; its buffer holds one byte more
          ReplySize,  \* length of a reply, but for the "ok" to shutdown
          Window,     \* what a peer takes in before it has to read
          MaxConns,   \* bound on the connections
          MaxBytes    \* bound on the bytes the peers send

ASSUME ControlAssumption ==
    /\ Fds \subseteq Nat \ {0} /\ IsFiniteSet(Fds)
    /\ Cardinality(Fds) > MaxClients
    /\ \A n \in {MaxClients, MaxEvents, ReplySize, Window} : n \in Nat \ {0}
    /\ Limit \in Nat /\ MaxConns \in Nat /\ MaxBytes \in Nat

VARIABLES backlog,    \* connections waiting for accept4
          made,       \* number of connections made so far
          bytes,      \* number of bytes sent so far
          conn,       \* the open connections, by descriptor
          clients,    \* clients_
          callbacks,  \* callbacks_, with the events of interest
          phase,      \* where the thread is
          events,     \* the events of this epoll_wait not yet dispatched
          active,     \* the event being handled (or Listening, if none is)
          running     \* the flag of main's loop, cleared by shutdown

peerVars == <<backlog, made, bytes>>
serverVars == <<clients, callbacks, phase, events, active, running>>
controlVars == <<peerVars, conn, serverVars>>

(* The event of the listening socket, on no number of Fds. *)
Listening == [fd |-> 0, id |-> 0, hup |-> FALSE]
Extend(f, x, y) == [z \in DOMAIN f \union {x} |-> IF z = x THEN y ELSE f[z]]
Without(f, x) == Restrict(f, DOMAIN f \ {x})

(* The bytes a peer has sent, received or not. *)
Stream(f) == clients[f].request \o conn[f].inbox

Init ==
    /\ backlog = 0 /\ made = 0 /\ bytes = 0
    /\ conn = <<>> /\ clients = <<>> /\ callbacks = <<>>
    /\ phase = "wait" /\ events = {} /\ active = Listening
    /\ running = TRUE

-----------------------------------------------------------------------------
(* What peers do: connect, send a byte, read, half-close, disconnect. *)
Connect ==
    /\ made < MaxConns /\ phase # "destroyed"
    /\ made' = made + 1 /\ backlog' = backlog + 1
    /\ UNCHANGED <<bytes, conn, serverVars>>

PeerDoes(f, new) ==
    /\ conn' = [conn EXCEPT ![f] = new]
    /\ UNCHANGED <<backlog, made, serverVars>>

PeerSends(f, byte) ==
    /\ ~conn[f].shut /\ bytes < MaxBytes
    /\ bytes' = bytes + 1
    /\ PeerDoes(f, [conn[f] EXCEPT !.inbox = Append(@, byte)])

PeerReads(f) ==
    /\ ~conn[f].gone /\ conn[f].room < Window
    /\ PeerDoes(f, [conn[f] EXCEPT !.room = Window])
    /\ UNCHANGED bytes

PeerShuts(f) ==
    /\ ~conn[f].shut
    /\ PeerDoes(f, [conn[f] EXCEPT !.shut = TRUE])
    /\ UNCHANGED bytes

PeerLeaves(f) ==
    /\ ~conn[f].gone
    /\ PeerDoes(f, [conn[f] EXCEPT !.shut = TRUE, !.gone = TRUE])
    /\ UNCHANGED bytes

-----------------------------------------------------------------------------
(* EpollLoop: add for EPOLLIN, modify to EPOLLOUT, remove. *)
Add(f) == callbacks' = Extend(callbacks, f, "in")
Modify(f) == callbacks' = [callbacks EXCEPT ![f] = "out"]
Remove(f) == callbacks' = Without(callbacks, f)

(***************************************************************************)
(* epoll_wait reports up to MaxEvents of the descriptors that are ready    *)
(* (level-triggered), none when its timeout passes; EPOLLHUP is reported   *)
(* whatever the interest.                                                  *)
(***************************************************************************)
Reported(f) ==
    \/ conn[f].gone
    \/ callbacks[f] = "in" /\ (conn[f].inbox # <<>> \/ conn[f].shut)
    \/ callbacks[f] = "out" /\ conn[f].room > 0

Ready ==
    {[fd |-> f, id |-> conn[f].id, hup |-> conn[f].gone] :
        f \in {g \in DOMAIN callbacks : Reported(g)}}
    \union IF backlog > 0 THEN {Listening} ELSE {}

EpollWait ==
    /\ phase = "wait"
    /\ \E reported \in SUBSET Ready :
        /\ Cardinality(reported) <= MaxEvents
        /\ reported = Ready \/ Cardinality(reported) = MaxEvents
        /\ events' = reported
    /\ phase' = "dispatch"
    /\ UNCHANGED <<peerVars, conn, clients, callbacks, active, running>>

(***************************************************************************)
(* run_once calls the callback of each event; ready() looks the client up  *)
(* with clients_.at, which throws if there is none.                        *)
(***************************************************************************)
Dispatch(e) ==
    /\ phase = "dispatch" /\ e \in events
    /\ events' = events \ {e}
    /\ active' = e
    /\ phase' = IF e = Listening THEN "accept"
                ELSE IF e.fd \notin DOMAIN callbacks THEN "dispatch"
                ELSE IF e.fd \notin DOMAIN clients THEN "out_of_range"
                ELSE IF clients[e.fd].responding THEN "send" ELSE "recv"
    /\ UNCHANGED <<peerVars, conn, clients, callbacks, running>>

RunOnceEnds ==
    /\ phase = "dispatch" /\ events = {}
    /\ phase' = (IF running THEN "wait" ELSE "stopped") /\ active' = Listening
    /\ UNCHANGED <<peerVars, conn, clients, callbacks, events, running>>

(* main returns: ~ControlServer removes every client and closes it. *)
Destroy ==
    /\ phase = "stopped"
    /\ conn' = <<>> /\ clients' = <<>> /\ callbacks' = <<>>
    /\ phase' = "destroyed"
    /\ UNCHANGED <<peerVars, events, active, running>>

(***************************************************************************)
(* One round of accept_ready: a connection beyond the limit is closed at   *)
(* once.  Mutants: the limit is off by one; it evicts another client.      *)
(***************************************************************************)
FullLate == Cardinality(DOMAIN clients) > MaxClients
Full == Cardinality(DOMAIN clients) >= MaxClients

NewConnection == [id |-> made - backlog + 1, inbox |-> <<>>, room |-> Window,
                  shut |-> FALSE, gone |-> FALSE]
NewClient == [request |-> <<>>, reply |-> "none", sent |-> 0, calls |-> 0,
              responding |-> FALSE]

AddClientEvicts(f) ==
    \E old \in DOMAIN clients \union {f} :
        /\ old = f <=> ~Full
        /\ conn' = Extend(Without(conn, old), old, NewConnection)
        /\ clients' = Extend(Without(clients, old), old, NewClient)
        /\ callbacks' = Extend(Without(callbacks, old), old, "in")

AddClient(f) ==
    IF Full THEN UNCHANGED <<conn, clients, callbacks>>
    ELSE /\ conn' = Extend(conn, f, NewConnection)
         /\ clients' = Extend(clients, f, NewClient)
         /\ Add(f)

LowestFree == Min(Fds \ DOMAIN conn)

AcceptReady ==
    /\ phase = "accept"
    /\ \/ /\ backlog = 0
          /\ phase' = "dispatch"
          /\ UNCHANGED <<backlog, conn, clients, callbacks>>
       \/ /\ backlog > 0
          /\ backlog' = backlog - 1
          /\ AddClient(LowestFree)
          /\ UNCHANGED phase
    /\ UNCHANGED <<made, bytes, events, active, running>>

CloseClient(f) ==
    /\ conn' = Without(conn, f)
    /\ clients' = Without(clients, f)
    /\ Remove(f)
    /\ phase' = "dispatch"

-----------------------------------------------------------------------------
(***************************************************************************)
(* What ready() makes of the bytes received so far.                        *)
(* Mutant: a newline anywhere ends a command.                              *)
(***************************************************************************)
VerdictAnyNewline(request) ==
    IF \E i \in DOMAIN request : request[i] = "newline" THEN "answer"
    ELSE IF Len(request) > Limit THEN "too_long" ELSE "none"

Verdict(request) ==
    IF \E i \in DOMAIN request : request[i] = "newline" /\ i - 1 <= Limit
        THEN "answer"
    ELSE IF Len(request) > Limit THEN "too_long" ELSE "none"

(***************************************************************************)
(* One recv of the loop, which goes on until there is a verdict or no      *)
(* byte.  A complete command is handed to the handler: shutdown clears     *)
(* running, and its reply is "ok".                                         *)
(***************************************************************************)
RecvData(f) ==
    LET n == IF Len(conn[f].inbox) > Limit THEN Limit + 1
             ELSE Len(conn[f].inbox)
        request == clients[f].request \o SubSeq(conn[f].inbox, 1, n)
        verdict == Verdict(request)
    IN  /\ conn[f].inbox # <<>>
        /\ conn' = [conn EXCEPT ![f].inbox = SubSeq(@, n + 1, Len(@))]
        /\ \E reply \in IF verdict = "answer" THEN {"answer", "shutdown"}
                        ELSE {verdict} :
            /\ clients' = [clients EXCEPT
                    ![f].request = request, ![f].reply = reply,
                    ![f].calls = IF verdict = "answer" THEN @ + 1 ELSE @,
                    ![f].responding = (verdict # "none")]
            /\ running' = (running /\ reply # "shutdown")
        /\ phase' = IF verdict = "none" THEN "recv" ELSE "send"
        /\ UNCHANGED callbacks

Size(f) == IF clients[f].reply = "shutdown" THEN 1 ELSE ReplySize

(* recv says that there is nothing yet. *)
RecvNothing(f) ==
    /\ conn[f].inbox = <<>> /\ ~conn[f].shut
    /\ IF active.hup THEN CloseClient(f)
       ELSE phase' = "dispatch" /\ UNCHANGED <<conn, clients, callbacks>>

(* The peer has closed its side.  Mutant: recv's 0 is taken for nothing. *)
RecvEndIgnored(f) ==
    /\ conn[f].inbox = <<>> /\ conn[f].shut
    /\ phase' = "dispatch" /\ UNCHANGED <<conn, clients, callbacks>>

RecvEnd(f) == conn[f].inbox = <<>> /\ conn[f].shut /\ CloseClient(f)

(* One send of the loop: all that the peer has room for. *)
SendSome(f) ==
    LET left == Size(f) - clients[f].sent
        n == IF left < conn[f].room THEN left ELSE conn[f].room
    IN  /\ left > 0 /\ ~conn[f].gone /\ n > 0
        /\ clients' = [clients EXCEPT ![f].sent = @ + n]
        /\ conn' = [conn EXCEPT ![f].room = @ - n]
        /\ UNCHANGED <<callbacks, phase>>

(***************************************************************************)
(* EAGAIN: wait for EPOLLOUT.  Mutant: the connection is given up.         *)
(***************************************************************************)
SendGivesUp(f) ==
    /\ clients[f].sent < Size(f) /\ ~conn[f].gone /\ conn[f].room = 0
    /\ CloseClient(f)

SendBlocks(f) ==
    /\ clients[f].sent < Size(f) /\ ~conn[f].gone /\ conn[f].room = 0
    /\ IF active.hup THEN CloseClient(f)
       ELSE /\ Modify(f)
            /\ phase' = "dispatch"
            /\ UNCHANGED <<conn, clients>>

SendFails(f) == clients[f].sent < Size(f) /\ conn[f].gone /\ CloseClient(f)

SendEnds(f) == clients[f].sent = Size(f) /\ CloseClient(f)

-----------------------------------------------------------------------------
Handle(f) ==
    /\ active.fd = f
    /\ \/ phase = "recv" /\ RecvData(f)
       \/ /\ \/ phase = "recv" /\ (RecvNothing(f) \/ RecvEnd(f))
             \/ phase = "send" /\ (SendSome(f) \/ SendBlocks(f)
                                      \/ SendFails(f) \/ SendEnds(f))
          /\ UNCHANGED running
    /\ UNCHANGED <<peerVars, events, active>>

Peer(f) ==
    \/ \E byte \in {"newline", "other"} : PeerSends(f, byte)
    \/ PeerReads(f) \/ PeerShuts(f) \/ PeerLeaves(f)

Server ==
    \/ EpollWait
    \/ \E e \in events : Dispatch(e)
    \/ RunOnceEnds \/ Destroy
    \/ AcceptReady
    \/ \E f \in DOMAIN conn : Handle(f)

Next ==
    \/ Connect \/ (\E f \in DOMAIN conn : Peer(f)) \/ Server
    \/ phase = "destroyed" /\ UNCHANGED controlVars

Spec == Init /\ [][Next]_controlVars

(***************************************************************************)
(* The daemon's thread keeps running, and a peer keeps reading its reply   *)
(* (one that does not keeps its place among the clients for good: the code *)
(* has no timeout).                                                        *)
(***************************************************************************)
FairSpec ==
    /\ Spec /\ WF_controlVars(Server)
    /\ \A f \in Fds : WF_controlVars(f \in DOMAIN conn /\ PeerReads(f))

-----------------------------------------------------------------------------
Byte == {"newline", "other"}

(* No more than MaxClients control connections are kept (add_client). *)
TypeOK ==
    /\ backlog \in 0..MaxConns /\ made \in 0..MaxConns /\ bytes \in 0..MaxBytes
    /\ DOMAIN conn \subseteq Fds /\ Cardinality(DOMAIN clients) <= MaxClients
    /\ \A f \in DOMAIN conn :
        conn[f] \in [id : 1..MaxConns, inbox : Seq(Byte), room : 0..Window,
                     shut : BOOLEAN, gone : BOOLEAN]
    /\ \A f \in DOMAIN clients :
        clients[f] \in [request : Seq(Byte), sent : 0..ReplySize, calls : Nat,
                        reply : {"none", "answer", "shutdown", "too_long"},
                        responding : BOOLEAN]
    /\ \A f \in DOMAIN callbacks : callbacks[f] \in {"in", "out"}
    /\ phase \in {"wait", "dispatch", "accept", "recv", "send",
                  "out_of_range", "stopped", "destroyed"}
    /\ running \in BOOLEAN
    /\ Cardinality(events) <= MaxEvents

(***************************************************************************)
(* An event is handled by the connection it was reported for: although     *)
(* callbacks earlier in the batch close descriptors and accept4 reuses     *)
(* their numbers, run_once never hands an event to a later user of the     *)
(* number, and clients_.at in ready() always finds the client.             *)
(***************************************************************************)
EventReachesItsConnection ==
    /\ phase # "out_of_range"
    /\ DOMAIN clients = DOMAIN conn /\ DOMAIN callbacks = DOMAIN conn
    /\ \A e \in (events \union {active}) \ {Listening} :
        e \in events \/ phase \in {"recv", "send"}
            => e.fd \in DOMAIN conn /\ conn[e.fd].id = e.id

(***************************************************************************)
(* How the bytes of a request are cut into recv calls does not change how  *)
(* ready() answers: a command is executed, exactly once, if and only if    *)
(* one of the first Limit + 1 bytes the peer ever sends is a newline.      *)
(***************************************************************************)
CommandFits(stream) ==
    \E i \in 1..(Limit + 1) : i <= Len(stream) /\ stream[i] = "newline"

AnswerIgnoresSegmentation ==
    \A f \in DOMAIN clients :
        clients[f].responding =>
            clients[f].calls = IF CommandFits(Stream(f)) THEN 1 ELSE 0

(***************************************************************************)
(* ready() closes a client whose command it has executed or refused only   *)
(* when the whole reply is sent, unless the peer has disconnected.  Only   *)
(* the end of the daemon cuts other replies short, and never the "ok" to   *)
(* the shutdown command itself.                                            *)
(***************************************************************************)
ClosedAfterWholeReply ==
    [][\A f \in DOMAIN clients :
        /\ clients[f].responding /\ ~conn[f].gone
        /\ f \in DOMAIN clients' => conn'[f].id # conn[f].id
        => \/ clients[f].sent = Size(f)
           \/ phase = "stopped" /\ clients[f].reply # "shutdown"]_controlVars

(***************************************************************************)
(* No place among the clients leaks: a connection whose command is         *)
(* complete or too long, or whose peer has closed its side, is eventually  *)
(* closed by ready(), provided its peer reads.                             *)
(***************************************************************************)
Has(id) == \E f \in DOMAIN conn : conn[f].id = id

Due(id) ==
    \E f \in DOMAIN conn :
        /\ conn[f].id = id
        /\ \/ CommandFits(Stream(f)) \/ Len(Stream(f)) > Limit
           \/ conn[f].shut

DueIsClosed == \A id \in 1..MaxConns : Due(id) ~> ~Has(id)
=============================================================================
