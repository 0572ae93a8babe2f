------------------------- MODULE ControlServerProofs -------------------------
(***************************************************************************)
(* Proofs about ControlServer for every set of descriptors, every limit on *)
(* clients, events and request length, and every peer: its type, that an   *)
(* event reaches the connection it was reported for, that the cutting of a *)
(* request into recv calls does not matter, and that no client is closed   *)
(* in the middle of a reply.                                               *)
(***************************************************************************)
EXTENDS ControlServer, FiniteSetTheorems, SequenceTheorems,
        WellFoundedInduction, TLAPS

ConnType == [id : 1..MaxConns, inbox : Seq(Byte), room : 0..Window,
             shut : BOOLEAN, gone : BOOLEAN]
ClientType == [request : Seq(Byte), sent : 0..ReplySize, calls : Nat,
               reply : {"none", "answer", "shutdown", "too_long"},
               responding : BOOLEAN]

(* The sizes the code has as literals are positive. *)
LEMMA Sizes ==
    /\ MaxClients \in Nat \ {0} /\ MaxEvents \in Nat \ {0}
    /\ ReplySize \in Nat \ {0} /\ Window \in Nat \ {0}
BY ControlAssumption, Zenon

(* Erasing one entry of a map leaves the others. *)
LEMMA WithoutFacts ==
    ASSUME NEW m, NEW x
    PROVE  /\ DOMAIN Without(m, x) = DOMAIN m \ {x}
           /\ \A z \in DOMAIN m : z # x => Without(m, x)[z] = m[z]
BY DEF Without, Restrict

(* Every set of numbers that is not empty has a least one. *)
LEMMA MinFacts ==
    ASSUME NEW S, S \subseteq Nat, S # {} PROVE Min(S) \in S
<1>1. PICK x \in S : \A y \in S : ~(<<y, x>> \in OpToRel(<, Nat))
  BY WFMin, NatLessThanWellFounded, Zenon
<1>2. \A y \in S : y < x => <<y, x>> \in OpToRel(<, Nat)
  BY Zenon DEF OpToRel
<1>3. \A y \in S : ~(y < x)
  BY <1>1, <1>2, Zenon
<1>4. \A y \in S : x <= y
  BY <1>3
<1> QED
  BY <1>4, Zenon DEF Min

(* The event e is for an open connection, and that connection's own. *)
Reports(e) ==
    /\ e.fd \in DOMAIN conn
    /\ conn[e.fd].id = e.id
    /\ e.hup => conn[e.fd].gone

(***************************************************************************)
(* The strengthening of EventReachesItsConnection: a batch has one event   *)
(* per descriptor, and the one being handled is not in it any more, so     *)
(* that ready() closes no descriptor with an event still to come.          *)
(***************************************************************************)
Routing ==
    /\ DOMAIN clients = DOMAIN conn /\ DOMAIN callbacks = DOMAIN conn
    /\ phase # "out_of_range"
    /\ \A e \in events : e = Listening \/ Reports(e)
    /\ \A e, d \in events : e.fd = d.fd => e = d
    /\ phase \in {"recv", "send"} =>
        Reports(active) /\ \A e \in events : e.fd # active.fd
    /\ phase \in {"wait", "stopped", "destroyed"} => events = {}

(* The verdict on a request, and how often the handler was called for it. *)
Decided(c) ==
    IF c.responding
    THEN \/ c.calls = 1 /\ CommandFits(c.request)
         \/ c.calls = 0 /\ Len(c.request) > Limit /\ ~CommandFits(c.request)
    ELSE c.calls = 0

(***************************************************************************)
(* What a client has been through.  Before the first byte of the reply the *)
(* peer's window is open, so that the "ok" to shutdown, one byte here, is  *)
(* sent in the round that executes the command: no such client is left     *)
(* when another event is handled.                                          *)
(***************************************************************************)
Conversation ==
    \A f \in DOMAIN clients :
        /\ Decided(clients[f])
        /\ phase = "recv" /\ active.fd = f => ~clients[f].responding
        /\ clients[f].sent = 0 => conn[f].room = Window
        /\ clients[f].reply = "shutdown" => phase = "send" /\ active.fd = f

(* The strengthening of TypeOK. *)
Types == TypeOK /\ backlog <= made /\ IsFiniteSet(events)

(* The descriptors of the clients are finitely many. *)
LEMMA FiniteDomains ==
    ASSUME TypeOK, Routing
    PROVE  /\ IsFiniteSet(DOMAIN conn) /\ IsFiniteSet(DOMAIN clients)
           /\ Cardinality(DOMAIN clients) \in Nat
BY ControlAssumption, FS_Subset, FS_CardinalityType DEF TypeOK, Routing

(* There are more descriptors than clients: accept4 finds a free one. *)
LEMMA LowestFreeIsFree ==
    ASSUME TypeOK, Routing, ~Full
    PROVE  LowestFree \in Fds \ DOMAIN conn
<1>1. Fds # DOMAIN conn
  <2>1. Cardinality(DOMAIN conn) < Cardinality(Fds)
    <3>1. /\ Cardinality(DOMAIN conn) \in Nat /\ Cardinality(Fds) \in Nat
          /\ DOMAIN conn = DOMAIN clients
      BY FiniteDomains, ControlAssumption, FS_CardinalityType DEF Routing
    <3> QED
      BY <3>1, Sizes, ControlAssumption DEF Full
  <2>2. Cardinality(Fds) \in Nat
    BY ControlAssumption, FS_CardinalityType
  <2> QED
    BY <2>1, <2>2
<1>2. Fds \ DOMAIN conn # {} /\ Fds \ DOMAIN conn \subseteq Nat
  BY <1>1, ControlAssumption, Zenon DEF TypeOK
<1> QED
  BY <1>2, MinFacts DEF LowestFree

-----------------------------------------------------------------------------
(* The fields of a connection change one by one. *)
LEMMA ConnUpdates ==
    ASSUME NEW c \in ConnType
    PROVE  /\ \A r \in 0..Window : [c EXCEPT !.room = r] \in ConnType
           /\ \A s \in Seq(Byte) : [c EXCEPT !.inbox = s] \in ConnType
           /\ [c EXCEPT !.shut = TRUE] \in ConnType
           /\ [c EXCEPT !.shut = TRUE, !.gone = TRUE] \in ConnType
<1>1. ASSUME NEW r \in 0..Window PROVE [c EXCEPT !.room = r] \in ConnType
  BY DEF ConnType
<1>2. ASSUME NEW s \in Seq(Byte) PROVE [c EXCEPT !.inbox = s] \in ConnType
  BY DEF ConnType
<1>3. [c EXCEPT !.shut = TRUE] \in ConnType
  BY Zenon DEF ConnType
<1>4. [c EXCEPT !.shut = TRUE, !.gone = TRUE] \in ConnType
  BY Zenon DEF ConnType
<1> QED
  BY <1>1, <1>2, <1>3, <1>4

(* What a peer can do to its connection, and what it cannot. *)
LEMMA PeerStep ==
    ASSUME TypeOK, NEW f \in DOMAIN conn, Peer(f)
    PROVE  /\ UNCHANGED <<backlog, made, serverVars>>
           /\ bytes' \in 0..MaxBytes
           /\ DOMAIN conn' = DOMAIN conn
           /\ \A g \in DOMAIN conn :
                /\ conn'[g] \in ConnType
                /\ conn'[g].id = conn[g].id
                /\ conn[g].gone => conn'[g].gone
                /\ conn'[g].room = conn[g].room \/ conn'[g].room = Window
<1>1. \A g \in DOMAIN conn : conn[g] \in ConnType
  BY DEF TypeOK, ConnType
<1>2. bytes \in 0..MaxBytes /\ MaxBytes \in Nat /\ Window \in Nat
  BY ControlAssumption, Zenon DEF TypeOK
<1>3. ASSUME NEW new, PeerDoes(f, new), new \in ConnType, new.id = conn[f].id,
             conn[f].gone => new.gone, new.room = conn[f].room \/ new.room = Window,
             bytes' \in 0..MaxBytes
      PROVE  /\ UNCHANGED <<backlog, made, serverVars>>
             /\ bytes' \in 0..MaxBytes
             /\ DOMAIN conn' = DOMAIN conn
             /\ \A g \in DOMAIN conn :
                  /\ conn'[g] \in ConnType
                  /\ conn'[g].id = conn[g].id
                  /\ conn[g].gone => conn'[g].gone
                  /\ conn'[g].room = conn[g].room \/ conn'[g].room = Window
  BY <1>1, <1>3 DEF PeerDoes
<1>4. ASSUME NEW byte \in Byte, PeerSends(f, byte)
      PROVE  /\ [conn[f] EXCEPT !.inbox = Append(@, byte)] \in ConnType
             /\ bytes' \in 0..MaxBytes
  <2>1. conn[f].inbox \in Seq(Byte)
    BY <1>1 DEF ConnType
  <2>2. Append(conn[f].inbox, byte) \in Seq(Byte)
    BY <2>1, AppendProperties
  <2>3. \A s \in Seq(Byte) : [conn[f] EXCEPT !.inbox = s] \in ConnType
    BY <1>1, ConnUpdates, Zenon
  <2>4. [conn[f] EXCEPT !.inbox = Append(@, byte)] \in ConnType
    BY <2>2, <2>3
  <2> QED
    BY <1>2, <1>4, <2>4 DEF PeerSends
<1>5. ASSUME NEW byte \in Byte, PeerSends(f, byte)
      PROVE  PeerDoes(f, [conn[f] EXCEPT !.inbox = Append(@, byte)])
  BY <1>5 DEF PeerSends
<1>6. /\ [conn[f] EXCEPT !.room = Window] \in ConnType
      /\ [conn[f] EXCEPT !.shut = TRUE] \in ConnType
      /\ [conn[f] EXCEPT !.shut = TRUE, !.gone = TRUE] \in ConnType
  <2>1. Window \in 0..Window
    BY <1>2
  <2> QED
    BY <1>1, <2>1, ConnUpdates, Zenon
<1>7. /\ [conn[f] EXCEPT !.room = Window].room = Window
      /\ [conn[f] EXCEPT !.room = Window].id = conn[f].id
      /\ [conn[f] EXCEPT !.room = Window].gone = conn[f].gone
      /\ [conn[f] EXCEPT !.shut = TRUE].room = conn[f].room
      /\ [conn[f] EXCEPT !.shut = TRUE].id = conn[f].id
      /\ [conn[f] EXCEPT !.shut = TRUE].gone = conn[f].gone
      /\ [conn[f] EXCEPT !.shut = TRUE, !.gone = TRUE].room = conn[f].room
      /\ [conn[f] EXCEPT !.shut = TRUE, !.gone = TRUE].id = conn[f].id
      /\ [conn[f] EXCEPT !.shut = TRUE, !.gone = TRUE].gone
      /\ \A byte \in Byte :
          /\ [conn[f] EXCEPT !.inbox = Append(@, byte)].room = conn[f].room
          /\ [conn[f] EXCEPT !.inbox = Append(@, byte)].id = conn[f].id
          /\ [conn[f] EXCEPT !.inbox = Append(@, byte)].gone = conn[f].gone
  BY <1>1 DEF ConnType
<1>8. CASE \E byte \in {"newline", "other"} : PeerSends(f, byte)
  <2>1. PICK byte \in Byte : PeerSends(f, byte)
    BY <1>8 DEF Byte
  <2> QED
    BY <1>3, <1>4, <1>5, <1>7, <2>1, Zenon
<1>9. CASE PeerReads(f) \/ PeerShuts(f)
  BY <1>2, <1>3, <1>6, <1>7, <1>9, Zenon DEF PeerReads, PeerShuts
<1>10. CASE PeerLeaves(f)
  BY <1>2, <1>3, <1>6, <1>7, <1>10, Zenon DEF PeerLeaves
<1> QED
  BY <1>8, <1>9, <1>10 DEF Peer

(***************************************************************************)
(* What a step of ready() comes to: a recv, a send, the end of the         *)
(* handler, or the close of the client and why.                            *)
(***************************************************************************)
LEMMA HandleCases ==
    ASSUME NEW f, Handle(f)
    PROVE  /\ active.fd = f /\ phase \in {"recv", "send"}
           /\ UNCHANGED <<peerVars, events, active>>
           /\ \/ phase = "recv" /\ RecvData(f)
              \/ phase = "send" /\ SendSome(f) /\ UNCHANGED running
              \/ /\ UNCHANGED <<conn, clients, running>> /\ phase' = "dispatch"
                 /\ callbacks' = callbacks \/ Modify(f)
                 /\ phase = "recv" \/ (clients[f].sent < Size(f) /\ conn[f].room = 0)
              \/ /\ CloseClient(f) /\ UNCHANGED running
                 /\ \/ phase = "recv" \/ clients[f].sent = Size(f)
                    \/ conn[f].gone \/ active.hup
BY DEF Handle, RecvNothing, RecvEnd, SendBlocks, SendFails, SendEnds

(* A close forgets the client in all three maps, and no other. *)
LEMMA CloseEffect ==
    ASSUME NEW f, CloseClient(f)
    PROVE  /\ phase' = "dispatch"
           /\ DOMAIN conn' = DOMAIN conn \ {f}
           /\ DOMAIN clients' = DOMAIN clients \ {f}
           /\ DOMAIN callbacks' = DOMAIN callbacks \ {f}
           /\ \A g \in DOMAIN conn : g # f => conn'[g] = conn[g]
           /\ \A g \in DOMAIN clients : g # f => clients'[g] = clients[g]
           /\ \A g \in DOMAIN callbacks : g # f => callbacks'[g] = callbacks[g]
BY WithoutFacts, Zenon DEF CloseClient, Remove

(* A recv moves bytes from the peer into the request, and decides on it. *)
LEMMA RecvEffect ==
    ASSUME TypeOK, Routing, NEW f \in DOMAIN conn, RecvData(f)
    PROVE  \E request \in Seq(Byte), reply \in {"none", "answer", "shutdown", "too_long"} :
            /\ reply = "none" <=> Verdict(request) = "none"
            /\ reply \in {"answer", "shutdown"} <=> Verdict(request) = "answer"
            /\ DOMAIN conn' = DOMAIN conn /\ DOMAIN clients' = DOMAIN clients
            /\ UNCHANGED callbacks
            /\ conn'[f] \in ConnType /\ clients'[f] \in ClientType
            /\ conn'[f].id = conn[f].id /\ conn'[f].gone = conn[f].gone
            /\ conn'[f].room = conn[f].room
            /\ clients'[f].request = request /\ clients'[f].reply = reply
            /\ clients'[f].sent = clients[f].sent
            /\ clients'[f].calls = IF Verdict(request) = "answer"
                                   THEN clients[f].calls + 1 ELSE clients[f].calls
            /\ clients'[f].responding = (Verdict(request) # "none")
            /\ \A g \in DOMAIN conn : g # f => conn'[g] = conn[g] /\ clients'[g] = clients[g]
            /\ phase' = IF Verdict(request) = "none" THEN "recv" ELSE "send"
            /\ running' = (running /\ reply # "shutdown")
<1> DEFINE n == IF Len(conn[f].inbox) > Limit THEN Limit + 1 ELSE Len(conn[f].inbox)
           rest == SubSeq(conn[f].inbox, n + 1, Len(conn[f].inbox))
           part == SubSeq(conn[f].inbox, 1, n)
<1>1. conn[f] \in ConnType /\ clients[f] \in ClientType /\ f \in DOMAIN clients
  BY DEF TypeOK, Routing, ConnType, ClientType
<1>2. /\ conn[f].inbox \in Seq(Byte) /\ clients[f].request \in Seq(Byte)
      /\ clients[f].calls \in Nat
  BY <1>1 DEF ConnType, ClientType
<1>3. Len(conn[f].inbox) \in Nat /\ n \in Nat /\ n <= Len(conn[f].inbox)
  BY <1>2, LenProperties, ControlAssumption
<1>4. part \in Seq(Byte) /\ rest \in Seq(Byte)
  <2> HIDE DEF n
  <2>1. \A i \in 1..Len(conn[f].inbox) : conn[f].inbox[i] \in Byte
    BY <1>2, ElementOfSeq
  <2>2. /\ \A i \in 1..n : conn[f].inbox[i] \in Byte
        /\ \A i \in (n + 1)..Len(conn[f].inbox) : conn[f].inbox[i] \in Byte
    BY <1>3, <2>1
  <2> QED
    BY <1>3, <2>2, SubSeqProperties
<1>5. PICK request \in Seq(Byte) : request = clients[f].request \o part
  BY <1>2, <1>4, ConcatProperties, Zenon
<1>6. PICK verdict \in {"none", "answer", "too_long"} : verdict = Verdict(request)
  BY DEF Verdict
<1>7. conn' = [conn EXCEPT ![f].inbox = rest]
  BY Zenon DEF RecvData
<1>8. PICK reply \in IF verdict = "answer" THEN {"answer", "shutdown"} ELSE {verdict} :
        /\ clients' = [clients EXCEPT
              ![f].request = request, ![f].reply = reply,
              ![f].calls = IF verdict = "answer" THEN @ + 1 ELSE @,
              ![f].responding = (verdict # "none")]
        /\ running' = (running /\ reply # "shutdown")
  BY <1>5, <1>6, Zenon DEF RecvData
<1>9. /\ phase' = IF verdict = "none" THEN "recv" ELSE "send"
      /\ UNCHANGED callbacks
  BY <1>5, <1>6, Zenon DEF RecvData
<1> HIDE DEF n, rest, part
<1>10. PICK calls \in Nat : calls = IF verdict = "answer" THEN clients[f].calls + 1
                                                         ELSE clients[f].calls
  BY <1>2
<1>11. /\ DOMAIN conn' = DOMAIN conn /\ DOMAIN clients' = DOMAIN clients
       /\ conn'[f] = [conn[f] EXCEPT !.inbox = rest]
       /\ \A g \in DOMAIN conn : g # f => conn'[g] = conn[g] /\ clients'[g] = clients[g]
  BY <1>1, <1>7, <1>8 DEF Routing
<1>12. clients'[f] = [clients[f] EXCEPT !.request = request, !.reply = reply,
                          !.calls = calls, !.responding = (verdict # "none")]
  BY <1>1, <1>8, <1>10
<1>13. reply \in {"none", "answer", "shutdown", "too_long"}
  BY <1>6, <1>8
<1>14. conn'[f] \in ConnType
  BY <1>1, <1>4, <1>11, ConnUpdates, Zenon
<1>15. clients'[f] \in ClientType
  BY <1>1, <1>12, <1>13, Zenon DEF ClientType
<1>16. /\ conn'[f].id = conn[f].id /\ conn'[f].gone = conn[f].gone
       /\ conn'[f].room = conn[f].room
  BY <1>1, <1>11 DEF ConnType
<1>17. /\ clients'[f].request = request /\ clients'[f].reply = reply
       /\ clients'[f].sent = clients[f].sent /\ clients'[f].calls = calls
       /\ clients'[f].responding = (verdict # "none")
  BY <1>1, <1>12 DEF ClientType
<1>18. /\ reply = "none" <=> verdict = "none"
       /\ reply \in {"answer", "shutdown"} <=> verdict = "answer"
  BY <1>6, <1>8
<1>19. /\ clients'[f].calls = IF Verdict(request) = "answer"
                              THEN clients[f].calls + 1 ELSE clients[f].calls
       /\ clients'[f].responding = (Verdict(request) # "none")
       /\ phase' = IF Verdict(request) = "none" THEN "recv" ELSE "send"
  BY <1>6, <1>9, <1>10, <1>17
<1>20. running' = (running /\ reply # "shutdown")
  BY <1>8
<1>21. WITNESS request \in Seq(Byte), reply \in {"none", "answer", "shutdown", "too_long"}
<1> QED
  BY <1>6, <1>9, <1>11, <1>14, <1>15, <1>16, <1>17, <1>18, <1>19, <1>20

(* A send hands over at least one byte, and no more than the reply has. *)
LEMMA SendEffect ==
    ASSUME TypeOK, Routing, NEW f \in DOMAIN conn, SendSome(f)
    PROVE  /\ DOMAIN conn' = DOMAIN conn /\ DOMAIN clients' = DOMAIN clients
           /\ UNCHANGED <<callbacks, phase>>
           /\ conn'[f] \in ConnType /\ clients'[f] \in ClientType
           /\ conn'[f].id = conn[f].id /\ conn'[f].gone = conn[f].gone
           /\ clients'[f].sent # 0
           /\ clients'[f].request = clients[f].request
           /\ clients'[f].reply = clients[f].reply
           /\ clients'[f].calls = clients[f].calls
           /\ clients'[f].responding = clients[f].responding
           /\ \A g \in DOMAIN conn : g # f => conn'[g] = conn[g] /\ clients'[g] = clients[g]
<1>1. conn[f] \in ConnType /\ clients[f] \in ClientType /\ f \in DOMAIN clients
  BY DEF TypeOK, Routing, ConnType, ClientType
<1>2. /\ conn[f].room \in 0..Window /\ clients[f].sent \in 0..ReplySize
      /\ Window \in Nat /\ ReplySize \in Nat \ {0} /\ Size(f) \in 1..ReplySize
  BY <1>1, Sizes DEF ConnType, ClientType, Size
<1>3. PICK n \in Nat :
        /\ n > 0 /\ n <= conn[f].room /\ n <= Size(f) - clients[f].sent
        /\ clients' = [clients EXCEPT ![f].sent = @ + n]
        /\ conn' = [conn EXCEPT ![f].room = @ - n]
  <2> DEFINE left == Size(f) - clients[f].sent
             m == IF left < conn[f].room THEN left ELSE conn[f].room
  <2>1. /\ left > 0 /\ m > 0
        /\ clients' = [clients EXCEPT ![f].sent = @ + m]
        /\ conn' = [conn EXCEPT ![f].room = @ - m]
    BY DEF SendSome
  <2>2. m \in Nat /\ m <= conn[f].room /\ m <= left
    BY <1>2, <2>1
  <2> QED
    BY <2>1, <2>2, Zenon
<1>4. PICK s \in 0..ReplySize : s = clients[f].sent + n /\ s # 0
  BY <1>2, <1>3
<1>5. PICK r \in 0..Window : r = conn[f].room - n
  BY <1>2, <1>3
<1>6. /\ DOMAIN conn' = DOMAIN conn /\ DOMAIN clients' = DOMAIN clients
      /\ conn'[f] = [conn[f] EXCEPT !.room = r]
      /\ clients'[f] = [clients[f] EXCEPT !.sent = s]
      /\ \A g \in DOMAIN conn : g # f => conn'[g] = conn[g] /\ clients'[g] = clients[g]
  BY <1>1, <1>3, <1>4, <1>5 DEF Routing
<1>7. conn'[f] \in ConnType /\ conn'[f].id = conn[f].id /\ conn'[f].gone = conn[f].gone
  BY <1>1, <1>5, <1>6 DEF ConnType
<1>8. /\ clients'[f] \in ClientType /\ clients'[f].sent # 0
      /\ clients'[f].request = clients[f].request
      /\ clients'[f].reply = clients[f].reply
      /\ clients'[f].calls = clients[f].calls
      /\ clients'[f].responding = clients[f].responding
  BY <1>1, <1>4, <1>6 DEF ClientType
<1> QED
  BY <1>6, <1>7, <1>8 DEF SendSome

(* A new client gets a number nobody uses; the others are left alone. *)
LEMMA AddEffect ==
    ASSUME TypeOK, Routing, backlog <= made, backlog > 0, AddClient(LowestFree)
    PROVE  \/ UNCHANGED <<conn, clients, callbacks>>
           \/ \E f \in Fds \ DOMAIN conn :
                /\ ~Full
                /\ DOMAIN conn' = DOMAIN conn \union {f}
                /\ DOMAIN clients' = DOMAIN clients \union {f}
                /\ DOMAIN callbacks' = DOMAIN callbacks \union {f}
                /\ conn'[f] \in ConnType /\ conn'[f].room = Window
                /\ clients'[f] = NewClient /\ callbacks'[f] = "in"
                /\ \A g \in DOMAIN conn : /\ conn'[g] = conn[g]
                                          /\ clients'[g] = clients[g]
                                          /\ callbacks'[g] = callbacks[g]
<1>1. CASE Full
  BY <1>1 DEF AddClient
<1>2. CASE ~Full
  <2>1. PICK f \in Fds \ DOMAIN conn : f = LowestFree
    BY <1>2, LowestFreeIsFree
  <2>2. /\ conn' = Extend(conn, f, NewConnection)
        /\ clients' = Extend(clients, f, NewClient)
        /\ callbacks' = Extend(callbacks, f, "in")
    BY <1>2, <2>1 DEF AddClient, Add
  <2>3. NewConnection \in ConnType /\ NewConnection.room = Window
    <3>1. made - backlog + 1 \in 1..MaxConns /\ Window \in 0..Window
      BY Sizes, ControlAssumption DEF TypeOK
    <3>2. <<>> \in Seq(Byte)
      BY EmptySeq
    <3> QED
      BY <3>1, <3>2 DEF NewConnection, ConnType
  <2> HIDE DEF NewConnection
  <2>4. /\ DOMAIN conn' = DOMAIN conn \union {f}
        /\ DOMAIN clients' = DOMAIN clients \union {f}
        /\ DOMAIN callbacks' = DOMAIN callbacks \union {f}
        /\ conn'[f] = NewConnection /\ clients'[f] = NewClient /\ callbacks'[f] = "in"
        /\ \A g \in DOMAIN conn : /\ conn'[g] = conn[g]
                                  /\ clients'[g] = clients[g]
                                  /\ callbacks'[g] = callbacks[g]
    <3>1. DOMAIN clients = DOMAIN conn /\ DOMAIN callbacks = DOMAIN conn
      BY DEF Routing
    <3>2. /\ DOMAIN conn' = DOMAIN conn \union {f} /\ conn'[f] = NewConnection
          /\ \A g \in DOMAIN conn : conn'[g] = conn[g]
      BY <2>1, <2>2 DEF Extend
    <3>3. /\ DOMAIN clients' = DOMAIN clients \union {f} /\ clients'[f] = NewClient
          /\ \A g \in DOMAIN conn : clients'[g] = clients[g]
      BY <2>1, <2>2, <3>1 DEF Extend
    <3>4. /\ DOMAIN callbacks' = DOMAIN callbacks \union {f} /\ callbacks'[f] = "in"
          /\ \A g \in DOMAIN conn : callbacks'[g] = callbacks[g]
      BY <2>1, <2>2, <3>1 DEF Extend
    <3> QED
      BY <3>2, <3>3, <3>4
  <2> QED
    BY <1>2, <2>3, <2>4
<1> QED
  BY <1>1, <1>2, Zenon

(* What epoll_wait reports are events of open connections, one for each. *)
LEMMA ReadyEvents ==
    ASSUME TypeOK, Routing
    PROVE  /\ \A e \in Ready : e = Listening \/ Reports(e)
           /\ \A e, d \in Ready : e.fd = d.fd => e = d
           /\ IsFiniteSet(Ready)
<1> DEFINE Event(f) == [fd |-> f, id |-> conn[f].id, hup |-> conn[f].gone]
           D == {g \in DOMAIN callbacks : Reported(g)}
           R == {Event(f) : f \in D}
<1>1. D \subseteq DOMAIN conn /\ IsFiniteSet(D)
  BY FiniteDomains, FS_Subset DEF Routing
<1>2. Ready = R \union IF backlog > 0 THEN {Listening} ELSE {}
  BY DEF Ready
<1>3. \A f \in D : Event(f).fd = f /\ Event(f).id = conn[f].id /\ Event(f).hup = conn[f].gone
  OBVIOUS
<1>4. Listening.fd = 0 /\ 0 \notin DOMAIN conn
  BY ControlAssumption DEF Listening, TypeOK
<1> HIDE DEF Event, D
<1>5. \A e \in R : \E f \in D : e = Event(f)
  OBVIOUS
<1>6. \A e \in R : Reports(e)
  BY <1>1, <1>3, <1>5 DEF Reports
<1>7. \A e, d \in R : e.fd = d.fd => e = d
  BY <1>3, <1>5
<1>8. \A e \in R : e.fd # 0
  BY <1>1, <1>3, <1>4, <1>5
<1>9. IsFiniteSet(R)
  <2>1. [f \in D |-> Event(f)] \in Surjection(D, R)
    BY DEF Surjection
  <2> QED
    BY <1>1, <2>1, FS_Surjection
<1> HIDE DEF R
<1>10. IsFiniteSet(R \union {Listening})
  BY <1>9, FS_AddElement
<1>11. IsFiniteSet(Ready)
  BY <1>2, <1>9, <1>10
<1> QED
  BY <1>2, <1>4, <1>6, <1>7, <1>8, <1>11

-----------------------------------------------------------------------------
(* The part of the type that is about one client or one number. *)
LEMMA TypesOfEntries ==
    TypeOK <=>
    /\ backlog \in 0..MaxConns /\ made \in 0..MaxConns /\ bytes \in 0..MaxBytes
    /\ DOMAIN conn \subseteq Fds /\ Cardinality(DOMAIN clients) <= MaxClients
    /\ \A f \in DOMAIN conn : conn[f] \in ConnType
    /\ \A f \in DOMAIN clients : clients[f] \in ClientType
    /\ \A f \in DOMAIN callbacks : callbacks[f] \in {"in", "out"}
    /\ phase \in {"wait", "dispatch", "accept", "recv", "send",
                  "out_of_range", "stopped", "destroyed"}
    /\ running \in BOOLEAN
    /\ Cardinality(events) <= MaxEvents
BY DEF TypeOK, ConnType, ClientType

(* Every step keeps the type. *)
LEMMA NextTypes == Types /\ Routing /\ [Next]_controlVars => Types'
<1> SUFFICES ASSUME Types, Routing, [Next]_controlVars PROVE Types'
  OBVIOUS
<1> USE DEF Types
<1>0. /\ MaxClients \in Nat /\ MaxEvents \in Nat /\ MaxConns \in Nat
      /\ backlog \in 0..MaxConns /\ made \in 0..MaxConns
      /\ IsFiniteSet(DOMAIN clients) /\ Cardinality(DOMAIN clients) \in Nat
  BY Sizes, ControlAssumption, FiniteDomains, TypesOfEntries, Zenon
<1>1. CASE Connect
  <2>1. backlog' \in 0..MaxConns /\ made' \in 0..MaxConns /\ backlog' <= made'
    BY <1>0, <1>1 DEF Connect
  <2> QED
    BY <1>1, <2>1 DEF Connect, serverVars, TypeOK
<1>2. ASSUME NEW f \in DOMAIN conn, Peer(f) PROVE Types'
  <2>1. /\ UNCHANGED <<backlog, made, serverVars>> /\ bytes' \in 0..MaxBytes
        /\ DOMAIN conn' = DOMAIN conn
        /\ \A g \in DOMAIN conn : conn'[g] \in ConnType
    BY <1>2, PeerStep
  <2> QED
    BY <2>1, TypesOfEntries, Zenon DEF serverVars, TypeOK, ConnType
<1>3. CASE EpollWait
  <2>1. PICK reported \in SUBSET Ready :
            Cardinality(reported) <= MaxEvents /\ events' = reported
    BY <1>3 DEF EpollWait
  <2>2. IsFiniteSet(events') /\ Cardinality(events') <= MaxEvents
    BY <2>1, ReadyEvents, FS_Subset
  <2> QED
    BY <1>3, <2>2 DEF EpollWait, peerVars, TypeOK
<1>4. ASSUME NEW e \in events, Dispatch(e) PROVE Types'
  <2>1. IsFiniteSet(events') /\ Cardinality(events') <= MaxEvents
    <3>1. events' = events \ {e} /\ Cardinality(events) \in Nat /\ Cardinality(events) <= MaxEvents
      BY <1>4, FS_CardinalityType DEF Dispatch, TypeOK
    <3>2. IsFiniteSet(events') /\ Cardinality(events') = Cardinality(events) - 1
      BY <3>1, FS_RemoveElement
    <3> QED
      BY <1>0, <3>1, <3>2
  <2>2. phase' \in {"wait", "dispatch", "accept", "recv", "send", "out_of_range",
                    "stopped", "destroyed"}
    BY <1>4 DEF Dispatch
  <2> QED
    BY <1>4, <2>1, <2>2 DEF Dispatch, peerVars, TypeOK
<1>5. CASE RunOnceEnds
  BY <1>5 DEF RunOnceEnds, peerVars, TypeOK
<1>6. CASE Destroy
  <2>1. DOMAIN <<>> = {} /\ Cardinality({}) = 0
    BY FS_EmptySet
  <2> QED
    BY <1>0, <1>6, <2>1 DEF Destroy, peerVars, TypeOK
<1>7. CASE AcceptReady
  <2>1. CASE UNCHANGED <<conn, clients, callbacks>>
    BY <1>0, <1>7, <2>1 DEF AcceptReady, TypeOK
  <2>2. CASE backlog > 0 /\ AddClient(LowestFree) /\ ~UNCHANGED <<conn, clients, callbacks>>
    <3>1. PICK f \in Fds \ DOMAIN conn :
                /\ ~Full
                /\ DOMAIN conn' = DOMAIN conn \union {f}
                /\ DOMAIN clients' = DOMAIN clients \union {f}
                /\ DOMAIN callbacks' = DOMAIN callbacks \union {f}
                /\ conn'[f] \in ConnType /\ conn'[f].room = Window
                /\ clients'[f] = NewClient /\ callbacks'[f] = "in"
                /\ \A g \in DOMAIN conn : /\ conn'[g] = conn[g]
                                          /\ clients'[g] = clients[g]
                                          /\ callbacks'[g] = callbacks[g]
      BY <2>2, AddEffect, Zenon
    <3>2. Cardinality(DOMAIN clients') <= MaxClients
      <4>1. Cardinality(DOMAIN clients') = Cardinality(DOMAIN clients) + 1
        BY <1>0, <3>1, FS_AddElement DEF Routing
      <4> QED
        BY <1>0, <3>1, <4>1 DEF Full
    <3>3. NewClient \in ClientType
      <4>1. <<>> \in Seq(Byte) /\ 0 \in 0..ReplySize /\ 0 \in Nat
        BY EmptySeq, Sizes
      <4> QED
        BY <4>1 DEF NewClient, ClientType
    <3>4. /\ DOMAIN conn' \subseteq Fds
          /\ \A g \in DOMAIN conn' : conn'[g] \in ConnType
          /\ \A g \in DOMAIN clients' : clients'[g] \in ClientType
          /\ \A g \in DOMAIN callbacks' : callbacks'[g] \in {"in", "out"}
      BY <3>1, <3>3, TypesOfEntries DEF Routing
    <3>5. backlog' \in 0..MaxConns /\ backlog' <= made' /\ UNCHANGED <<phase, made, bytes, events, running>>
      BY <1>0, <1>7, <2>2 DEF AcceptReady
    <3> QED
      BY <3>2, <3>4, <3>5 DEF TypeOK, ConnType, ClientType
  <2> QED
    BY <1>7, <2>1, <2>2 DEF AcceptReady
<1>8. ASSUME NEW f \in DOMAIN conn, Handle(f) PROVE Types'
  <2>0. UNCHANGED <<backlog, made, bytes, events, active>> /\ f \in DOMAIN clients /\ f \in DOMAIN callbacks
    BY <1>8, HandleCases DEF peerVars, Routing
  <2>1. CASE phase = "recv" /\ RecvData(f)
    <3>1. /\ DOMAIN conn' = DOMAIN conn /\ DOMAIN clients' = DOMAIN clients
          /\ UNCHANGED callbacks /\ running' \in BOOLEAN
          /\ conn'[f] \in ConnType /\ clients'[f] \in ClientType
          /\ \A g \in DOMAIN conn : g # f => conn'[g] = conn[g] /\ clients'[g] = clients[g]
          /\ phase' \in {"recv", "send"}
      BY <2>1, RecvEffect, Zenon
    <3>2. /\ \A g \in DOMAIN conn' : conn'[g] \in ConnType
          /\ \A g \in DOMAIN clients' : clients'[g] \in ClientType
      BY <3>1, TypesOfEntries DEF Routing
    <3> QED
      BY <2>0, <3>1, <3>2, Zenon DEF TypeOK, ConnType, ClientType
  <2>2. CASE phase = "send" /\ SendSome(f) /\ UNCHANGED running
    <3>1. /\ DOMAIN conn' = DOMAIN conn /\ DOMAIN clients' = DOMAIN clients
          /\ UNCHANGED <<callbacks, phase>>
          /\ conn'[f] \in ConnType /\ clients'[f] \in ClientType
          /\ \A g \in DOMAIN conn : g # f => conn'[g] = conn[g] /\ clients'[g] = clients[g]
      BY <2>2, SendEffect
    <3>2. /\ \A g \in DOMAIN conn' : conn'[g] \in ConnType
          /\ \A g \in DOMAIN clients' : clients'[g] \in ClientType
      BY <3>1, TypesOfEntries DEF Routing
    <3> QED
      BY <2>0, <2>2, <3>1, <3>2 DEF TypeOK, ConnType, ClientType
  <2>3. CASE /\ UNCHANGED <<conn, clients, running>> /\ phase' = "dispatch"
             /\ callbacks' = callbacks \/ Modify(f)
    BY <2>0, <2>3 DEF Modify, TypeOK
  <2>4. CASE CloseClient(f) /\ UNCHANGED running
    <3>1. /\ phase' = "dispatch"
          /\ DOMAIN conn' = DOMAIN conn \ {f}
          /\ DOMAIN clients' = DOMAIN clients \ {f}
          /\ DOMAIN callbacks' = DOMAIN callbacks \ {f}
          /\ \A g \in DOMAIN conn : g # f => conn'[g] = conn[g]
          /\ \A g \in DOMAIN clients : g # f => clients'[g] = clients[g]
          /\ \A g \in DOMAIN callbacks : g # f => callbacks'[g] = callbacks[g]
      BY <2>4, CloseEffect, Zenon
    <3>2. Cardinality(DOMAIN clients') <= MaxClients
      <4>1. Cardinality(DOMAIN clients') = Cardinality(DOMAIN clients) - 1
        BY <1>0, <2>0, <3>1, FS_RemoveElement
      <4> QED
        BY <1>0, <4>1 DEF TypeOK
    <3>3. /\ DOMAIN conn' \subseteq Fds
          /\ \A g \in DOMAIN conn' : conn'[g] \in ConnType
          /\ \A g \in DOMAIN clients' : clients'[g] \in ClientType
          /\ \A g \in DOMAIN callbacks' : callbacks'[g] \in {"in", "out"}
      BY <3>1, TypesOfEntries
    <3> QED
      BY <2>0, <2>4, <3>1, <3>2, <3>3 DEF TypeOK, ConnType, ClientType
  <2> QED
    BY <1>8, <2>1, <2>2, <2>3, <2>4, HandleCases
<1>9. CASE UNCHANGED controlVars
  BY <1>9 DEF controlVars, peerVars, serverVars, TypeOK
<1> QED
  BY <1>1, <1>2, <1>3, <1>4, <1>5, <1>6, <1>7, <1>8, <1>9 DEF Next, Server

(* Every step keeps events with their connections. *)
LEMMA NextRouting == Types /\ Routing /\ [Next]_controlVars => Routing'
<1> SUFFICES ASSUME Types, Routing, [Next]_controlVars PROVE Routing'
  OBVIOUS
<1>0. TypeOK /\ backlog <= made
  BY DEF Types
<1>1. CASE Connect
  BY <1>1 DEF Connect, serverVars, Routing, Reports
<1>2. ASSUME NEW f \in DOMAIN conn, Peer(f) PROVE Routing'
  <2>1. /\ UNCHANGED serverVars /\ DOMAIN conn' = DOMAIN conn
        /\ \A g \in DOMAIN conn : /\ conn'[g].id = conn[g].id
                                  /\ conn[g].gone => conn'[g].gone
    BY <1>0, <1>2, PeerStep
  <2> QED
    BY <2>1 DEF serverVars, Routing, Reports
<1>3. CASE EpollWait
  <2>1. /\ events' \subseteq Ready /\ phase' = "dispatch"
        /\ UNCHANGED <<conn, clients, callbacks, active>>
    BY <1>3 DEF EpollWait
  <2>2. /\ \A e \in events' : e = Listening \/ Reports(e)
        /\ \A e, d \in events' : e.fd = d.fd => e = d
    BY <1>0, <2>1, ReadyEvents
  <2> QED
    BY <2>1, <2>2 DEF Routing, Reports
<1>4. ASSUME NEW e \in events, Dispatch(e) PROVE Routing'
  <2>1. /\ events' = events \ {e} /\ active' = e
        /\ UNCHANGED <<conn, clients, callbacks>>
    BY <1>4 DEF Dispatch
  <2>2. /\ phase' \in {"dispatch", "accept", "recv", "send"}
        /\ phase' \in {"recv", "send"} => e # Listening
    BY <1>4 DEF Dispatch, Routing, Reports
  <2>3. phase' \in {"recv", "send"} => Reports(e) /\ \A d \in events' : d.fd # e.fd
    BY <2>1, <2>2 DEF Routing
  <2> QED
    BY <2>1, <2>2, <2>3 DEF Routing, Reports
<1>5. CASE RunOnceEnds
  BY <1>5 DEF RunOnceEnds, Routing, Reports
<1>6. CASE Destroy
  BY <1>6 DEF Destroy, Routing, Reports
<1>7. CASE AcceptReady
  <2>1. CASE UNCHANGED <<conn, clients, callbacks>>
    BY <1>7, <2>1 DEF AcceptReady, Routing, Reports
  <2>2. CASE backlog > 0 /\ AddClient(LowestFree) /\ ~UNCHANGED <<conn, clients, callbacks>>
    <3>1. PICK f \in Fds \ DOMAIN conn :
                /\ DOMAIN conn' = DOMAIN conn \union {f}
                /\ DOMAIN clients' = DOMAIN clients \union {f}
                /\ DOMAIN callbacks' = DOMAIN callbacks \union {f}
                /\ \A g \in DOMAIN conn : conn'[g] = conn[g]
      BY <1>0, <2>2, AddEffect, Zenon
    <3>2. UNCHANGED <<phase, events, active>> /\ phase = "accept"
      BY <1>7, <2>2 DEF AcceptReady
    <3>3. DOMAIN clients' = DOMAIN conn' /\ DOMAIN callbacks' = DOMAIN conn'
      BY <3>1 DEF Routing
    <3>4. \A e \in events : Reports(e) => Reports(e)'
      BY <3>1 DEF Reports
    <3> QED
      BY <3>2, <3>3, <3>4 DEF Routing, Reports
  <2> QED
    BY <1>7, <2>1, <2>2 DEF AcceptReady
<1>8. ASSUME NEW f \in DOMAIN conn, Handle(f) PROVE Routing'
  <2>0. /\ UNCHANGED <<events, active>> /\ active.fd = f /\ phase \in {"recv", "send"}
        /\ f \in DOMAIN clients /\ f \in DOMAIN callbacks
        /\ Reports(active) /\ \A e \in events : e.fd # f
    BY <1>8, HandleCases DEF Routing
  <2>1. ASSUME DOMAIN conn' = DOMAIN conn, DOMAIN clients' = DOMAIN clients,
               DOMAIN callbacks' = DOMAIN callbacks,
               conn'[f].id = conn[f].id, conn'[f].gone = conn[f].gone,
               \A g \in DOMAIN conn : g # f => conn'[g] = conn[g],
               phase' \in {"recv", "send", "dispatch"}
        PROVE  Routing'
    BY <2>0, <2>1 DEF Routing, Reports
  <2>2. CASE phase = "recv" /\ RecvData(f)
    BY <1>0, <2>1, <2>2, RecvEffect
  <2>3. CASE phase = "send" /\ SendSome(f) /\ UNCHANGED running
    BY <1>0, <2>1, <2>3, SendEffect
  <2>4. CASE /\ UNCHANGED <<conn, clients, running>> /\ phase' = "dispatch"
             /\ callbacks' = callbacks \/ Modify(f)
    BY <2>1, <2>4 DEF Modify
  <2>5. CASE CloseClient(f) /\ UNCHANGED running
    <3>1. /\ phase' = "dispatch"
          /\ DOMAIN conn' = DOMAIN conn \ {f}
          /\ DOMAIN clients' = DOMAIN clients \ {f}
          /\ DOMAIN callbacks' = DOMAIN callbacks \ {f}
          /\ \A g \in DOMAIN conn : g # f => conn'[g] = conn[g]
      BY <2>5, CloseEffect, Zenon
    <3> QED
      BY <2>0, <3>1 DEF Routing, Reports
  <2> QED
    BY <1>8, <2>2, <2>3, <2>4, <2>5, HandleCases
<1>9. CASE UNCHANGED controlVars
  BY <1>9 DEF controlVars, serverVars, Routing, Reports
<1> QED
  BY <1>1, <1>2, <1>3, <1>4, <1>5, <1>6, <1>7, <1>8, <1>9 DEF Next, Server

(* The verdict of ready() in terms of the bytes the peer sent. *)
LEMMA VerdictFits ==
    ASSUME NEW request \in Seq(Byte)
    PROVE  /\ Verdict(request) = "answer" <=> CommandFits(request)
           /\ Verdict(request) = "too_long" => Len(request) > Limit
           /\ Verdict(request) \in {"none", "answer", "too_long"}
<1>1. DOMAIN request = 1..Len(request) /\ Len(request) \in Nat /\ Limit \in Nat
  BY LenProperties, ControlAssumption
<1>2. CommandFits(request)
        <=> \E i \in DOMAIN request : request[i] = "newline" /\ i - 1 <= Limit
  BY <1>1 DEF CommandFits
<1> QED
  BY <1>2 DEF Verdict

(* Every step keeps what was decided. *)
LEMMA NextConversation ==
    Types /\ Routing /\ Conversation /\ [Next]_controlVars => Conversation'
<1> SUFFICES ASSUME Types, Routing, Conversation, [Next]_controlVars
             PROVE  Conversation'
  OBVIOUS
<1>0. TypeOK /\ backlog <= made /\ DOMAIN clients = DOMAIN conn
  BY DEF Types, Routing
<1>1. CASE Connect
  BY <1>1 DEF Connect, serverVars, Conversation
<1>2. ASSUME NEW f \in DOMAIN conn, Peer(f) PROVE Conversation'
  <2>1. /\ UNCHANGED serverVars /\ DOMAIN conn' = DOMAIN conn
        /\ \A g \in DOMAIN conn : conn'[g].room = conn[g].room \/ conn'[g].room = Window
    BY <1>0, <1>2, PeerStep
  <2> QED
    BY <1>0, <2>1 DEF serverVars, Conversation
<1>3. CASE EpollWait
  BY <1>3 DEF EpollWait, Conversation
<1>4. ASSUME NEW e \in events, Dispatch(e) PROVE Conversation'
  <2>1. /\ phase = "dispatch" /\ active' = e /\ UNCHANGED <<conn, clients>>
        /\ phase' = "recv" => ~clients[e.fd].responding
    BY <1>4 DEF Dispatch
  <2> QED
    BY <2>1 DEF Conversation
<1>5. CASE RunOnceEnds
  BY <1>5 DEF RunOnceEnds, Conversation
<1>6. CASE Destroy
  BY <1>6 DEF Destroy, Conversation
<1>7. CASE AcceptReady
  <2>1. CASE UNCHANGED <<conn, clients, callbacks>>
    BY <1>7, <2>1 DEF AcceptReady, Conversation
  <2>2. CASE backlog > 0 /\ AddClient(LowestFree) /\ ~UNCHANGED <<conn, clients, callbacks>>
    <3>1. PICK f \in Fds \ DOMAIN conn :
                /\ DOMAIN clients' = DOMAIN clients \union {f}
                /\ conn'[f].room = Window /\ clients'[f] = NewClient
                /\ \A g \in DOMAIN conn : conn'[g] = conn[g] /\ clients'[g] = clients[g]
      BY <1>0, <2>2, AddEffect, Zenon
    <3>2. UNCHANGED <<phase, active>> /\ phase = "accept"
      BY <1>7, <2>2 DEF AcceptReady
    <3>3. Decided(NewClient) /\ NewClient.reply # "shutdown"
      BY DEF Decided, NewClient
    <3> HIDE DEF NewClient
    <3> QED
      BY <1>0, <3>1, <3>2, <3>3 DEF Conversation
  <2> QED
    BY <1>7, <2>1, <2>2 DEF AcceptReady
<1>8. ASSUME NEW f \in DOMAIN conn, Handle(f) PROVE Conversation'
  <2>0. active' = active /\ active.fd = f /\ phase \in {"recv", "send"}
    BY <1>8, HandleCases
  <2>1. CASE phase = "recv" /\ RecvData(f)
    <3>1. PICK request \in Seq(Byte), reply \in {"none", "answer", "shutdown", "too_long"} :
            /\ reply \in {"answer", "shutdown"} <=> Verdict(request) = "answer"
            /\ DOMAIN clients' = DOMAIN clients
            /\ conn'[f].room = conn[f].room
            /\ clients'[f].request = request /\ clients'[f].reply = reply
            /\ clients'[f].sent = clients[f].sent
            /\ clients'[f].calls = IF Verdict(request) = "answer"
                                   THEN clients[f].calls + 1 ELSE clients[f].calls
            /\ clients'[f].responding = (Verdict(request) # "none")
            /\ \A g \in DOMAIN conn : g # f => conn'[g] = conn[g] /\ clients'[g] = clients[g]
            /\ phase' = IF Verdict(request) = "none" THEN "recv" ELSE "send"
      BY <1>0, <2>1, RecvEffect
    <3>2. clients[f].calls = 0
      BY <1>0, <2>0, <2>1 DEF Conversation, Decided
    <3>3. Decided(clients'[f])
      <4>1. /\ Verdict(request) = "answer" <=> CommandFits(request)
            /\ Verdict(request) = "too_long" => Len(request) > Limit
            /\ Verdict(request) \in {"none", "answer", "too_long"}
        BY VerdictFits
      <4>2. clients'[f].calls = IF Verdict(request) = "answer" THEN 1 ELSE 0
        BY <3>1, <3>2
      <4> QED
        BY <3>1, <4>1, <4>2, Zenon DEF Decided
    <3>4. ASSUME NEW g \in DOMAIN clients, g # f
          PROVE  /\ Decided(clients'[g])
                 /\ clients'[g].sent = 0 => conn'[g].room = Window
                 /\ clients'[g].reply # "shutdown"
      BY <1>0, <2>0, <2>1, <3>1, <3>4 DEF Conversation
    <3>5. /\ clients'[f].sent = 0 => conn'[f].room = Window
          /\ clients'[f].reply = "shutdown" => phase' = "send"
          /\ phase' = "recv" => ~clients'[f].responding
      BY <1>0, <3>1, Zenon DEF Conversation
    <3> QED
      BY <2>0, <3>1, <3>3, <3>4, <3>5 DEF Conversation
  <2>2. CASE phase = "send" /\ SendSome(f) /\ UNCHANGED running
    <3>1. /\ DOMAIN clients' = DOMAIN clients /\ phase' = phase
          /\ clients'[f].sent # 0
          /\ clients'[f].request = clients[f].request
          /\ clients'[f].reply = clients[f].reply
          /\ clients'[f].calls = clients[f].calls
          /\ clients'[f].responding = clients[f].responding
          /\ \A g \in DOMAIN conn : g # f => conn'[g] = conn[g] /\ clients'[g] = clients[g]
      BY <1>0, <2>2, SendEffect
    <3>2. Decided(clients'[f])
      BY <1>0, <3>1 DEF Conversation, Decided
    <3> QED
      BY <1>0, <2>0, <2>2, <3>1, <3>2 DEF Conversation
  <2>3. CASE /\ UNCHANGED <<conn, clients, running>> /\ phase' = "dispatch"
             /\ phase = "recv" \/ (clients[f].sent < Size(f) /\ conn[f].room = 0)
    <3>1. ASSUME NEW g \in DOMAIN clients, clients[g].reply = "shutdown" PROVE FALSE
      <4>1. phase = "send" /\ g = f
        BY <2>0, <3>1 DEF Conversation
      <4>2. Size(f) = 1 /\ clients[f].sent \in Nat
        BY <1>0, <3>1, <4>1 DEF Size, TypeOK
      <4>3. clients[f].sent = 0 /\ conn[f].room = 0
        BY <2>3, <4>1, <4>2
      <4> QED
        BY <1>0, <4>3, Sizes DEF Conversation
    <3> QED
      BY <2>3, <3>1 DEF Conversation
  <2>4. CASE CloseClient(f) /\ UNCHANGED running
    <3>1. /\ phase' = "dispatch"
          /\ DOMAIN clients' = DOMAIN clients \ {f}
          /\ \A g \in DOMAIN conn : g # f => conn'[g] = conn[g]
          /\ \A g \in DOMAIN clients : g # f => clients'[g] = clients[g]
      BY <2>4, CloseEffect, Zenon
    <3> QED
      BY <1>0, <2>0, <3>1 DEF Conversation
  <2> QED
    BY <1>8, <2>1, <2>2, <2>3, <2>4, HandleCases
<1>9. CASE UNCHANGED controlVars
  BY <1>9 DEF controlVars, serverVars, Conversation
<1> QED
  BY <1>1, <1>2, <1>3, <1>4, <1>5, <1>6, <1>7, <1>8, <1>9 DEF Next, Server

(* Nothing is wrong before the first connection. *)
LEMMA InitAll == Init => Types /\ Routing /\ Conversation
<1> SUFFICES ASSUME Init PROVE Types /\ Routing /\ Conversation
  OBVIOUS
<1>1. DOMAIN <<>> = {} /\ Cardinality({}) = 0 /\ IsFiniteSet({})
  BY FS_EmptySet
<1>2. Types
  BY <1>1, Sizes, ControlAssumption DEF Init, Types, TypeOK
<1> QED
  BY <1>1, <1>2 DEF Init, Routing, Conversation

(* The three together hold in every reachable state. *)
LEMMA AllAlways == Spec => [](Types /\ Routing /\ Conversation)
BY InitAll, NextTypes, NextRouting, NextConversation, PTL DEF Spec

(***************************************************************************)
(* Type correctness: whatever peers do, there are never more than          *)
(* MaxClients connections, each on a descriptor of its own, and no reply   *)
(* is sent beyond its end.                                                 *)
(***************************************************************************)
THEOREM TypeCorrect == Spec => []TypeOK
<1>1. Types => TypeOK
  BY DEF Types
<1> QED
  BY <1>1, AllAlways, PTL

(***************************************************************************)
(* For any number of descriptors, clients and events in a batch: an event  *)
(* is never handed to a later user of its descriptor number, and           *)
(* clients_.at in ready() never throws.                                    *)
(***************************************************************************)
THEOREM EventsReachTheirConnections == Spec => []EventReachesItsConnection
<1>1. Routing => EventReachesItsConnection
  BY DEF Routing, Reports, EventReachesItsConnection
<1> QED
  BY <1>1, AllAlways, PTL

(***************************************************************************)
(* For every request limit: recv calls may cut a request anywhere, the     *)
(* handler runs once if a newline is among the first Limit + 1 bytes the   *)
(* peer sends, and not at all otherwise.                                   *)
(***************************************************************************)
THEOREM SegmentationIsIgnored == Spec => []AnswerIgnoresSegmentation
<1>1. Types /\ Routing /\ Conversation => AnswerIgnoresSegmentation
  <2> SUFFICES ASSUME Types, Routing, Conversation, NEW f \in DOMAIN clients,
                      clients[f].responding
               PROVE  clients[f].calls = IF CommandFits(Stream(f)) THEN 1 ELSE 0
    BY DEF AnswerIgnoresSegmentation
  <2>1. clients[f].request \in Seq(Byte) /\ conn[f].inbox \in Seq(Byte)
    BY DEF Types, TypeOK, Routing
  <2>2. PICK r \in Seq(Byte), q \in Seq(Byte), s \in Seq(Byte) :
            r = clients[f].request /\ s = r \o q /\ s = Stream(f)
    BY <2>1, ConcatProperties, Zenon DEF Stream
  <2>3. /\ Len(r) \in Nat /\ Len(s) \in Nat /\ Limit \in Nat /\ Len(r) <= Len(s)
        /\ \A i \in 1..Len(r) : s[i] = r[i]
    <3>1. Len(r) \in Nat /\ Len(q) \in Nat /\ Limit \in Nat
      BY LenProperties, ControlAssumption
    <3>2. /\ Len(r \o q) = Len(r) + Len(q)
          /\ \A i \in 1..Len(r) + Len(q) :
                (r \o q)[i] = IF i <= Len(r) THEN r[i] ELSE q[i - Len(r)]
      BY ConcatProperties
    <3>3. \A i \in 1..Len(r) : i \in 1..Len(r) + Len(q) /\ i <= Len(r)
      BY <3>1
    <3> QED
      BY <2>2, <3>1, <3>2, <3>3
  <2>4. CommandFits(r) => CommandFits(s)
    BY <2>3 DEF CommandFits
  <2>5. Len(r) > Limit /\ CommandFits(s) => CommandFits(r)
    BY <2>3 DEF CommandFits
  <2> QED
    BY <2>2, <2>4, <2>5 DEF Conversation, Decided
<1> QED
  BY <1>1, AllAlways, PTL

(***************************************************************************)
(* For every window and reply size: a reply is cut short only when its     *)
(* peer has gone or the daemon ends, and the "ok" to shutdown never is.    *)
(***************************************************************************)
THEOREM RepliesAreWhole == Spec => ClosedAfterWholeReply
<1> DEFINE Kept ==
       \A f \in DOMAIN clients :
        /\ clients[f].responding /\ ~conn[f].gone
        /\ f \in DOMAIN clients' => conn'[f].id # conn[f].id
        => \/ clients[f].sent = Size(f)
           \/ phase = "stopped" /\ clients[f].reply # "shutdown"
<1>1. Types /\ Routing /\ Conversation /\ [Next]_controlVars => [Kept]_controlVars
  <2> SUFFICES ASSUME Types, Routing, Conversation, [Next]_controlVars,
                      NEW g \in DOMAIN clients,
                      clients[g].responding, ~conn[g].gone,
                      g \in DOMAIN clients' => conn'[g].id # conn[g].id
               PROVE  \/ clients[g].sent = Size(g)
                      \/ phase = "stopped" /\ clients[g].reply # "shutdown"
    OBVIOUS
  <2>0. TypeOK /\ backlog <= made /\ DOMAIN clients = DOMAIN conn
    BY DEF Types, Routing
  <2>1. ASSUME DOMAIN clients \subseteq DOMAIN clients', conn'[g].id = conn[g].id
        PROVE  FALSE
    BY <2>1
  <2>2. CASE UNCHANGED <<conn, clients>>
    BY <2>1, <2>2
  <2>3. ASSUME NEW f \in DOMAIN conn, Peer(f) PROVE FALSE
    <3>1. clients' = clients /\ conn'[g].id = conn[g].id
      BY <2>0, <2>3, PeerStep DEF serverVars
    <3> QED
      BY <2>1, <3>1
  <2>4. CASE Destroy
    BY <2>4 DEF Destroy, Conversation
  <2>5. CASE AcceptReady
    <3>1. DOMAIN clients \subseteq DOMAIN clients' /\ conn'[g] = conn[g]
      BY <2>0, <2>5, AddEffect, Zenon DEF AcceptReady
    <3> QED
      BY <2>1, <3>1
  <2>6. ASSUME NEW f \in DOMAIN conn, Handle(f) PROVE clients[g].sent = Size(g)
    <3>1. CASE phase = "recv" /\ RecvData(f)
      <4>1. /\ DOMAIN clients' = DOMAIN clients /\ conn'[f].id = conn[f].id
            /\ \A h \in DOMAIN conn : h # f => conn'[h] = conn[h]
        BY <2>0, <3>1, RecvEffect
      <4> QED
        BY <2>0, <2>1, <4>1
    <3>2. CASE phase = "send" /\ SendSome(f) /\ UNCHANGED running
      <4>1. /\ DOMAIN clients' = DOMAIN clients /\ conn'[f].id = conn[f].id
            /\ \A h \in DOMAIN conn : h # f => conn'[h] = conn[h]
        BY <2>0, <3>2, SendEffect
      <4> QED
        BY <2>0, <2>1, <4>1
    <3>3. CASE UNCHANGED <<conn, clients, running>>
      BY <2>1, <3>3
    <3>4. CASE /\ CloseClient(f)
               /\ \/ phase = "recv" \/ clients[f].sent = Size(f)
                  \/ conn[f].gone \/ active.hup
      <4>1. /\ DOMAIN clients' = DOMAIN clients \ {f}
            /\ \A h \in DOMAIN conn : h # f => conn'[h] = conn[h]
        BY <3>4, CloseEffect, Zenon
      <4>2. g = f
        BY <2>0, <4>1
      <4>3. active.fd = g /\ phase \in {"recv", "send"} /\ Reports(active)
        BY <2>6, <4>2, HandleCases DEF Routing
      <4> QED
        BY <3>4, <4>2, <4>3 DEF Conversation, Reports
    <3> QED
      BY <2>6, <3>1, <3>2, <3>3, <3>4, HandleCases
  <2> QED
    BY <2>2, <2>3, <2>4, <2>5, <2>6
    DEF Next, Server, Connect, serverVars, EpollWait, Dispatch, RunOnceEnds,
        controlVars, peerVars
<1> QED
  BY <1>1, AllAlways, PTL DEF Spec, ClosedAfterWholeReply
=============================================================================
