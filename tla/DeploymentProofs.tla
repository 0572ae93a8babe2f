-------------------------- MODULE DeploymentProofs --------------------------
(***************************************************************************)
(* Proofs, for any number of daemons and restarts and for all files: the   *)
(* TCP port keeps daemons from taking each other's control socket path,    *)
(* load_config_file reads a file as it is meant, and reload follows it;    *)
(* and the service comes back once crashes stop.                           *)
(***************************************************************************)
EXTENDS Deployment, SequenceTheorems, WellFoundedInduction, TLAPS

(* From listen_on to the destructors a daemon holds the port. *)
Holding == {"path", "bind", "listen", "up", "unlink", "close"}

HoldersListen == \A d \in Daemons : at[d] \in Holding => listener = d

(***************************************************************************)
(* The strengthening of PathIsOurs: whoever is past the TCP port listens   *)
(* on it, so there is one at most, and the path is its own from bind on.   *)
(***************************************************************************)
PathInv ==
    /\ DOMAIN at = Daemons
    /\ HoldersListen
    /\ \A d \in Daemons : /\ at[d] = "bind" => path = "none"
                          /\ at[d] \in {"listen", "up"} => path = d

(* A daemon that is not holding the port does not touch the path. *)
LEMMA BeforePort ==
    ASSUME PathInv, NEW d \in Daemons, NEW to,
           at[d] \notin Holding, to \notin Holding,
           at' = [at EXCEPT ![d] = to], listener' = listener, path' = path
    PROVE  PathInv'
BY DEF PathInv, HoldersListen, Holding

(* A daemon that ends, wherever it is, leaves those that go on untouched. *)
LEMMA GoneKeeps ==
    ASSUME PathInv, NEW d \in Daemons, NEW state \in {"down", "failed"},
           Gone(d, state)
    PROVE  PathInv'
<1>1. \A e \in Daemons : e # d => at'[e] = at[e]
  BY DEF Gone, PathInv
<1>2. DOMAIN at' = Daemons /\ at'[d] \notin Holding
  BY DEF Gone, PathInv, Holding
<1>3. HoldersListen'
  BY <1>1, <1>2 DEF Gone, PathInv, HoldersListen
<1>4. ASSUME NEW e \in Daemons, e # d, at[e] \in {"bind", "listen", "up"}
      PROVE  path' = path
  BY <1>4, DeploymentAssumption DEF Gone, PathInv
<1> QED
  BY <1>1, <1>2, <1>3, <1>4 DEF PathInv, Holding

(* A daemon that holds the port is the only one, and may change the path. *)
LEMMA HolderMoves ==
    ASSUME PathInv, NEW d \in Daemons, NEW to \in Holding,
           listener' = d, at' = [at EXCEPT ![d] = to],
           \A e \in Daemons : e # d => at[e] \notin Holding,
           to = "bind" => path' = "none", to \in {"listen", "up"} => path' = d
    PROVE  PathInv'
<1>1. \A e \in Daemons : e # d => at'[e] = at[e]
  BY DEF PathInv
<1>2. DOMAIN at' = Daemons /\ at'[d] = to
  BY DEF PathInv
<1> QED
  BY <1>1, <1>2 DEF PathInv, HoldersListen, Holding

(* Start-up. *)
LEMMA StartKeeps == ASSUME PathInv, NEW d \in Daemons, Start(d) PROVE PathInv'
<1>1. ASSUME at[d] \in Holding
      PROVE  listener = d /\ \A e \in Daemons : e # d => at[e] \notin Holding
  BY <1>1 DEF PathInv, HoldersListen
<1>2. CASE Load(d)
  <2>1. PICK to \in {"tcp_bind", "failed"} : at' = [at EXCEPT ![d] = to]
    BY <1>2, Zenon DEF Load
  <2>2. at[d] \notin Holding /\ UNCHANGED <<listener, path>>
    BY <1>2 DEF Load, Holding
  <2> QED
    BY <2>1, <2>2, BeforePort, Zenon DEF Holding
<1>3. CASE TcpBind(d)
  <2>1. CASE Gone(d, "failed")
    BY <2>1, GoneKeeps
  <2>2. CASE ~Gone(d, "failed")
    BY <1>3, <2>2, BeforePort DEF TcpBind, Goes, Holding
  <2> QED
    BY <2>1, <2>2
<1>4. CASE TcpListen(d)
  <2>1. CASE Gone(d, "failed")
    BY <2>1, GoneKeeps
  <2>2. CASE ~Gone(d, "failed")
    <3>1. /\ listener = "none" /\ at' = [at EXCEPT ![d] = "path"]
          /\ listener' = d
      BY <1>4, <2>2 DEF TcpListen, Goes, PortFree
    <3>2. \A e \in Daemons : at[e] \notin Holding
      BY <3>1, DeploymentAssumption DEF PathInv, HoldersListen
    <3> QED
      BY <3>1, <3>2, HolderMoves, Zenon DEF Holding
  <2> QED
    BY <2>1, <2>2
<1>5. CASE UnlinkPath(d)
  BY <1>1, <1>5, HolderMoves, Zenon DEF UnlinkPath, Goes, Holding
<1>6. CASE BindControl(d)
  <2>1. CASE Gone(d, "failed")
    BY <2>1, GoneKeeps
  <2>2. CASE ~Gone(d, "failed")
    BY <1>1, <1>6, <2>2, HolderMoves DEF BindControl, Goes, Holding
  <2> QED
    BY <2>1, <2>2
<1>7. CASE ListenControl(d)
  <2>1. path = d
    BY <1>7 DEF ListenControl, Goes, PathInv
  <2> QED
    BY <1>1, <1>7, <2>1, HolderMoves, Zenon DEF ListenControl, Goes, Holding
<1> QED
  BY <1>2, <1>3, <1>4, <1>5, <1>6, <1>7 DEF Start

(* From the event loop to the end. *)
LEMMA EndKeeps ==
    ASSUME PathInv, NEW d \in Daemons,
           \/ Serve(d) \/ Signalled(d) \/ UnlinkAtExit(d) \/ Return0(d)
           \/ Dies(d) \/ Terminated(d)
    PROVE  PathInv'
<1>1. ASSUME at[d] \in Holding
      PROVE  listener = d /\ \A e \in Daemons : e # d => at[e] \notin Holding
  BY <1>1 DEF PathInv, HoldersListen
<1>2. CASE UNCHANGED <<at, listener, path>>
  BY <1>2 DEF PathInv, HoldersListen
<1>3. CASE Goes(d, "up", "unlink") /\ UNCHANGED <<listener, path>>
  BY <1>1, <1>3, HolderMoves, Zenon DEF Goes, Holding
<1>4. CASE UnlinkAtExit(d)
  BY <1>1, <1>4, HolderMoves, Zenon DEF UnlinkAtExit, Goes, Holding
<1>5. CASE Return0(d) \/ Dies(d) \/ Terminated(d)
  BY <1>5, GoneKeeps DEF Return0, Dies, Terminated, Ends
<1> QED
  BY <1>2, <1>3, <1>4, <1>5 DEF Serve, Signalled

(* Every step keeps the strengthening. *)
LEMMA NextPathInv == PathInv /\ [Next]_deployVars => PathInv'
<1> SUFFICES ASSUME PathInv, [Next]_deployVars PROVE PathInv'
  OBVIOUS
<1>1. CASE UNCHANGED <<at, listener, path>>
  BY <1>1 DEF PathInv, HoldersListen
<1>2. ASSUME NEW d \in Daemons, Daemon(d) \/ Signalled(d) \/ Dies(d) \/ Terminated(d)
      PROVE  PathInv'
  BY <1>2, StartKeeps, EndKeeps DEF Daemon
<1> QED
  BY <1>1, <1>2 DEF Next, deployVars, Connect, CtlReturns, Edit, WriteDriver

(***************************************************************************)
(* For any number of daemons started, stopped, crashed and started again   *)
(* on one configuration: create_control_socket binds to a free path, and a *)
(* daemon in its event loop owns the path, as listen_on excludes others.   *)
(***************************************************************************)
THEOREM PathStaysOurs == Spec => []PathIsOurs
<1>1. Init => PathInv
  BY DEF Init, PathInv, HoldersListen, Holding
<1>2. PathInv => PathIsOurs
  BY DEF PathInv, PathIsOurs
<1> QED
  BY <1>1, <1>2, NextPathInv, PTL DEF Spec

-----------------------------------------------------------------------------
(* A set of numbers that is not empty has a least one. *)
LEMMA LeastNumber ==
    ASSUME NEW S, S \subseteq Nat, S # {}
    PROVE  \E x \in S : \A y \in S : x <= y
<1>1. PICK x \in S : \A y \in S : ~(<<y, x>> \in OpToRel(<, Nat))
  BY WFMin, NatLessThanWellFounded, Zenon
<1>2. \A y \in S : y < x => <<y, x>> \in OpToRel(<, Nat)
  BY Zenon DEF OpToRel
<1>3. \A y \in S : ~(y < x)
  BY <1>1, <1>2, Zenon
<1> QED
  BY <1>3

(* The configurations after each of the first k turns of the loop. *)
IsReading(f, lines, k) ==
    f = [n \in 0..k |-> IF n = 0 THEN AppConfig ELSE ReadLine(f[n - 1], lines[n])]

(* They exist for every k: by induction, as a least counterexample. *)
LEMMA ReadingExists ==
    ASSUME NEW lines PROVE \A k \in Nat : \E f : IsReading(f, lines, k)
<1> DEFINE Bad == {k \in Nat : ~\E f : IsReading(f, lines, k)}
<1> SUFFICES ASSUME Bad # {} PROVE FALSE
  OBVIOUS
<1>1. PICK k \in Bad : \A j \in Bad : k <= j
  BY LeastNumber, Zenon
<1>2. k # 0
  <2>1. IsReading([n \in 0..0 |-> AppConfig], lines, 0)
    BY DEF IsReading
  <2> QED
    BY <2>1
<1>3. PICK f : IsReading(f, lines, k - 1)
  <2>1. k - 1 \in Nat /\ ~(k <= k - 1)
    BY <1>2
  <2> QED
    BY <1>1, <2>1
<1> DEFINE g == [n \in 0..k |-> IF n = k THEN ReadLine(f[k - 1], lines[k]) ELSE f[n]]
<1>4. IsReading(g, lines, k)
  <2> SUFFICES ASSUME NEW n \in 0..k
               PROVE  g[n] = IF n = 0 THEN AppConfig ELSE ReadLine(g[n - 1], lines[n])
    BY Zenon DEF IsReading
  <2>1. CASE n = k
    <3>1. k - 1 \in 0..k /\ k - 1 # k /\ k \in 0..k
      BY <1>2
    <3>2. g[k - 1] = f[k - 1] /\ g[k] = ReadLine(f[k - 1], lines[k])
      BY <3>1
    <3> QED
      BY <1>2, <2>1, <3>2
  <2>2. CASE n # k
    <3>1. n \in 0..(k - 1) /\ (n # 0 => n - 1 \in 0..k /\ n - 1 # k)
      BY <2>2
    <3>2. f[n] = IF n = 0 THEN AppConfig ELSE ReadLine(f[n - 1], lines[n])
      BY <1>3, <3>1 DEF IsReading
    <3>3. g[n] = f[n] /\ (n # 0 => g[n - 1] = f[n - 1])
      BY <2>2, <3>1
    <3> QED
      BY <3>2, <3>3
  <2> QED
    BY <2>1, <2>2
<1> QED
  BY <1>4

Fields == {"tcp_listen_port", "udp_export_port", "worker_threads", "log_rotate_bytes",
           "queue_capacity", "simulate_device", "sensor_interval_ms", "ok"}

(* The value a key has by the first n lines. *)
IsValue(v, lines, key, n) ==
    \/ /\ v = AppConfig[key]
       /\ \A i \in 1..n : lines[i].key # key
    \/ \E i \in 1..n : /\ v = Stored(lines[i]) /\ lines[i].key = key
                       /\ \A j \in 1..n : lines[j].key = key => j <= i

(***************************************************************************)
(* What load_config_file knows after n lines: it has not thrown if and     *)
(* only if all of them are well formed, and then each key has the value of *)
(* its last line.                                                          *)
(***************************************************************************)
ReadSoFar(c, lines, n) ==
    /\ DOMAIN c = Fields
    /\ (\A i \in 1..n : Accepted(lines[i])) => c.ok
    /\ c.ok => /\ \A i \in 1..n : Accepted(lines[i])
               /\ \A key \in Fields \ {"ok"} : IsValue(c[key], lines, key, n)

(* One turn of the loop keeps it. *)
LEMMA ReadOneMore ==
    ASSUME NEW lines \in Seq(ConfigLine), NEW n \in Nat, n + 1 \in 1..Len(lines),
           NEW c, ReadSoFar(c, lines, n)
    PROVE  ReadSoFar(ReadLine(c, lines[n + 1]), lines, n + 1)
<1> DEFINE last == lines[n + 1]
           d == ReadLine(c, last)
<1>1. last \in ConfigLine /\ last.key # "ok" /\ DOMAIN c = Fields
  <2>1. last \in ConfigLine
    BY ElementOfSeq
  <2> QED
    BY <2>1 DEF ConfigLine, ReadSoFar, NumberKeys, PortKeys, SizeKeys
<1>2. \A i \in 1..(n + 1) : i \in 1..n \/ i = n + 1
  OBVIOUS
<1> HIDE DEF last, d
<1>3. DOMAIN d = Fields /\ (~Accepted(last) => ~d.ok)
  BY <1>1 DEF ReadLine, d, Fields
<1>4. ASSUME d.ok, Accepted(last)
      PROVE  /\ c.ok
             /\ \A key \in Fields \ {"ok"} :
                    d[key] = IF last.key = key THEN Stored(last) ELSE c[key]
  BY <1>1, <1>4 DEF ReadLine, d, Fields
<1>5. ASSUME d.ok, NEW key \in Fields \ {"ok"} PROVE IsValue(d[key], lines, key, n + 1)
  <2>0. Accepted(last)
    BY <1>3, <1>5
  <2>1. CASE last.key = key
    <3>1. d[key] = Stored(last)
      BY <1>4, <1>5, <2>0, <2>1
    <3>2. n + 1 \in 1..(n + 1) /\ \A j \in 1..(n + 1) : j <= n + 1
      OBVIOUS
    <3> QED
      BY <2>1, <3>1, <3>2 DEF IsValue, last
  <2>2. CASE last.key # key
    <3>1. d[key] = c[key] /\ IsValue(c[key], lines, key, n)
      BY <1>4, <1>5, <2>0, <2>2 DEF ReadSoFar
    <3>2. \A i \in 1..n : i \in 1..(n + 1)
      OBVIOUS
    <3> QED
      BY <1>2, <2>2, <3>1, <3>2 DEF IsValue, last
  <2> QED
    BY <2>1, <2>2
<1>6. ASSUME d.ok PROVE \A i \in 1..(n + 1) : Accepted(lines[i])
  BY <1>2, <1>3, <1>4, <1>6 DEF ReadSoFar, last
<1>7. ASSUME \A i \in 1..(n + 1) : Accepted(lines[i]) PROVE d.ok
  <2>1. c.ok /\ Accepted(last)
    <3>1. n + 1 \in 1..(n + 1) /\ \A i \in 1..n : i \in 1..(n + 1)
      OBVIOUS
    <3> QED
      BY <1>7, <3>1 DEF ReadSoFar, last
  <2> QED
    BY <1>1, <2>1 DEF ReadLine, d, Fields
<1>8. ReadSoFar(d, lines, n + 1)
  BY <1>3, <1>5, <1>6, <1>7 DEF ReadSoFar
<1> QED
  BY <1>8 DEF d, last

(* So after the last line, by induction on their number. *)
LEMMA ReadAll ==
    ASSUME NEW lines \in Seq(ConfigLine), NEW f, IsReading(f, lines, Len(lines))
    PROVE  ReadSoFar(f[Len(lines)], lines, Len(lines))
<1> DEFINE Bad == {n \in Nat : n <= Len(lines) /\ ~ReadSoFar(f[n], lines, n)}
<1>0. Len(lines) \in Nat
  BY LenProperties
<1> SUFFICES ASSUME Bad # {} PROVE FALSE
  BY <1>0
<1>1. PICK n \in Bad : \A m \in Bad : n <= m
  BY LeastNumber, Zenon
<1>2. n # 0
  <2>1. f[0] = AppConfig
    BY <1>0 DEF IsReading
  <2>2. ReadSoFar(AppConfig, lines, 0)
    BY DEF ReadSoFar, AppConfig, Fields, IsValue
  <2> QED
    BY <2>1, <2>2
<1>3. PICK m \in Nat : n = m + 1
  <2>1. n - 1 \in Nat /\ n = (n - 1) + 1
    BY <1>2
  <2> QED
    BY <2>1
<1>4. m \notin Bad /\ m <= Len(lines) /\ m + 1 \in 1..Len(lines)
  <2>1. ~(n <= m)
    BY <1>3
  <2> QED
    BY <1>0, <1>1, <1>3, <2>1
<1>5. ReadSoFar(f[m], lines, m)
  BY <1>4
<1>6. f[m + 1] = ReadLine(f[m], lines[m + 1])
  <2>1. m + 1 \in 0..Len(lines) /\ m + 1 # 0 /\ (m + 1) - 1 = m
    BY <1>4
  <2> QED
    BY <2>1 DEF IsReading
<1>7. ReadSoFar(f[m + 1], lines, m + 1)
  BY <1>4, <1>5, <1>6, ReadOneMore
<1> QED
  BY <1>3, <1>7

(* The value by all the lines is the one ValueOf finds without reading. *)
LEMMA ValueIsValueOf ==
    ASSUME NEW lines \in Seq(ConfigLine), NEW key, NEW v,
           IsValue(v, lines, key, Len(lines))
    PROVE  \/ v = AppConfig[key] /\ ValueOf(lines, key) = AppConfig[key]
           \/ \E i \in 1..Len(lines) :
                /\ v = Stored(lines[i]) /\ lines[i].key = key
                /\ ValueOf(lines, key) = lines[i].n
<1> DEFINE places == {i \in DOMAIN lines : lines[i].key = key}
<1>0. DOMAIN lines = 1..Len(lines) /\ Len(lines) \in Nat
  BY LenProperties
<1>1. ValueOf(lines, key) = IF places = {} THEN AppConfig[key] ELSE lines[Max(places)].n
  BY DEF ValueOf
<1>2. CASE places = {}
  BY <1>0, <1>1, <1>2 DEF IsValue
<1>3. CASE places # {}
  <2>1. PICK i \in 1..Len(lines) :
            /\ v = Stored(lines[i]) /\ lines[i].key = key
            /\ \A j \in 1..Len(lines) : lines[j].key = key => j <= i
    BY <1>0, <1>3 DEF IsValue
  <2>2. i \in places /\ places \subseteq Nat /\ \A j \in places : i >= j
    BY <1>0, <2>1
  <2> HIDE DEF places
  <2>3. Max(places) \in places /\ \A j \in places : Max(places) >= j
    BY <2>2, Zenon DEF Max
  <2>4. Max(places) = i
    <3>1. PICK m \in Nat : m = Max(places)
      BY <2>2, <2>3, Zenon
    <3>2. m >= i /\ i >= m
      BY <2>2, <2>3, <3>1
    <3>3. m = i
      BY <3>2
    <3> QED
      BY <3>1, <3>3
  <2> QED
    BY <1>1, <1>3, <2>1, <2>4
<1> QED
  BY <1>2, <1>3

(***************************************************************************)
(* load_config_file reads a file as it is meant: a file it accepts has no  *)
(* malformed line, and the interval is that of the last line that sets it, *)
(* or the default, narrowed to 32 bits.                                    *)
(***************************************************************************)
THEOREM LoadedAsMeant ==
    ASSUME NEW lines \in Seq(ConfigLine), LoadConfigFile(lines).ok
    PROVE  /\ Meaningful(lines)
           /\ ValueOf(lines, "sensor_interval_ms") \in Nat
           /\ LoadConfigFile(lines).sensor_interval_ms
                = ValueOf(lines, "sensor_interval_ms") % Word
<1> DEFINE read == CHOOSE f : IsReading(f, lines, Len(lines))
           c == read[Len(lines)]
<1>0. Len(lines) \in Nat /\ DOMAIN lines = 1..Len(lines)
  BY LenProperties
<1>1. IsReading(read, lines, Len(lines))
  BY <1>0, ReadingExists, Zenon
<1>2. LoadConfigFile(lines) = [c EXCEPT !.ok = @ /\ c.worker_threads # 0
                                                 /\ c.queue_capacity # 0]
  BY DEF LoadConfigFile, IsReading
<1> HIDE DEF read
<1>3. ReadSoFar(c, lines, Len(lines))
  BY <1>1, ReadAll
<1> HIDE DEF c
<1>4. /\ c.ok /\ c.worker_threads # 0 /\ c.queue_capacity # 0
      /\ LoadConfigFile(lines).sensor_interval_ms = c.sensor_interval_ms
  BY <1>2, <1>3, Zenon DEF ReadSoFar, Fields
<1>5. /\ \A i \in 1..Len(lines) : Accepted(lines[i])
      /\ IsValue(c.worker_threads, lines, "worker_threads", Len(lines))
      /\ IsValue(c.queue_capacity, lines, "queue_capacity", Len(lines))
      /\ IsValue(c.sensor_interval_ms, lines, "sensor_interval_ms", Len(lines))
  BY <1>3, <1>4 DEF ReadSoFar, Fields
<1>6. \A i \in 1..Len(lines) : lines[i].n \in Nat
  <2>1. \A i \in 1..Len(lines) : lines[i] \in ConfigLine
    BY <1>0, ElementOfSeq
  <2> QED
    BY <2>1 DEF ConfigLine
<1>7. ValueOf(lines, "worker_threads") > 0
  <2>1. CASE ValueOf(lines, "worker_threads") = AppConfig["worker_threads"]
    BY <2>1 DEF AppConfig
  <2>2. CASE ValueOf(lines, "worker_threads") # AppConfig["worker_threads"]
    <3>1. PICK i \in 1..Len(lines) :
            /\ c.worker_threads = Stored(lines[i]) /\ lines[i].key = "worker_threads"
            /\ ValueOf(lines, "worker_threads") = lines[i].n
      BY <1>5, <2>2, ValueIsValueOf
    <3> QED
      BY <1>4, <1>6, <3>1 DEF Stored
  <2> QED
    BY <2>1, <2>2
<1>8. ValueOf(lines, "queue_capacity") > 0
  <2>1. CASE ValueOf(lines, "queue_capacity") = AppConfig["queue_capacity"]
    BY <2>1 DEF AppConfig
  <2>2. CASE ValueOf(lines, "queue_capacity") # AppConfig["queue_capacity"]
    <3>1. PICK i \in 1..Len(lines) :
            /\ c.queue_capacity = Stored(lines[i]) /\ lines[i].key = "queue_capacity"
            /\ ValueOf(lines, "queue_capacity") = lines[i].n
      BY <1>5, <2>2, ValueIsValueOf
    <3> QED
      BY <1>4, <1>6, <3>1 DEF Stored
  <2> QED
    BY <2>1, <2>2
<1>9. /\ ValueOf(lines, "sensor_interval_ms") \in Nat
      /\ c.sensor_interval_ms = ValueOf(lines, "sensor_interval_ms") % Word
  <2>1. CASE /\ c.sensor_interval_ms = AppConfig["sensor_interval_ms"]
             /\ ValueOf(lines, "sensor_interval_ms") = AppConfig["sensor_interval_ms"]
    <3>1. 500 % Word = 500
      BY WordAssumption
    <3> QED
      BY <2>1, <3>1 DEF AppConfig
  <2>2. CASE \E i \in 1..Len(lines) :
                /\ c.sensor_interval_ms = Stored(lines[i])
                /\ lines[i].key = "sensor_interval_ms"
                /\ ValueOf(lines, "sensor_interval_ms") = lines[i].n
    BY <1>6, <2>2 DEF Stored
  <2> QED
    BY <1>5, <2>1, <2>2, ValueIsValueOf
<1> QED
  BY <1>0, <1>4, <1>5, <1>7, <1>8, <1>9 DEF Meaningful

(***************************************************************************)
(* load_config_file refuses nothing else: a file without a malformed line, *)
(* and with a worker and a queue, is loaded.                               *)
(***************************************************************************)
THEOREM MeantIsLoaded ==
    ASSUME NEW lines \in Seq(ConfigLine), Meaningful(lines)
    PROVE  LoadConfigFile(lines).ok
<1> DEFINE read == CHOOSE f : IsReading(f, lines, Len(lines))
           c == read[Len(lines)]
<1>0. Len(lines) \in Nat /\ DOMAIN lines = 1..Len(lines)
  BY LenProperties
<1>1. IsReading(read, lines, Len(lines))
  BY <1>0, ReadingExists, Zenon
<1>2. LoadConfigFile(lines) = [c EXCEPT !.ok = @ /\ c.worker_threads # 0
                                                 /\ c.queue_capacity # 0]
  BY DEF LoadConfigFile, IsReading
<1> HIDE DEF read
<1>3. ReadSoFar(c, lines, Len(lines))
  BY <1>1, ReadAll
<1> HIDE DEF c
<1>4. c.ok
  BY <1>0, <1>3 DEF ReadSoFar, Meaningful
<1>5. ASSUME NEW key \in {"worker_threads", "queue_capacity"} PROVE c[key] # 0
  <2>1. IsValue(c[key], lines, key, Len(lines))
    BY <1>3, <1>4 DEF ReadSoFar, Fields
  <2>2. ValueOf(lines, key) > 0 /\ AppConfig[key] # 0
    BY DEF Meaningful, AppConfig
  <2>3. CASE c[key] = AppConfig[key]
    BY <2>2, <2>3
  <2>4. CASE \E i \in 1..Len(lines) : /\ c[key] = Stored(lines[i])
                                      /\ lines[i].key = key
                                      /\ ValueOf(lines, key) = lines[i].n
    BY <2>2, <2>4 DEF Stored
  <2> QED
    BY <2>1, <2>3, <2>4, ValueIsValueOf
<1>6. c.worker_threads # 0 /\ c.queue_capacity # 0
  BY <1>5
<1> QED
  BY <1>2, <1>3, <1>4, <1>6, Zenon DEF ReadSoFar, Fields

(***************************************************************************)
(* For all files of well-typed lines, whatever edits, crashes and other    *)
(* daemons come between: a reload answered "ok" has left the driver        *)
(* enabled with the interval the file says, if it fits in 32 bits.         *)
(***************************************************************************)
THEOREM ReloadAlwaysFollowsFile == Spec => []ReloadFollowsFile
<1> DEFINE Inv == file \in Files /\ ReloadFollowsFile
<1>1. Init => Inv
  BY DEF Init, ReloadFollowsFile
<1>2. Inv /\ [Next]_deployVars => Inv'
  <2> SUFFICES ASSUME file \in Files, ReloadFollowsFile, [Next]_deployVars
               PROVE  Inv'
    OBVIOUS
  <2>1. CASE UNCHANGED <<driver, asked>> /\ file' \in Files
    BY <2>1 DEF ReloadFollowsFile
  <2>2. ASSUME NEW d \in Daemons, Start(d) \/ UnlinkAtExit(d) \/ Return0(d)
                                  \/ Signalled(d) \/ Dies(d) \/ Terminated(d)
        PROVE  UNCHANGED <<driver, asked, file>>
    BY <2>2 DEF Start, Load, TcpBind, TcpListen, UnlinkPath, BindControl, ListenControl,
                UnlinkAtExit, Return0, Signalled, Dies, Terminated, Ends
  <2>3. CASE WriteDriver
    BY <2>3 DEF WriteDriver, ReloadFollowsFile
  <2>4. ASSUME NEW d \in Daemons, Serve(d) PROVE Inv'
    <3>1. file' = file /\ (Reload(d) \/ UNCHANGED <<driver, asked>>)
      BY <2>4 DEF Serve
    <3> DEFINE interval == LoadConfigFile(file).sensor_interval_ms
               value == ValueOf(file, "sensor_interval_ms")
               Sets == /\ LoadConfigFile(file).ok
                       /\ driver' = [interval_ms |-> interval, enabled |-> 1]
                       /\ asked' = IF Meaningful(file) THEN value ELSE 1
    <3>2. ASSUME Reload(d) PROVE Sets \/ UNCHANGED <<driver, asked>>
      BY <3>2, Zenon DEF Reload
    <3>3. CASE Sets
      <4>1. Sets
        BY <3>3
      <4>2. Meaningful(file) /\ value \in Nat /\ interval = value % Word
        BY <4>1, LoadedAsMeant, DeploymentAssumption
      <4> HIDE DEF interval, value
      <4>3. value < Word => value % Word = value
        BY <4>2, WordAssumption
      <4> QED
        BY <3>1, <4>1, <4>2, <4>3, WordAssumption DEF ReloadFollowsFile
    <3> HIDE DEF Sets
    <3> QED
      BY <2>1, <3>1, <3>2, <3>3
  <2> QED
    BY <2>1, <2>2, <2>3, <2>4 DEF Next, Daemon, deployVars, Connect, CtlReturns, Edit
<1>3. Inv => ReloadFollowsFile
  OBVIOUS
<1> QED
  BY <1>1, <1>2, <1>3, PTL DEF Spec

-----------------------------------------------------------------------------
(***************************************************************************)
(* Recovery.  Whoever listens on the port is past listen_on and before the *)
(* end of the process: a crash leaves no listener behind.                  *)
(***************************************************************************)
ListenerHolds ==
    listener = "none" \/ (listener \in Daemons /\ at[listener] \in Holding)

ServiceInv == PathInv /\ ListenerHolds /\ file \in Files

(* The end of a process keeps it. *)
LEMMA GoneFrees ==
    ASSUME ServiceInv, NEW d \in Daemons, NEW state, Gone(d, state)
    PROVE  ListenerHolds'
<1>1. CASE listener = d
  BY <1>1 DEF Gone, ListenerHolds
<1>2. CASE listener # d
  BY <1>2 DEF Gone, ListenerHolds, ServiceInv, PathInv
<1> QED
  BY <1>1, <1>2

(* So does every other step of a daemon. *)
LEMMA MoveKeepsListener ==
    ASSUME ServiceInv, NEW d \in Daemons, NEW to, at' = [at EXCEPT ![d] = to],
           at[d] \in Holding => to \in Holding, listener' = listener
    PROVE  ListenerHolds'
BY DEF ListenerHolds, ServiceInv, PathInv

(* Every step keeps it. *)
LEMMA ServiceInvStep == ServiceInv /\ [Next]_deployVars => ServiceInv'
<1> SUFFICES ASSUME ServiceInv, [Next]_deployVars PROVE ListenerHolds' /\ file' \in Files
  BY NextPathInv DEF ServiceInv
<1>1. ASSUME NEW d \in Daemons, TcpBind(d) \/ TcpListen(d) \/ BindControl(d)
      PROVE  ListenerHolds'
  <2>1. CASE \E state : Gone(d, state)
    BY <2>1, GoneFrees
  <2>2. CASE \/ Goes(d, "tcp_bind", "tcp_listen") /\ listener' = listener
             \/ Goes(d, "bind", "listen") /\ listener' = listener
    BY <2>2, MoveKeepsListener, Zenon DEF Goes, Holding
  <2>3. CASE Goes(d, "tcp_listen", "path") /\ listener' = d
    BY <2>3 DEF Goes, ListenerHolds, Holding, ServiceInv, PathInv
  <2> QED
    BY <1>1, <2>1, <2>2, <2>3, Zenon DEF TcpBind, TcpListen, BindControl
<1>2. ASSUME NEW d \in Daemons, Load(d) \/ UnlinkPath(d) \/ ListenControl(d)
      PROVE  ListenerHolds'
  <2>1. CASE Load(d)
    BY <2>1, MoveKeepsListener, Zenon DEF Load, Holding
  <2>2. CASE UnlinkPath(d) \/ ListenControl(d)
    BY <2>2, MoveKeepsListener DEF UnlinkPath, ListenControl, Goes, Holding
  <2> QED
    BY <1>2, <2>1, <2>2
<1>3. ASSUME NEW d \in Daemons,
             \/ Serve(d) \/ Signalled(d) \/ UnlinkAtExit(d) \/ Return0(d)
             \/ Dies(d) \/ Terminated(d)
      PROVE  ListenerHolds'
  <2>1. CASE Return0(d) \/ Dies(d) \/ Terminated(d)
    BY <2>1, GoneFrees DEF Return0, Dies, Terminated, Ends
  <2>2. CASE Signalled(d) \/ UnlinkAtExit(d)
    BY <2>2, MoveKeepsListener DEF Signalled, UnlinkAtExit, Goes, Holding
  <2>3. CASE Serve(d)
    <3>1. CASE UNCHANGED <<at, listener>>
      BY <3>1 DEF ListenerHolds, ServiceInv
    <3>2. CASE Goes(d, "up", "unlink") /\ listener' = listener
      BY <3>2, MoveKeepsListener, Zenon DEF Goes, Holding
    <3> QED
      BY <2>3, <3>1, <3>2, Zenon DEF Serve
  <2> QED
    BY <1>3, <2>1, <2>2, <2>3
<1>4. CASE \/ UNCHANGED deployVars \/ Connect \/ CtlReturns \/ Edit \/ WriteDriver
  BY <1>4, Zenon DEF deployVars, Connect, CtlReturns, Edit, WriteDriver, ListenerHolds,
              ServiceInv
<1>5. ListenerHolds'
  BY <1>1, <1>2, <1>3, <1>4 DEF Next, Daemon, Start
<1>6. file' \in Files
  <2>1. ASSUME NEW d \in Daemons, Daemon(d) \/ Signalled(d) \/ Dies(d) \/ Terminated(d)
        PROVE  file' = file
    BY <2>1, Zenon DEF Daemon, Start, Load, TcpBind, TcpListen, UnlinkPath, BindControl,
                ListenControl, Serve, UnlinkAtExit, Return0, Signalled, Dies, Terminated, Ends
  <2> QED
    BY <1>4, <2>1, Zenon DEF Next, ServiceInv
<1> QED
  BY <1>5, <1>6

(* The port is held by a daemon that runs, or free. *)
LEMMA ServiceInvariant == Spec => []ServiceInv
<1>1. Init => ServiceInv
  BY DEF Init, ServiceInv, ListenerHolds, PathInv, HoldersListen, Holding
<1> QED
  BY <1>1, ServiceInvStep, PTL DEF Spec

(***************************************************************************)
(* Weak fairness of daemon d and of its restart, written with a condition  *)
(* under which FairSpec's action can be taken, in place of ENABLED; a      *)
(* daemon that is up need not do anything.                                 *)
(***************************************************************************)
Runs(d) == at[d] # "down" /\ Daemon(d)
CanRun(d) ==
    \/ at[d] \in {"tcp_bind", "tcp_listen", "path", "bind", "listen", "unlink", "close"}
    \/ at[d] = "failed" /\ Meaningful(file)
FairDaemon(d) == []<>~CanRun(d) \/ []<><<Runs(d)>>_deployVars
FairDaemons == \A d \in Daemons : FairDaemon(d)

(* From some time on no daemon crashes or is killed. *)
NoCrash == \A d \in Daemons : ~Dies(d) /\ ~Terminated(d)
CrashesEnd == <>[][NoCrash]_deployVars

(* Nobody serves, although the file is good. *)
Out == Meaningful(file) /\ \A d \in Daemons : at[d] # "up"

Moves(d, to) == at' = [at EXCEPT ![d] = to]

(* The steps of a daemon in an outage. *)
Advance(d) ==
    \/ at[d] \in {"down", "failed"} /\ Moves(d, "tcp_bind") /\ listener' = listener
    \/ /\ at[d] = "tcp_bind" /\ listener = "none"
       /\ Moves(d, "tcp_listen") /\ listener' = listener
    \/ /\ at[d] \in {"tcp_bind", "tcp_listen"} /\ listener # "none"
       /\ Moves(d, "failed") /\ listener' = listener
    \/ /\ at[d] = "tcp_listen" /\ listener = "none"
       /\ Moves(d, "path") /\ listener' = d
    \/ at[d] = "path" /\ Moves(d, "bind") /\ listener' = listener
    \/ at[d] = "bind" /\ Moves(d, "listen") /\ listener' = listener
    \/ at[d] = "unlink" /\ Moves(d, "close") /\ listener' = listener
    \/ at[d] = "close" /\ Moves(d, "down") /\ listener' = "none"

(* Every step of a daemon is one of them: the bind always finds the path   *)
(* free, and a good file is loaded.                                        *)
LEMMA DaemonAdvances ==
    ASSUME ServiceInv, Out, Out', NEW d \in Daemons, Daemon(d)
    PROVE  Advance(d)
<1>1. DOMAIN at = Daemons /\ at[d] # "up" /\ at'[d] # "up" /\ d # "none"
  BY DeploymentAssumption DEF ServiceInv, PathInv, Out
<1>2. CASE Load(d)
  <2>1. LoadConfigFile(file).ok
    BY MeantIsLoaded, DeploymentAssumption, Zenon DEF Out, ServiceInv
  <2> QED
    BY <1>2, <2>1, Zenon DEF Load, Advance, Moves
<1>3. CASE TcpBind(d) \/ TcpListen(d)
  <2>1. listener # d
    BY <1>1, <1>3 DEF TcpBind, TcpListen, ServiceInv, ListenerHolds, Holding
  <2> QED
    BY <1>3, <2>1, Zenon DEF TcpBind, TcpListen, PortFree, Goes, Gone, Advance, Moves
<1>4. CASE UnlinkPath(d) \/ UnlinkAtExit(d)
  BY <1>4, Zenon DEF UnlinkPath, UnlinkAtExit, Goes, Advance, Moves
<1>5. CASE BindControl(d)
  <2>1. path = "none"
    BY <1>5 DEF BindControl, ServiceInv, PathInv
  <2> QED
    BY <1>5, <2>1, Zenon DEF BindControl, Goes, Advance, Moves
<1>6. CASE Return0(d)
  <2>1. listener = d
    BY <1>6 DEF Return0, ServiceInv, PathInv, HoldersListen, Holding
  <2> QED
    BY <1>6, <2>1, Zenon DEF Return0, Gone, Advance, Moves
<1>7. ~ListenControl(d) /\ ~Serve(d)
  BY <1>1 DEF ListenControl, Serve, Goes
<1> QED
  BY <1>2, <1>3, <1>4, <1>5, <1>6, <1>7 DEF Daemon, Start

(* What can happen in an outage without crashes. *)
LEMMA OutageStep ==
    ASSUME ServiceInv, Out, Out', [Next]_deployVars, [NoCrash]_deployVars
    PROVE  UNCHANGED <<at, listener>> \/ \E d \in Daemons : Advance(d)
<1>1. CASE UNCHANGED deployVars
  BY <1>1 DEF deployVars
<1>2. CASE Connect \/ CtlReturns \/ Edit \/ WriteDriver
  BY <1>2, Zenon DEF Connect, CtlReturns, Edit, WriteDriver
<1>3. ASSUME NEW d \in Daemons, Daemon(d) PROVE Advance(d)
  BY <1>3, DaemonAdvances
<1>4. ASSUME NEW d \in Daemons PROVE ~Signalled(d)
  BY DEF Signalled, Goes, Out
<1> QED
  BY <1>1, <1>2, <1>3, <1>4 DEF Next, NoCrash

(* What it means for one daemon. *)
LEMMA OutageStepOf ==
    ASSUME ServiceInv, Out, Out', [Next]_deployVars, [NoCrash]_deployVars,
           NEW d \in Daemons
    PROVE  at'[d] = at[d] \/ Advance(d)
<1>1. ASSUME NEW e \in Daemons, Advance(e), e # d PROVE at'[d] = at[d]
  <2>1. PICK to : Moves(e, to)
    BY <1>1, Zenon DEF Advance
  <2> QED
    BY <1>1, <2>1 DEF Moves, ServiceInv, PathInv
<1> QED
  BY <1>1, OutageStep

(* An outage without crashes, from now on. *)
Outage ==
    /\ []ServiceInv /\ []Out
    /\ [][Next]_deployVars /\ [][NoCrash]_deployVars

(* Fairness does not wear off: what runs on now runs on later. *)
LEMMA FairDaemonsStay == FairDaemons => []FairDaemons
<1>1. ASSUME NEW d \in Daemons PROVE FairDaemon(d) => []FairDaemon(d)
  BY PTL DEF FairDaemon
<1>2. FairDaemons => \A d \in Daemons : []FairDaemon(d)
  BY <1>1 DEF FairDaemons
<1>3. (\A d \in Daemons : []FairDaemon(d)) => [](\A d \in Daemons : FairDaemon(d))
  OBVIOUS
<1> QED
  BY <1>2, <1>3 DEF FairDaemons

IsAt(d, place) == at[d] = place

(* Past the port, with the path its own, a daemon comes up. *)
Binding(d) == at[d] \in {"path", "bind", "listen"}

(* In an outage a fair daemon cannot be there: it would come up. *)
LEMMA BinderComesUp ==
    ASSUME NEW d \in Daemons PROVE Outage /\ FairDaemon(d) => []~Binding(d)
<1> DEFINE Step == /\ ServiceInv /\ Out /\ Out'
                   /\ [Next]_deployVars /\ [NoCrash]_deployVars
<1>1. Step /\ IsAt(d, "path") => IsAt(d, "path")' \/ IsAt(d, "bind")'
  BY OutageStepOf DEF Advance, Moves, IsAt, ServiceInv, PathInv
<1>2. Step /\ IsAt(d, "bind") => IsAt(d, "bind")' \/ IsAt(d, "listen")'
  BY OutageStepOf DEF Advance, Moves, IsAt, ServiceInv, PathInv
<1>3. Step /\ IsAt(d, "listen") => IsAt(d, "listen")'
  BY OutageStepOf DEF Advance, Moves, IsAt, ServiceInv, PathInv
<1>4. Step /\ <<Runs(d)>>_deployVars
          => ~IsAt(d, "listen") /\ (IsAt(d, "path") => IsAt(d, "bind")')
                              /\ (IsAt(d, "bind") => IsAt(d, "listen")')
  BY DaemonAdvances DEF Runs, Advance, Moves, IsAt, ServiceInv, PathInv
<1>5. CanRun(d) \/ ~(IsAt(d, "path") \/ IsAt(d, "bind") \/ IsAt(d, "listen"))
  BY DEF CanRun, IsAt
<1>6. Binding(d) <=> (IsAt(d, "path") \/ IsAt(d, "bind") \/ IsAt(d, "listen"))
  BY DEF Binding, IsAt
<1> QED
  BY <1>1, <1>2, <1>3, <1>4, <1>5, <1>6, PTL DEF Outage, FairDaemon

(* So in an outage nobody is between the port and service. *)
NobodyBinds == \A d \in Daemons : ~Binding(d)

(* So it is, at every moment of an outage. *)
LEMMA OutageNobodyBinds == Outage /\ FairDaemons => []NobodyBinds
<1>1. Outage /\ FairDaemons => \A d \in Daemons : []~Binding(d)
  BY BinderComesUp DEF FairDaemons
<1>2. (\A d \in Daemons : []~Binding(d)) => [](\A d \in Daemons : ~Binding(d))
  OBVIOUS
<1> QED
  BY <1>1, <1>2 DEF NobodyBinds

PortFreed == listener = "none"
Leaving(d, place) == listener = d /\ at[d] = place

(* A daemon that was on its way out frees the port. *)
LEMMA LeaverFrees ==
    ASSUME NEW d \in Daemons
    PROVE  Outage /\ FairDaemons
               => (Leaving(d, "unlink") \/ Leaving(d, "close") => <>PortFreed)
<1> DEFINE Step == /\ ServiceInv /\ Out /\ Out'
                   /\ [Next]_deployVars /\ [NoCrash]_deployVars
<1>1. Step /\ Leaving(d, "unlink") => Leaving(d, "unlink")' \/ Leaving(d, "close")'
  <2> SUFFICES ASSUME Step, Leaving(d, "unlink")
               PROVE  listener' = d /\ at'[d] \in {"unlink", "close"}
    BY DEF Leaving
  <2>1. d # "none"
    BY DeploymentAssumption
  <2>2. ASSUME NEW e \in Daemons, Advance(e), e # d
        PROVE  listener' = d /\ at'[d] = at[d]
    <3>1. at[e] \notin Holding
      BY <2>2 DEF Leaving, ServiceInv, PathInv, HoldersListen
    <3> QED
      BY <2>1, <2>2, <3>1 DEF Advance, Moves, Leaving, Holding, ServiceInv, PathInv
  <2>3. CASE Advance(d)
    BY <2>3 DEF Advance, Moves, Leaving, ServiceInv, PathInv
  <2> QED
    BY <2>2, <2>3, OutageStep DEF Leaving
<1>2. Step /\ Leaving(d, "close") => Leaving(d, "close")' \/ PortFreed'
  <2> SUFFICES ASSUME Step, Leaving(d, "close")
               PROVE  listener' = "none" \/ (listener' = d /\ at'[d] = "close")
    BY DEF Leaving, PortFreed
  <2>1. d # "none"
    BY DeploymentAssumption
  <2>2. ASSUME NEW e \in Daemons, Advance(e), e # d
        PROVE  listener' = d /\ at'[d] = at[d]
    <3>1. at[e] \notin Holding
      BY <2>2 DEF Leaving, ServiceInv, PathInv, HoldersListen
    <3> QED
      BY <2>1, <2>2, <3>1 DEF Advance, Moves, Leaving, Holding, ServiceInv, PathInv
  <2>3. CASE Advance(d)
    BY <2>3 DEF Advance, Moves, Leaving, ServiceInv, PathInv
  <2> QED
    BY <2>2, <2>3, OutageStep DEF Leaving
<1>3. Step /\ <<Runs(d)>>_deployVars
          => /\ Leaving(d, "unlink") => Leaving(d, "close")'
             /\ Leaving(d, "close") => PortFreed'
  BY DaemonAdvances DEF Runs, Advance, Moves, Leaving, PortFreed, ServiceInv, PathInv
<1>4. Leaving(d, "unlink") \/ Leaving(d, "close") => CanRun(d)
  BY DEF Leaving, CanRun
<1>5. FairDaemons => FairDaemon(d)
  BY DEF FairDaemons
<1> QED
  BY <1>1, <1>2, <1>3, <1>4, <1>5, PTL DEF Outage, FairDaemon

(* In an outage the port becomes free and stays free. *)
LEMMA OutagePortFree == Outage /\ FairDaemons => <>[]PortFreed
<1>1. /\ ServiceInv /\ Out /\ Out' /\ [Next]_deployVars /\ [NoCrash]_deployVars
      /\ NobodyBinds' /\ PortFreed
      => PortFreed'
  <2> SUFFICES ASSUME ServiceInv, Out, Out', [Next]_deployVars, [NoCrash]_deployVars,
                      NobodyBinds', PortFreed
               PROVE  listener' = "none"
    BY DEF PortFreed
  <2>1. ASSUME NEW d \in Daemons, Advance(d) PROVE listener' = "none"
    BY <2>1 DEF Advance, Moves, PortFreed, NobodyBinds, Binding, ServiceInv, PathInv
  <2> QED
    BY <2>1, OutageStep DEF PortFreed
<1>2. Outage /\ FairDaemons
          => \A d \in Daemons :
                Leaving(d, "unlink") \/ Leaving(d, "close") => <>PortFreed
  BY LeaverFrees
<1>3. ServiceInv /\ Out /\ NobodyBinds
          => \/ PortFreed
             \/ \E d \in Daemons : Leaving(d, "unlink") \/ Leaving(d, "close")
  BY DEF ServiceInv, ListenerHolds, Out, NobodyBinds, Binding, Holding, Leaving, PortFreed
<1>4. Outage /\ FairDaemons => ServiceInv /\ Out /\ NobodyBinds
  BY OutageNobodyBinds, PTL DEF Outage
<1>5. Outage /\ FairDaemons => PortFreed \/ <>PortFreed
  BY <1>2, <1>3, <1>4
<1> QED
  BY <1>1, <1>5, OutageNobodyBinds, PTL DEF Outage

(* With the port free a daemon that is started gets it. *)
Trying(d) == at[d] \in {"failed", "tcp_bind", "tcp_listen"}

(* With the port free it gets past the port, which nobody does in an outage. *)
LEMMA StarterBinds ==
    ASSUME NEW d \in Daemons
    PROVE  Outage /\ FairDaemon(d) /\ []PortFreed /\ []~Binding(d) => ~Trying(d)
<1> DEFINE Step == /\ ServiceInv /\ Out /\ Out' /\ PortFreed
                   /\ [Next]_deployVars /\ [NoCrash]_deployVars
<1>1. Step /\ IsAt(d, "failed") => IsAt(d, "failed")' \/ IsAt(d, "tcp_bind")'
  BY OutageStepOf DEF Advance, Moves, IsAt, ServiceInv, PathInv
<1>2. Step /\ IsAt(d, "tcp_bind") => IsAt(d, "tcp_bind")' \/ IsAt(d, "tcp_listen")'
  BY OutageStepOf DEF Advance, Moves, IsAt, PortFreed, ServiceInv, PathInv
<1>3. Step /\ IsAt(d, "tcp_listen") => IsAt(d, "tcp_listen")' \/ Binding(d)'
  BY OutageStepOf DEF Advance, Moves, IsAt, Binding, PortFreed, ServiceInv, PathInv
<1>4. Step /\ <<Runs(d)>>_deployVars
          => /\ IsAt(d, "failed") => IsAt(d, "tcp_bind")'
             /\ IsAt(d, "tcp_bind") => IsAt(d, "tcp_listen")'
             /\ IsAt(d, "tcp_listen") => Binding(d)'
  BY DaemonAdvances DEF Runs, Advance, Moves, IsAt, Binding, PortFreed, ServiceInv, PathInv
<1>5. Out => CanRun(d) \/ ~(IsAt(d, "failed") \/ IsAt(d, "tcp_bind") \/ IsAt(d, "tcp_listen"))
  BY DEF CanRun, IsAt, Out
<1>6. Trying(d) => IsAt(d, "failed") \/ IsAt(d, "tcp_bind") \/ IsAt(d, "tcp_listen")
  BY DEF Trying, IsAt
<1> QED
  BY <1>1, <1>2, <1>3, <1>4, <1>5, <1>6, PTL DEF Outage, FairDaemon

(* A daemon that failed stays on its way up, also when it crashes again,   *)
(* unless it is terminated.                                                *)
LEMMA StarterStays ==
    ASSUME NEW d \in Daemons
    PROVE  ServiceInv /\ Out' /\ [Next]_deployVars /\ (Trying(d) \/ Binding(d))
               => (Trying(d) \/ Binding(d) \/ IsAt(d, "down"))'
<1> SUFFICES ASSUME ServiceInv, Out', [Next]_deployVars, Trying(d) \/ Binding(d)
             PROVE  at'[d] \in {"failed", "tcp_bind", "tcp_listen", "path", "bind",
                                 "listen", "down"}
  BY DEF Trying, Binding, IsAt
<1> DEFINE Safe == {"failed", "tcp_bind", "tcp_listen", "path", "bind", "listen", "down"}
<1>1. at[d] \in Safe /\ at[d] # "down" /\ DOMAIN at = Daemons
  BY DEF Trying, Binding, ServiceInv, PathInv
<1>2. ASSUME NEW e \in Daemons, NEW to, Moves(e, to), e = d => to \in Safe
      PROVE  at'[d] \in Safe
  BY <1>1, <1>2 DEF Moves
<1>3. ASSUME NEW e \in Daemons, Start(e) \/ Serve(e) \/ UnlinkAtExit(e) \/ Return0(e)
                                \/ Signalled(e) \/ Dies(e) \/ Terminated(e)
      PROVE  at' = at \/ \E to : Moves(e, to) /\ (e = d => to \in Safe)
  <2>1. CASE Load(e)
    BY <2>1, Zenon DEF Load, Moves
  <2>2. CASE TcpBind(e) \/ TcpListen(e) \/ BindControl(e)
    BY <2>2, Zenon DEF TcpBind, TcpListen, BindControl, Goes, Gone, Moves
  <2>3. CASE UnlinkPath(e)
    BY <2>3, Zenon DEF UnlinkPath, Goes, Moves
  <2>4. ~ListenControl(e)
    BY <1>1 DEF ListenControl, Goes, Out
  <2>5. CASE Serve(e) \/ UnlinkAtExit(e) \/ Return0(e) \/ Signalled(e)
    BY <1>1, <2>5, Zenon DEF Serve, UnlinkAtExit, Return0, Signalled, Goes, Gone, Moves
  <2>6. CASE Dies(e) \/ Terminated(e)
    BY <2>6, Zenon DEF Dies, Terminated, Ends, Gone, Moves
  <2> QED
    BY <1>3, <2>1, <2>2, <2>3, <2>4, <2>5, <2>6 DEF Start
<1>4. CASE UNCHANGED at
  BY <1>1, <1>4
<1> QED
  BY <1>2, <1>3, <1>4, Zenon
  DEF Next, Daemon, deployVars, Connect, CtlReturns, Edit, WriteDriver

(***************************************************************************)
(* For any number of daemons, and with crashes at any point of start-up,   *)
(* work or exit: once crashes stop, a service that failed comes up again   *)
(* if its file is good and no signal terminates it.  Neither a stale path  *)
(* nor the port of a process that crashed or exits, nor other daemons that *)
(* start, prevent it.                                                      *)
(***************************************************************************)
THEOREM ServiceAlwaysRecovers == Spec /\ FairDaemons /\ CrashesEnd => ServiceRecovers
<1>1. ASSUME NEW d \in Daemons
      PROVE  Spec /\ FairDaemons /\ CrashesEnd
                => [](IsAt(d, "failed") => <>(~Out \/ IsAt(d, "down")))
  <2>1. IsAt(d, "failed") => Trying(d)
    BY DEF IsAt, Trying
  <2>2. FairDaemons => FairDaemon(d)
    BY DEF FairDaemons
  <2>3. NobodyBinds => ~Binding(d)
    BY DEF NobodyBinds
  <2> QED
    BY <2>1, <2>2, <2>3, ServiceInvariant, FairDaemonsStay, OutageNobodyBinds,
       OutagePortFree, StarterBinds, StarterStays, PTL DEF Spec, CrashesEnd, Outage
<1>2. ASSUME NEW d \in Daemons
      PROVE  Spec /\ FairDaemons /\ CrashesEnd
                => (at[d] = "failed" ~> \/ \E e \in Daemons : at[e] = "up"
                                        \/ at[d] = "down" \/ ~Meaningful(file))
  <2>1. at[d] = "failed" => IsAt(d, "failed")
    BY DEF IsAt
  <2>2. ~Out \/ IsAt(d, "down") => \/ \E e \in Daemons : at[e] = "up"
                                  \/ at[d] = "down" \/ ~Meaningful(file)
    BY DEF Out, IsAt
  <2> QED
    BY <1>1, <2>1, <2>2, PTL
<1> QED
  BY <1>2 DEF ServiceRecovers
=============================================================================
