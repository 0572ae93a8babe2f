------------------------------- MODULE Config -------------------------------
(***************************************************************************)
(* load_config_file, userspace/src/config/config.cpp, as a function of the *)
(* lines of a file.  A line [key, numeric, n] has been stripped of its     *)
(* comment and trimmed; its key is one of the file's keys, "blank" if      *)
(* nothing is left, or "broken" if there is no '='.  Its value is the      *)
(* number n as stoul reads it, or not numeric (stoul throws).  The keys    *)
(* with text values, and unknown keys, which are ignored, are "text".      *)
(***************************************************************************)
EXTENDS Naturals, SequencesExt

CONSTANT Word    \* 2^32, the range of uint32_t sensor_interval_ms

ASSUME WordAssumption == Word \in Nat /\ Word > 60000

PortKeys == {"tcp_listen_port", "udp_export_port"}
SizeKeys == {"worker_threads", "log_rotate_bytes", "queue_capacity"}
NumberKeys == PortKeys \union SizeKeys \union {"sensor_interval_ms"}

(* A line of a file. *)
ConfigLine ==
    [key : NumberKeys \union {"simulate_device", "text", "blank", "broken"},
     numeric : BOOLEAN, n : Nat]

(* The member initialisers of AppConfig; ok: nothing was thrown. *)
AppConfig == [tcp_listen_port |-> 9090, udp_export_port |-> 9091,
              worker_threads |-> 2, log_rotate_bytes |-> 1024 * 1024,
              queue_capacity |-> 1024, simulate_device |-> 0,
              sensor_interval_ms |-> 500, ok |-> TRUE]

(* to_port, and the narrowing of the interval. *)
Accepted(line) ==
    /\ line.key # "broken"
    /\ line.key \in NumberKeys => line.numeric
    /\ line.key \in PortKeys => line.n \in 1..65535

Stored(line) == IF line.key = "sensor_interval_ms" THEN line.n % Word ELSE line.n

(* One turn of the loop.  Mutant: the first assignment of a key wins. *)
ReadLineOnce(config, line) ==
    IF ~Accepted(line) THEN [config EXCEPT !.ok = FALSE]
    ELSE IF line.key \in DOMAIN config /\ config[line.key] = AppConfig[line.key]
        THEN [config EXCEPT ![line.key] = Stored(line)]
    ELSE config

ReadLine(config, line) ==
    IF ~Accepted(line) THEN [config EXCEPT !.ok = FALSE]
    ELSE IF line.key \in DOMAIN config
        THEN [config EXCEPT ![line.key] = Stored(line)]
    ELSE config

(***************************************************************************)
(* load_config_file.  A file that cannot be opened throws as well: to the  *)
(* callers it is what a file of one broken line is.                        *)
(***************************************************************************)
LoadConfigFile(file) ==
    LET read[n \in 0..Len(file)] ==
            IF n = 0 THEN AppConfig ELSE ReadLine(read[n - 1], file[n])
        config == read[Len(file)]
    IN  [config EXCEPT !.ok = @ /\ config.worker_threads # 0
                                /\ config.queue_capacity # 0]

-----------------------------------------------------------------------------
(***************************************************************************)
(* What a file means, without reading it line by line: it is refused if a  *)
(* line is malformed or there would be no worker or no queue, and a key    *)
(* has the value of its last line, or its default.                         *)
(***************************************************************************)
ValueOf(file, key) ==
    LET at == {i \in DOMAIN file : file[i].key = key}
    IN  IF at = {} THEN AppConfig[key] ELSE file[Max(at)].n

Meaningful(file) ==
    /\ \A i \in DOMAIN file : Accepted(file[i])
    /\ ValueOf(file, "worker_threads") > 0
    /\ ValueOf(file, "queue_capacity") > 0
=============================================================================
