---------------------------- MODULE MCDeployment ----------------------------
(* Instances of Deployment for TLC. *)
EXTENDS Deployment

Line(key, n) == [key |-> key, numeric |-> TRUE, n |-> n]

Interval(n) == Line("sensor_interval_ms", n)

(* Files that are refused for a reason of each kind, files the driver      *)
(* refuses, and files where the last of two assignments counts.            *)
SomeFiles ==
    {<<>>, <<Line("simulate_device", 1)>>,
     <<Interval(20), Line("broken", 0)>>,
     <<Line("tcp_listen_port", 65536), Interval(20)>>,
     <<Line("worker_threads", 0), Line("blank", 0)>>,
     <<[key |-> "queue_capacity", numeric |-> FALSE, n |-> 0]>>,
     <<Interval(9)>>, <<Interval(40), Interval(20)>>,
     <<Line("text", 0), Interval(Word + 30)>>}
=============================================================================
