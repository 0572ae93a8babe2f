----------------------------- MODULE Deployment -----------------------------
(***************************************************************************)
(* sensorhubd as it is deployed: daemons that are started, and started     *)
(* again after they failed, on one configuration file that is edited       *)
(* meanwhile, and therefore on one TCP port and one control socket path;   *)
(* sensorctl, which talks to whoever owns the path; and the driver's       *)
(* configuration, which reload sets.                                       *)
(*                                                                         *)
(* The steps of a daemon are those of main.cpp that touch what daemons     *)
(* share.  bind with SO_REUSEADDR fails only if another socket listens on  *)
(* the port, listen only if another one does by then.                      *)
(***************************************************************************)
EXTENDS Config

CONSTANTS Daemons,    \* places for a process
          Files,      \* the contents the file may have
          MaxDeaths   \* bound on crashes and kills

ASSUME DeploymentAssumption ==
    /\ Files # {} /\ Files \subseteq Seq(ConfigLine) /\ MaxDeaths \in Nat
    /\ "none" \notin Daemons /\ "stale" \notin Daemons

VARIABLES file,     \* the configuration file
          at,       \* where each daemon is in main(); "down": not running,
                    \* "failed": ended in a way that systemd calls failed
          simulate, \* its config.simulate_device
          listener, \* the daemon that listens on the TCP port, or "none"
          path,     \* the daemon whose socket the path names, "none",
                    \* or "stale"
          ctl,      \* sensorctl: its daemon, command and what it printed
          driver,   \* the driver's configuration
          asked,    \* the interval of the last reload answered "ok", or 0
          deaths    \* crashes and kills so far

deployVars ==
    <<file, at, simulate, listener, path, ctl, driver, asked, deaths>>

NoCtl == [to |-> "none", command |-> "none", printed |-> "none"]
Listening == {"up", "unlink", "close"}

Init ==
    /\ file \in Files
    /\ at = [d \in Daemons |-> "down"] /\ simulate = [d \in Daemons |-> FALSE]
    /\ listener = "none" /\ path = "none"
    /\ ctl = NoCtl /\ deaths = 0
    /\ driver = [interval_ms |-> 500, enabled |-> 1] /\ asked = 0

Goes(d, from, to) == at[d] = from /\ at' = [at EXCEPT ![d] = to]

(* The process is gone: its sockets close, the path stays. *)
Gone(d, state) ==
    /\ at' = [at EXCEPT ![d] = state]
    /\ simulate' = [simulate EXCEPT ![d] = FALSE]
    /\ listener' = IF listener = d THEN "none" ELSE listener
    /\ path' = IF path = d THEN "stale" ELSE path
    /\ ctl' = IF ctl.to = d /\ ctl.printed = "none"
              THEN [ctl EXCEPT !.printed = "nothing"] ELSE ctl

-----------------------------------------------------------------------------
(* load_config_file; a configuration that is refused ends the process. *)
Load(d) ==
    LET config == LoadConfigFile(file)
    IN  /\ at[d] \in {"down", "failed"}
        /\ at' = [at EXCEPT ![d] = IF config.ok THEN "tcp_bind" ELSE "failed"]
        /\ simulate' = [simulate EXCEPT
                ![d] = config.ok /\ config.simulate_device # 0]
        /\ UNCHANGED <<file, listener, path, ctl, driver, asked, deaths>>

(* listen_on.  Mutant: SO_REUSEPORT, with which several sockets listen. *)
PortShared(d) == TRUE
PortFree(d) == listener = "none"

TcpBind(d) ==
    /\ at[d] = "tcp_bind"
    /\ IF PortFree(d) THEN /\ Goes(d, "tcp_bind", "tcp_listen")
                           /\ UNCHANGED <<simulate, listener, path, ctl>>
       ELSE Gone(d, "failed")
    /\ UNCHANGED <<file, driver, asked, deaths>>

TcpListen(d) ==
    /\ at[d] = "tcp_listen"
    /\ IF PortFree(d) THEN /\ Goes(d, "tcp_listen", "path") /\ listener' = d
                           /\ UNCHANGED <<simulate, path, ctl>>
       ELSE Gone(d, "failed")
    /\ UNCHANGED <<file, driver, asked, deaths>>

(* The workers, the device and the signalfd are made (a failure is Dies);  *)
(* then create_control_socket: unlink, bind, listen.  Mutant: no unlink.   *)
KeepPath(d) ==
    /\ Goes(d, "path", "bind")
    /\ UNCHANGED <<file, simulate, listener, path, ctl, driver, asked, deaths>>

UnlinkPath(d) ==
    /\ Goes(d, "path", "bind")
    /\ path' = "none"
    /\ UNCHANGED <<file, simulate, listener, ctl, driver, asked, deaths>>

BindControl(d) ==
    /\ at[d] = "bind"
    /\ IF path = "none"
       THEN /\ Goes(d, "bind", "listen") /\ path' = d
            /\ UNCHANGED <<simulate, listener, ctl>>
       ELSE Gone(d, "failed")
    /\ UNCHANGED <<file, driver, asked, deaths>>

ListenControl(d) ==
    /\ Goes(d, "listen", "up")
    /\ UNCHANGED <<file, simulate, listener, path, ctl, driver, asked, deaths>>

-----------------------------------------------------------------------------
(* The driver's answer to an interval: -EINVAL outside 10..60000. *)
ValidInterval(interval_ms) == 10 <= interval_ms /\ interval_ms <= 60000

(***************************************************************************)
(* The reload command: the file is read again, and in driver mode its      *)
(* interval set and the device enabled, which the driver refuses out of    *)
(* its range.  An exception is answered "error" by ControlServer.          *)
(* (asked is 1, which no driver accepts, if the file had to be refused.)   *)
(***************************************************************************)
Reload(d) ==
    LET config == LoadConfigFile(file)
        interval == config.sensor_interval_ms
        fails == ~config.ok \/ ~(simulate[d] \/ ValidInterval(interval))
    IN  /\ ctl' = [ctl EXCEPT !.printed = IF fails THEN "error" ELSE "ok"]
        /\ IF fails \/ simulate[d] THEN UNCHANGED <<driver, asked>>
           ELSE /\ driver' = [interval_ms |-> interval, enabled |-> 1]
                /\ asked' = IF Meaningful(file)
                            THEN ValueOf(file, "sensor_interval_ms") ELSE 1

(* handle_control_command: reload or shutdown. *)
Serve(d) ==
    /\ at[d] = "up" /\ ctl.to = d /\ ctl.printed = "none"
    /\ \/ ctl.command = "reload" /\ Reload(d) /\ UNCHANGED at
       \/ /\ ctl.command = "shutdown" /\ Goes(d, "up", "unlink")
          /\ ctl' = [ctl EXCEPT !.printed = "ok"]
          /\ UNCHANGED <<driver, asked>>
    /\ UNCHANGED <<file, simulate, listener, path, deaths>>

(* SIGTERM or SIGINT, through the signalfd. *)
Signalled(d) ==
    /\ Goes(d, "up", "unlink")
    /\ UNCHANGED <<file, simulate, listener, path, ctl, driver, asked, deaths>>

(* After close and join: unlink of the path; the destructors. *)
UnlinkAtExit(d) ==
    /\ Goes(d, "unlink", "close")
    /\ path' = "none"
    /\ UNCHANGED <<file, simulate, listener, ctl, driver, asked, deaths>>

Return0(d) ==
    /\ at[d] = "close" /\ Gone(d, "down")
    /\ UNCHANGED <<file, driver, asked, deaths>>

(***************************************************************************)
(* An exception, std::terminate or a signal such as SIGKILL or SIGABRT     *)
(* ends the process, which on-failure restarts; or SIGTERM, SIGINT or      *)
(* SIGHUP, before main has blocked it or in a worker, which never does:    *)
(* to systemd these are a clean end.                                       *)
(***************************************************************************)
Ends(d, state) ==
    /\ at[d] \notin {"down", "failed"} /\ deaths < MaxDeaths
    /\ Gone(d, state)
    /\ deaths' = deaths + 1
    /\ UNCHANGED <<file, driver, asked>>

Dies(d) == Ends(d, "failed")
Terminated(d) == Ends(d, "down")

-----------------------------------------------------------------------------
(* sensorctl: connect, which the path decides, send, print the reply. *)
Connect ==
    /\ ctl = NoCtl /\ LoadConfigFile(file).ok
    /\ \E command \in {"reload", "shutdown"}, d \in Daemons :
        /\ path = d /\ at[d] \in Listening
        /\ ctl' = [to |-> d, command |-> command, printed |-> "none"]
    /\ UNCHANGED <<file, at, simulate, listener, path, driver, asked, deaths>>

CtlReturns ==
    /\ ctl.printed # "none"
    /\ ctl' = NoCtl
    /\ UNCHANGED <<file, at, simulate, listener, path, driver, asked, deaths>>

(* The file is edited; somebody writes the driver's configuration. *)
Edit ==
    /\ file' \in Files
    /\ UNCHANGED <<at, simulate, listener, path, ctl, driver, asked, deaths>>

WriteDriver ==
    /\ driver' = [interval_ms |-> 10, enabled |-> 0]
    /\ asked' = 0
    /\ UNCHANGED <<file, at, simulate, listener, path, ctl, deaths>>

Start(d) == \/ Load(d) \/ TcpBind(d) \/ TcpListen(d)
            \/ UnlinkPath(d) \/ BindControl(d) \/ ListenControl(d)
Daemon(d) == Start(d) \/ Serve(d) \/ UnlinkAtExit(d) \/ Return0(d)

Next ==
    \/ \E d \in Daemons : Daemon(d) \/ Signalled(d) \/ Dies(d) \/ Terminated(d)
    \/ Connect \/ CtlReturns \/ Edit \/ WriteDriver

Spec == Init /\ [][Next]_deployVars

(* A daemon keeps running, and one that failed is started again            *)
(* (Restart=on-failure in sensorhub.service); one that is down need not.   *)
FairSpec ==
    Spec /\ \A d \in Daemons : WF_deployVars(at[d] # "down" /\ Daemon(d))

-----------------------------------------------------------------------------
(***************************************************************************)
(* create_control_socket and the exit remove whatever the path names.  As  *)
(* daemons of one configuration exclude each other on the TCP port, which  *)
(* is taken before and released after, a daemon that runs owns the path,   *)
(* and its bind does not meet a socket left by a crash or made by another. *)
(***************************************************************************)
PathIsOurs ==
    \A d \in Daemons : /\ at[d] = "up" => path = d
                       /\ at[d] = "bind" => path = "none"

(***************************************************************************)
(* When reload was answered "ok" the driver is enabled with the interval   *)
(* the file says: a file with an error anywhere changes nothing.  (From    *)
(* 2^32 on, the number is narrowed silently.)                              *)
(***************************************************************************)
ReloadFollowsFile ==
    asked \in 1..(Word - 1) =>
        driver.interval_ms = asked /\ driver.enabled = 1

(***************************************************************************)
(* After a crash at any point of start-up, work or exit the service comes  *)
(* up again, if the file on disk is good and the daemon is not terminated  *)
(* while it starts: nothing the crash left stands in the way.              *)
(***************************************************************************)
ServiceRecovers ==
    \A d \in Daemons :
        at[d] = "failed" ~> \/ \E e \in Daemons : at[e] = "up"
                            \/ at[d] = "down" \/ ~Meaningful(file)
=============================================================================
