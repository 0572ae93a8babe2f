# LinuxSensorHub in TLA+

LinuxSensorHub is a virtual sensor device (a Linux kernel module), a daemon
that reads it and distributes the samples, and three small command line tools.
This directory holds TLA+ modules that model it, TLC configurations that check
them on small instances, and proofs checked by TLAPS. `PROJECT.json` maps every
definition to the lines it translates and lists runs, hazards, findings and
theorems.

## The system

| Part | Code | State | Operations | Interacts with |
|---|---|---|---|---|
| Driver, data path | `kernel/sensorhub_drv.c` | byte fifo, `next_seq`, counters, wait queue, `open_count` | open, release, read, write, poll, ioctl GET_STATS and RESET, timer callback | processes, timer |
| Driver, configuration | same | `config`, hrtimer | ioctl SET_CONFIG, sysfs `interval_ms` and `enabled`, `apply_config`, callback | several writers, timer |
| Driver, load and unload | same | registrations, allocations | `sensorhub_init`, `sensorhub_exit` | open files, sysfs |
| BoundedQueue | `include/bounded_queue.hpp` | `queue_`, `closed_`, `dropped_` | push, pop, close, size, dropped | main thread, workers |
| Daemon | `src/main.cpp` | `running`, counters, threads, signal mask | start-up, event loop, callbacks, control commands, shutdown | all of user space |
| EpollLoop | `src/reactor/epoll_loop.cpp` | `callbacks_` | add, modify, remove, run_once | descriptors |
| ControlServer | `src/net/control_server.cpp` | `clients_` | accept_ready, add_client, ready, close_client | control clients |
| TcpBroadcaster | `src/net/tcp_broadcaster.cpp` | `clients_` | listen_on, accept_ready, broadcast_line | main thread, workers, subscribers |
| LogWriter | `src/storage/log_writer.cpp` | stream, `current_bytes_`, two files | write_sample, open, rotate | workers (under `writer_mutex`) |
| SensorDevice, SimulatedSensorDevice | `src/device/sensor_device.cpp` | descriptor, `seq_` | open or start, read_available, set_config, get_stats | driver or timerfd |
| Configuration | `src/config/config.cpp` | none | load_config_file | start-up, reload |
| Tools | `tools/*.cpp` | none | sensorctl, sensor_inject, sensor_subscribe | control socket, driver, TCP |
| Logger, UniqueFd | `logger.cpp`, `fd.hpp` | none of interest | | |

What is hard about it: the driver's read tests for data and takes it in two
critical sections; its configuration is changed without a lock while the timer
callback runs; the queue relies on one notification per item; workers, main
thread, signals and exceptions meet at shutdown; events are dispatched by
descriptor number while descriptors are closed and reused; a control command
arrives in any segmentation; the log is rotated in several file operations, and
a crash may come between any two; the module is loaded and unloaded under
processes that use it; a restarted daemon finds what a dead one left behind.
`hazards` in `PROJECT.json` lists these with the
line where each one bites.

## Modules

**LossyFifo** says what a queue between one producer and several consumers
promises: an item is accepted or refused, accepted items are taken once and in
order, and after close each consumer is told of the end, but only when nothing
is left. Its fairness says that accepted items are taken and ends are told.

**BoundedQueue** is the C++ template. A consumer that finds the queue empty
waits; push and close change the state and notify in one step, as they do under
the mutex; a woken consumer must get the mutex and test the predicate again,
and any waiting consumer may wake spuriously. Items are numbers.

**DriverFifo** is the data path. The fifo is a sequence of bytes, each
naming its sample and its position in it, so that a torn sample is visible. A
read is several steps: the test and the choice to sleep, the wait, `kfifo_out`
under the lock, `copy_to_user`, which may fail. Between them other processes
read, write, poll and reset, and the timer fires. Poll queues itself before it
tests, and its caller may time out. Error codes are reduced to "error".

**DriverConfig** is configuration and timer. No lock protects either, so each
store and each hrtimer call is a step, and so is each part of the callback. A
sysfs store copies the whole structure and overwrites one field; the other one
is a single word, so that a torn copy cannot be told from an atomic one. It
starts in the state `sensorhub_init` leaves. `alone` is a history variable: the
last call of `apply_config` met no other one.

**DriverLifecycle** extends DriverConfig with `sensorhub_init`, its error paths
and `sensorhub_exit`, one step per call that others can observe. Writers open
the device from `misc_register` on and store to sysfs from `sysfs_create_group`
on, so they meet both ends: init reads the interval and starts the timer in two
steps. From the kernel it takes that a module with an open
file is not unloaded and that `sysfs_remove_group` waits for stores under way.
`disturbed` records that a writer was in one of the two windows that nothing
protects: a store that arms the timer after the exit's `hrtimer_cancel`, and an
open before `sysfs_create_group` fails.

**Daemon** composes BoundedQueue (an INSTANCE) with the main thread and the
workers, the counters, the signal mask and the ways in which the process ends:
return 0, return 1, `std::terminate`, killed by a signal. An exception that
meets a worker not yet joined is `std::terminate`. The stats command reads its
five counters one at a time. A source (the driver, or the timerfd of the
simulated device) produces samples at any time, and the loop reads all there
are. The sockets are one event, which stands for accepting, for stats, shutdown
or any other command; an error of their `accept4` or `epoll_ctl` is an exception
of the main thread. A process that dies loses its memory; only the log is left,
so the invariants over queue and counters speak of a live process or of one that
returned 0.

**ControlServer** composes EpollLoop and ControlServer. Each `epoll_wait`,
`accept4`, `recv` and `send` is a step; peers connect, send a byte, read, half
close and disconnect in between. A new connection gets the lowest free
descriptor number, so numbers are reused at once. What is delivered to the
command handler is abstracted to whether the handler is called and whether the
command is `shutdown`, which stops the loop after the current batch and ends in
the destructor; an exception in the handler is an answer too.

**TcpBroadcaster** is the broadcaster between workers, the accepting main
thread and `sensor_subscribe` processes. Every `send` of a broadcast is a step,
as subscribers read, finish and are killed while the mutex is held. A line is a
sequence of bytes that name it, so that a torn or repeated line is visible. A
subscriber reads any part of what has arrived (`Read`), then prints line by line
what ends in a newline (`PrintLine`), and reads again when none is left.

**LogWriter** is the log file and its rotated companion, one step per file
operation. The process may be killed between any two, or leave `main`, which
destroys the writer, and is started on the same files; `remove`, `rename` and
writes may fail, which the code does not notice. `put` is the stream's buffer: a
write that fails, having stored a part of the line or nothing, leaves the whole
line there, and `close` (at the rotation and in the destructor) writes it once
more. `resyncs` says whether the C++ library also writes it again at each later
flush, as some versions do; it is chosen once and never changes.

**Config** is `load_config_file` as a function of the lines of a file (a fold),
with a definition beside it that says what a file means without reading it line
by line. A file that cannot be opened is, to its callers, one with a broken
line. Comments, trimming and text values are abstracted: a line is a key and
a number or not a number.

**Deployment** composes Config with the daemons that run on one configuration:
the steps of `main` that touch what they share (the TCP port, the control
socket path, the file, the driver's configuration), `sensorctl`, reload, crash
at any step and restart by the service unit. `Terminated` is a daemon ended by a
signal with its default action (SIGTERM, SIGINT, SIGHUP), which leaves the same
things behind as a crash (`Dies`), but which systemd takes for a clean end and
does not restart.

The `MC*` modules name model values, symmetry sets and the files of Deployment,
and nothing else. A
definition whose comment says "Mutant" is a plausible mistake that is used only
to show that a property can fail.

## Runs

| Run | Instance | Checks |
|---|---|---|
| `queue` | capacity 2, 3 consumers, 5 pushes | TypeOK, NoLostWakeup, EndIsFinal, ImplementsFifo |
| `driver_fifo` | 2 processes, 2 slots of 2 bytes, 4 samples | TypeOK, SamplesIntact, DeliveredOnceInOrder, BooksBalance, GapsAreCounted, NoStrandedSleeper, DropOnlyWhenFull, SleeperWakes |
| `driver_fifo_zero` | 2 processes, 2 samples | ReadNeverReturnsZero fails |
| `driver_config` | 2 writers | TypeOK, QuietWhenDisabled, SoleWriterDecides, DisabledTimerStops, PeriodConverges |
| `driver_config_race` | 2 writers | EnabledTimerRuns fails |
| `driver_lifecycle` | 2 writers, any number of loads | FreedIsUnused, LoadedAgrees |
| `daemon` | 2 workers, capacity 2, 3 samples | TypeOK, SamplesAccounted, DrainedOnExit, OvertakingBounded, StatsNeverOvercount, ShutdownCompletes, SourceReachesLog |
| `daemon_signal` | 1 worker | SignalsGoThroughEpoll fails |
| `control` | 3 connections, 2 places, 3 descriptors, 3 bytes, limit 1 | TypeOK, EventReachesItsConnection, AnswerIgnoresSegmentation, ClosedAfterWholeReply, DueIsClosed |
| `tcp` | 2 workers, 2 subscribers, 3 lines of 2 bytes, window 3 | StreamOfWholeLines, SameOrderEverywhere, EveryClientServed, BroadcastReturns |
| `log` | lines of 1 and 3 bytes, rotation at 6, 5 lines | RecentLinesKept, FilesBounded |
| `deployment` | 2 daemons, 9 files, 1 crash at a time of its choice | PathIsOurs, ReloadFollowsFile, ServiceRecovers |

What the properties say is in the comment above each one. In short:

* Driver: samples are whole, delivered once, in order and counted; nobody sleeps
  beside data; a disabled device is quiet; a sole writer's call leaves state and
  timer in agreement, during init too; freed memory is unused outside the two
  windows above.
* Daemon: every sample a live daemon received is dropped, queued, held or
  counted as processed; an orderly exit drains the queue; stats
  taken while workers move samples never count one twice.
* Control: an event never reaches another connection that got the same number;
  the answer depends on the bytes and not on their segmentation; a connection
  is closed only after its whole reply, or when the peer has gone or the server
  is destroyed.
* TCP: subscribers print whole lines, in one common order, and a slow one holds
  up nobody.
* Log: what is on disk are the newest lines, at least `log_rotate_bytes` of
  them, if no operation failed. A file of whole lines exceeds `log_rotate_bytes`
  by less than a line; one in which failed writes left pieces by less than two
  lines, as `close` writes a kept line once more; with a library that writes it
  again at every flush, only the number of lines before a rotation bounds the
  file.
* Deployment: the daemon that runs owns the control socket path, although
  start and exit unlink it without looking, because the TCP port is taken before
  and released after; an acknowledged reload set what the file says; after a
  crash at any step the service comes back if the file is good and nobody
  terminates it.

**Why the bounds are enough.** The queue has more pushes than places, so it is
full, empty and full again, and more consumers than one notification serves.
The driver's fifo fills and overflows; read sizes are below a sample, odd, and
larger than the batch. In DriverConfig nothing counts; two writers show the
races between writers. The daemon's queue overflows before the workers
get to it, and is emptied while both hold samples. In TcpBroadcaster one and a
half lines fit a connection, so sends are whole, short and refused. The log
rotates with a crash or an exit before, in and after, and a line is long enough
to be stored in part, kept, and stored again by flush and `close`: the
first two bounds of `FilesBounded` are violated if they are made tighter by one,
and a library that resyncs does exceed the second. The files of Deployment hold each kind of line: a good and a
bad interval, one beyond 2^32 (`Word`, scaled down to 2^16), a key given twice,
a malformed line behind a good one, a port out of range, no workers, a number
that is none, simulation. One crash suffices there: what it leaves (a path
without a listener) is overwritten by the next start, and the proof has no such
bound. The control limit of 127 and buffer of 128 become 1 and 2, which keeps
the buffer one larger than the limit, so that a newline may be the last byte
allowed, the first one too late, or absent; replies do not fit the peer's
window; more peers connect than there are places, more descriptors are ready
than fit a batch, and numbers are reused.

**Fairness.** A thread that can run does run (weak fairness of each thread's
steps, which include taking a free mutex); an armed timer expires and its
callback ends. `ServiceRecovers` assumes that a daemon that failed is started again (`Restart=on-failure` in
`config/sensorhub.service`), but not one that returned 0 or was terminated. `DueIsClosed` also
assumes that the peer reads its reply: the code has no timeout, so a peer that
never reads keeps its place. `BroadcastReturns` assumes nothing of subscribers.
When more descriptors are ready than fit a batch, `epoll_wait` reports any of
them. Nothing is assumed of new samples, signals, exceptions, spurious wake-ups or calls of
other processes.

## What the violations show

* `driver_fifo_zero`: a read that found data returns 0 if the fifo is emptied
  before it takes the data. The comment above the test promises -EAGAIN or
  sleep. The daemon's `read_available` treats 0 as "no more", which is harmless
  there; a blocking reader sees an end of file.
* `driver_config_race`: `apply_config` of two writers can interleave so that
  the device stays enabled with no timer, until somebody writes again. For a call
  that met no other one it holds (`SoleWriterDecides`, checked and proved).
* `daemon_signal`: the workers are created before the signals are blocked, so a
  signal sent to the process (`kill`, `systemctl stop`) ends the
  daemon without draining the queue. One sent to the main thread is handled.

## Proofs

All proofs hold for every value of the constants that the named assumptions
allow (`QueueAssumption`, `DriverAssumption`, `InputsAssumption`,
`ControlAssumption`, `LogAssumption`, `WordAssumption`, `DeploymentAssumption`,
`DaemonAssumption`, `TcpAssumption`). What recursive functions compute (the bytes
of a log, the configuration after some lines, the lines printed put together) and what holds of every prefix of a sequence is
proved by induction in the form of a least counterexample: the set of numbers
for which the claim fails would have a least element (`LeastNumber`).

Liveness is proved where a fixed number of steps leads to the goal. The provers
do not know ENABLED, so a proof states weak fairness with a guard in its place:
`[]<>~Guard \/ []<><<Action>>_vars`. Every guard used implies that its action
can be taken and changes something, so what is assumed is no more than the
weak fairness of the runs (`FairSpec` of each module); where a theorem concludes
fairness (`RefinesLiveFifo`) its guard is exactly that of the action. A step "for all workers,
always" to "always, for all workers" makes one argument of those about each
worker.

* `BoundedQueueProofs`: `TypeCorrect`; `NeverLostWakeup`; `EndStaysFinal`;
  `RefinesFifo`, the safety part of `ImplementsFifo`. Each push, pop and close
  is shown to be a step of LossyFifo or a stutter.
  NoLostWakeup counts: if a consumer waits, the queue is open and has no more
  items than there are woken consumers; a push adds one to both, a take
  removes one from both. `RefinesLiveFifo` is the rest of `ImplementsFifo`: with
  items in the queue and a consumer not ended, NoLostWakeup gives one that has
  or will get the mutex, nobody else takes that from it, and its pop takes.
* `DriverFifoProofs`: `TypeCorrect`; `NeverStranded`; `BooksAlwaysBalance`,
  which needs `WholeSizes`, that the length of the fifo and the size each reader
  asks for are whole numbers of samples, since otherwise a push could store
  part of one;
  `DropsOnlyWhenFull` from the same facts. `SamplesAlwaysIntact`,
  `AlwaysDeliveredOnceInOrder` and `GapsAlwaysCounted` come from `Streams`: fifo
  and read buffers are sample streams, the fifo is sorted and all that was read
  is older than it, and the gap before any sample of the fifo, not only the
  first, is counted, as a read makes any of them the first.
  `SleepersAreWoken`: by NeverStranded, whoever sleeps beside data is followed
  by a thread in front of its wake-up, which wakes all. `SoleReaderNeverZero` is
  the positive side of `driver_fifo_zero`: with one process the data its test has
  seen is still there when it copies (`SeenIsThere`).
* `ControlServerProofs`: `TypeCorrect`; `EventsReachTheirConnections`, from
  `Routing`: every event not yet dispatched is for an open connection, there is
  one per descriptor, and the event being handled is not among them, so `ready`
  closes no descriptor for which an event is still to come; and
  `SegmentationIsIgnored` and `RepliesAreWhole`, from `Conversation`, which says
  of every client what was decided of its request, and that the reply to
  shutdown is sent in the round that executes the command.
* `LogWriterProofs`: `FilesAlwaysBounded` needs `Accounting`, that while the
  stream is good `current_bytes_` is not behind the file, that it is below the
  limit where a line is written, how far it is behind once the stream is bad, and
  how large the file can be while the buffer keeps a line that `close` may add; `RecentLinesAlwaysKept` needs `Recent`, that without
  a failure the counter is exact, so a log is full when it is renamed, and empty
  when it is truncated.
* `DriverLifecycleProofs`, of the configuration: `TypeCorrect`; `DisabledIsQuiet`. QuietWhenDisabled is
  not inductive; it needs `CancelCovers`, that while the device is disabled and
  a callback is past its test, some writer has still to cancel the timer and to
  wait for that callback. `SoleWriterAgrees`: SoleWriterDecides is strengthened
  to `SoleInv`, which says what a lone call has stored at each of its steps and
  that at most one call is under way while `alone` holds. `DisabledTimerEnds`
  and `PeriodIsTakenOver` follow the timer through its stages, from expiry to
  `hrtimer_forward`, in a state all writers have left.
* `DriverLifecycleProofs`, of load and unload: `LoadedStaysAgreed`, as `LifeInit`
  and every step of load and unload keep `CancelCovers` and what a lone call
  has stored, and `sensorhub_init`'s `hrtimer_start` establishes `SoleInv`;
  `FreedStaysUnused`, from `LifeInv`, which says for each phase of init and exit
  who may still be inside.
* `DeploymentProofs`: `PathStaysOurs`. `PathInv` says that a daemon past
  `listen` is the listener, that nobody else is then past it, and what the path
  names at each step of the listener. `LoadedAsMeant`: reading line by line
  agrees with `Meaningful` and `ValueOf`, which look at the whole file; from it
  `ReloadAlwaysFollowsFile`, and `MeantIsLoaded` for the other direction.
  `ServiceAlwaysRecovers`: suppose that from some time on nobody serves although
  the file is good. Then no fair daemon is between the port and service, or it
  would come up; so the port is free or its holder is on its way out and frees
  it; so a daemon that was started gets past the port, which nobody does. In
  place of the bound on crashes it assumes that they end (`CrashesEnd`);
  without that the claim is false.
* `DaemonProofs`: `NoSampleLost`, `LogOvertakesOnlyHeld` and `OrderlyExitDrains`
  from `DaemonInv`, and `StatsReplyConsistent`, for any number of workers and
  samples. SamplesAccounted is inductive beside the types. The other two need
  `InOrder` (the queue is in order of arrival, and everything logged or held by
  a worker is older than it, so a sample is new to the log when it is written),
  `LoggedOnce` (the log has as many samples as were counted or wait to be) and
  `EndsLast` (a worker told of the end holds nothing and leaves nothing).
  The reply needs `StatsInv`: what the fields read so far say of the counters,
  which only grow until they are read, while main receives nothing.
  `DaemonTypeCorrect` bounds the queue and places the main thread.
  `QueueGuaranteesHold` composes the proofs: each step of the daemon is, for its
  queue, a step of BoundedQueue or no step, or ends the process, so
  `BoundedQueueProofs` is instantiated for the daemon's queue and its lemmas hold
  there. `OldestIsLogged` uses that a worker is on its way to a queue that is not
  empty, and that a worker with a sample comes back to `pop` in three steps;
  `WorkersLeave` that nobody waits on a closed queue.
* `TcpBroadcasterProofs`: `EveryClientAlwaysServed` from `Turns`, that the clients
  still to be served stand at or behind the position of the holder of the mutex
  and all other positions are at the start. `StreamAlwaysWholeLines` and
  `SameOrderAlwaysEverywhere` rest on one view of a subscriber: what it has
  printed, read and not yet read, put together, changes only by a send, which
  appends the start of a line. `Queued` says that an erased client does not come
  back, so that half a line is never followed by another (`Streams`); `Fresh`
  that a line whose worker waits is in no stream, and the line being broadcast
  is in no stream still ahead and the last one where it is; so appending it
  inverts no order (`Orders`). `Printed` needs that the first newline left to
  print is one line length on.

Only model-checked: ShutdownCompletes, SourceReachesLog, DueIsClosed and
BroadcastReturns. Each needs an induction over a number of steps that the
constants do not bound by a fixed one (samples ahead in the queue or in a batch,
workers still to join, bytes of a reply, clients of a list), and a temporal
formula cannot be the subject of an induction here. `OldestIsLogged` and
`WorkersLeave` are the steps of such an induction for the daemon: what stands
at the head of the queue goes, and once nothing is left every worker leaves.
That the guards of the fairness assumptions stand for ENABLED is argued above
and in the comments, not proved. Every safety property of a passing run is a
theorem, and so is every liveness property but these four.

## Limits

These are in the models, and no text of the repository says otherwise, so they
are not listed as violations:

* the two windows of DriverLifecycle;
* an ignored error of `rename` truncates the log that was to be kept; after a
  failed write the stream stays bad until the next rotation, lines are lost
  meanwhile, and the one that failed may be in the file in part and again whole;
* PathIsOurs holds for daemons that share the TCP port; with different ports
  and one path, either would unlink the socket of the other;
* from 2^32 on `sensor_interval_ms` is narrowed silently;
* in driver mode the start does not apply `sensor_interval_ms`, only reload
  does;
* idle control clients keep their places, as there is no timeout.

## Not modelled

`sensorctl`'s handling of its arguments (with an option before the command,
`-c` itself is sent as the command), `create_udp_socket` and `sendto`, whose
result is ignored, and what the samples contain. The driver's data path is not
composed with the daemon: Daemon has a source that produces samples and is read
until it is empty, which is what DriverFifo offers a reader that does not block.

Left out for good: the logger and the formatting of lines (nothing depends on
them), UniqueFd as a class, scripts, tests and build files. Read-only
operations (`show` functions, GET_CONFIG) change nothing and are not actions.
