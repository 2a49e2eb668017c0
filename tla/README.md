# Verification of the power-plant monitor agent

TLA+ models of `src/monitor-agent` (Go), the TLC configurations that check them on small
instances, and TLAPS proofs of the theorems that hold for every instance. Paths below are
relative to `src/monitor-agent/`.

## 1. The system

The agent watches processes on one machine, records their CPU and memory, reports exits and
overloads as events, and restarts the processes ("self-healing"). It comes as two programs:

* `cmd/web/main.go` starts a `Service`: a `WebServer` with sessions (`AuthManager`) in front of a
  `MultiMonitor` that watches many PIDs; the browser page `static/index.html` polls it.
* `main.go` starts a `Monitor` that watches one process by PID or by name, with a small read-only
  `Server`.

Both read processes through a `ProcProvider` and keep what they saw in `RingBuffer`s.

| Component | State | Operations | Correct when |
|---|---|---|---|
| `RingBuffer` (`buffer/ring.go`) | slots, `head`, `count`, a lock | `Push`, `GetAll`, `GetRecent`, `Len` | readers see the newest items in order, at most `size` of them |
| `MultiMonitor` (`monitor/multi_monitor.go`) | map PID -> `*targetState`, map PID -> ring, events, `running`, `stopCh`, log file | the registry calls, `Start`, `Stop`, one `loop` goroutine per `Start`, one goroutine per restart, queries | exits and overloads are reported once and not missed, restarts are announced and the configured cooldown apart, sampling runs exactly while `running` |
| `Monitor` (`monitor/monitor.go`) | target PID, counter, `lastRestart`, `waitingRestart`, rings | `Start`, `Stop`, `loop`, `triggerRestart`, `waitAndRefindPID` | a dead process is restarted until one lives, the old process and no other is killed |
| `AuthManager` (`server/auth.go`) | token -> session | `Login`, `ValidateToken`, `Logout`, periodic cleanup | a token is accepted exactly between login and logout or expiry |
| `WebServer`, `Server` (`server/*.go`) | none of their own | HTTP handlers, each one or two calls of the monitor | the calls of different requests may interleave |
| `Service` (`service/*.go`, `cmd/web/main.go`) | HTTP server, signal channel; the registration with a service manager | `Start`, `Stop`, `Execute` / the signal loop, install, uninstall, start, stop | a stop ends the process and lets requests finish; what is wanted runs, also after a crash |
| provider (`provider/*.go`) | disk and network samples | `IsAlive`, `GetMetrics`, `ListAllProcesses`, ... | rates are what the counters grew by |
| `JSONLLogger` (`logger/jsonl.go`) and `m.logFile` | a file and a lock | `Write`, `Close` | while the monitor runs with a file, a line reaches the write to an open file; no file stays open |
| dashboard (`server/static/index.html`) | form, tables, timers | polling, forms | what is shown and saved is what the agent has |

How they interact: HTTP handlers call `MultiMonitor` from one goroutine per request; `loop`
goroutines call the provider without the lock and take `m.mu` for each piece of state; restart
goroutines push events on their own; the monitored processes exit and come back at any time. The
process of `cmd/web` is started, stopped and restarted by the Windows service control manager (SCM),
by systemd or by hand, and an administrator runs the program a second time to install, start, stop or
uninstall the service.

What is hard: `collectOne` holds the lock for single statements only, so any handler, any other
`loop` and the process itself can act between two of its steps; it works on a copy of the
configuration and on a `*targetState` that may no longer be registered; `Stop` replaces the channel
that a busy `loop` should have received from; the cooldown, the exit latch and the exceed counters
are shared by every path to a restart. `Service.Stop` stops the monitor while requests are still
accepted and then waits for them, but not for ever; the managers and the administrator act on what
they believe the state of the process to be.

## 2. The modules

| Module | Models | One action is |
|---|---|---|
| `RecentSeq` | "the newest n, oldest first", used by every buffer, with the lemmas on it | - |
| `BoundedLog` | what a ring buffer promises: a sequence of at most `size` newest items | a push |
| `RingBuffer` | `buffer/ring.go`: slots, `head`, `count` | one method call (each holds the lock throughout) |
| `EventLog` | a ring of events and the JSONL file beside it: `addEvent`, `writeLog`, `logger/jsonl.go`, under `Start` and `Stop` of either monitor | one push, one read of `m.logFile`, one write, one `Start` or `Stop` |
| `Watch` | what a `MultiMonitor` promises its callers: targets, `running`, goroutines that wait or work | one handler call |
| `MultiMonitor` | `monitor/multi_monitor.go` | one critical section of `m.mu`, or one call made without it |
| `Restarter` | what a `Monitor` promises: alarms, restarts, searches, the target | one phase of a restart |
| `Monitor` | `monitor/monitor.go` | as in `MultiMonitor`, for the single-process monitor |
| `Sampler` | the disk rates of `provider/provider_common.go` | one read of a counter or the clock, one critical section |
| `Sessions` | `server/auth.go` | one critical section of `am.mu`, one decision between two |
| `WebService` | the process of `cmd/web`: the handlers of `server/web_server.go` and `service/service.go`, on top of `Watch` | one call of the monitor by a handler, one blocking call of the main goroutine |
| `ServiceHost` | who runs that process: `service_windows.go`, `service_linux.go`, `cmd/web/main.go` with the SCM, systemd or a terminal | one request to the manager, one poll of a command, one second |
| `MC_*` | values of the constants, views and symmetry sets for TLC | - |
| `*Proofs` | theorems and lemmas about the module of the name; `EventLogProofs` has those about `RingBuffer` too | - |

How they compose:

```
BoundedLog <= RingBuffer <- EventLog            <=  implements (refinement mapping)
Watch      <= MultiMonitor                      <-  is extended or instantiated by
Watch      <- WebService <- ServiceHost         ServiceHost => WebService is proved
Restarter  <= Monitor
RecentSeq  <- RingBuffer, MultiMonitor, Monitor, Restarter
```

`RingBuffer` implements `BoundedLog`, which is what allows `MultiMonitor` and `Monitor` to keep their
buffers as sequences with `PushRecent`. `MultiMonitor` implements `Watch` (`ImplementsWatch`, checked
and proved), which is what allows `WebService` to leave `collectOne` out: a handler is one step of
`Watch`, and everything a sampling goroutine does between two waits is `"working"`.

How state corresponds to the code:

* **MultiMonitor.** A `*targetState` is a cell of `heap`; `targets` maps a PID to its cell, as
  `m.targets` does to its pointer. A loop keeps the pointer over unlocks, so a removed or
  replaced cell lives on while `InUse`. The metrics ring of a PID is a field of the cell, because
  both are created, looked up and deleted in the same critical sections. `loop[l]` is the stack
  frame of a sampling goroutine: `pc` (between which critical sections it is), the PIDs still to
  visit, the PID, pointer, copied configuration and sample of `collectOne`, and the resource being
  checked (the code checks CPU, then memory, with the same statements). `restarting` is the set of
  restart goroutines. `stopCh` is not a variable: a loop that has entered its `select` is woken by
  the close (`Stop` moves those in `"select"` to `"stopped"`); one that has not will enter it on
  the new channel. The field `limit` of a sample is history, not code: the thresholds it was compared
  with.
* **Monitor.** `loop` is the frame of the one sampling goroutine, which also runs `triggerRestart`;
  `refind` holds the `waitAndRefindPID` goroutines; `proc` says whether the configured name, another
  process or nothing runs under each PID. `cooldown` and `delay` count down: only differences of
  time matter here. `cpuExceedCnt` has no lock in the code and only the loop uses it.
  `Restarter` sees of all this a `phase`: watching, alarmed (an event raised, `triggerRestart` not
  decided), restarting, announced, searching, settling (a search ended, the rules not on again); `blind`
  is what remains of a monitor by PID after its restart.
* **EventLog.** `kind` says which monitor it is. `logFile` is `m.logFile` (or the file of
  `m.logger`), `open` the handles not yet closed, `writer[w]` the frame of a call: `MultiMonitor`
  tests `m.logFile`, formats, and reads it again for the write, without the lock. A write to a closed
  handle or to nil fails (`"dropped"`), a write to an open one, or the encoding before it, may fail
  (`"failed"`), and nobody looks at either error. `throughout` and `noFile` are history: whether the monitor
  ran, with a file, during all of the call.
* **Sampler.** `lister[l]` is the frame of one `ListAllProcesses` call, `ioSamples` are
  the cached samples. Counters live in 0 .. Word-1 and subtract as `uint64` does. `overlapped`,
  `owned` and `reused` are history: which listings another one ran beside, which PIDs some process has
  had, which were given to a second one.
* **Sessions.** `request[r]` is a request between the middleware and its answer. `issued`,
  `loggedOut` and the field `start` are history, not code: they say when a session was over.
* **WebService.** `request[r]` is what a connection is busy with: a handler that makes two calls
  (`handleAddTarget`: `AddTarget`, then `Start`) is `"added"` between them. `phase` is the main
  goroutine: `new` (service made), `up`, `stopping`, `shutdown` (monitor stopped), `draining` (inside
  `Shutdown`), `stopped`. `listener` is the goroutine in `ListenAndServe`, `timer` the deadline of
  `Shutdown`. `Gone` is the end of the process: nothing is kept, as `saveTargets` is empty.
  `stopped` is history.
* **ServiceHost.** `unit` is the command line the manager has registered, `file` the unit file under
  `/etc/systemd/system`, `state` the state of the service as the manager knows it, `signal` the
  channel of one signal (or the control request), `recovery` the seconds to the automatic restart,
  `admin` the command an administrator runs (one at a time); its fields `sent` (the manager accepted the
  stop request) and `failed` (a query of the state failed, at the first one or at a poll, which ends
  the waiting) say how an uninstall came to its `DeleteService`. `wanted` is history: the operator last
  started the service, did not stop it since, and it could be started. SCM, systemd, `kill` and the
  clock are external: they are modelled by how the code uses them (`RecoveryActions`,
  `Restart=always`, `RestartSec`, `svc.Status`).

## 3. What the runs check

Passing runs:

| Run | Bounds | Shows |
|---|---|---|
| `ring` | sizes 1-3, three items, 2 writers, 2 file handles | every head and count, also after wrapping; `GetRecent` against `GetAll`; refinement of `BoundedLog`; `DroppedOnlyAroundStop` and `OneHandle` with every `Stop`, `Start`, failing open and failing write between two statements of a write |
| `healing` | 2 loops, 1 PID, clock 0-1, cooldown 1, log of 3 events | `RestartsApart`, `RestartsSpaced`, `RunningHasSampler`, `RestartsHaveTriggers`, with restarts by CPU and by exit, updates and every order of `Start` and `Stop` |
| `registry` | 1 loop, 2 cells, rings of 2, CPU and memory, threshold 1 with limit 2 and threshold 2 with the default limit 3, changed at any time | `TypeOK`, `FirstDetection`, `LatestIsNewest`, `AlarmJustified` when a PID is removed and registered again under a busy loop |
| `live` | 2 loops, 1 PID, the default limit | liveness `DeadTargetIsReported`, `SustainedOverloadAlarms`; refinement of `Watch` |
| `monitor` | 4 configurations (by name, by PID, both, no command), 2 PIDs, 2 search goroutines, 2 tries, cooldown 2 | `TypeOK`, `WaitingIsSearching`; refinement of `Restarter`; liveness `DeadIsRestarted`, `OverloadIsRestarted` |
| `sampler` | 2 listings, reused PID, counters to 2, clock to 2 | `TypeOK`, `SamplesAdvance`, `RateIsGrowth`; liveness `SamplesAreDropped` |
| `sessions` | 2 tokens, 2 requests, timeout 1, clock to 3 | `TypeOK`, `OverIsRefused`, `LiveIsServed`; liveness `ExpiredIsRemoved` |
| `service` | SCM, systemd and terminal; 2 requests, 1 target, 1 loop; timeout of `Shutdown` 2 s, 3 polls, recovery after 2 s | `TypeOK`, `AddedIsWatched`, `CutOnlyAfterTimeout`, `HostTypeOK`, `DeletesStopped`; liveness `StopEndsProcess`, `WantedServiceRuns` |

`DeletesStopped` is about uninstalls whose queries of the state all succeed: after one that fails the
code goes straight to `DeleteService` (`service/service_windows.go:169`, `176`), and so does the model.

`FirstDetection`, `AlarmJustified` and `LatestIsNewest` need one goroutine at a time in
`collectOne`, which `registry` has and their theorems assume (`OneCollector`): with the second one
that a quick `Stop` and `Start` leave behind, samples of one process are stored, counted and
reported in different orders. `AlarmJustified` compares each stored
sample with the threshold that was in force when it was taken, since `UpdateTarget` may raise the
threshold between two samples: what was counted as exceeding need not exceed the new one.

Why the bounds are enough. Interference needs two actors and one object: two loops are what a
quick `Stop`/`Start` leaves, and with them every handler still interleaves; PIDs do not interact
except through the event buffer, and the events counted are those of one PID, so one PID suffices
(`Monitor` has two: the old process and the new). Two cells are needed for the old and the new
registration of one PID. A ring of 2 holds the samples that an alarm of limit 3 needs beside the one
that raises it. The clock reaches
the end of a cooldown, so that a restart after it is explored as well as one within it. A search
(delay 1, 2 tries) outlasts the cooldown of 2, as the real one (2 s and 10 tries) may outlast 10 s.
`Word` is larger than any difference of counters that does not wrap. The configuration changes under
a running loop in `registry`, and in the theorems, which hold for any set of configurations.
In `ring`, a call of one writer, one `Stop`, one `Start` and the call of another are what can meet;
two handles are the old file and the new one. In `service`, one hanging request shows what the
timeout is for and a second one what comes between its calls; one sampling goroutine suffices, as
those left over by a quick `Stop` and `Start` are `live`'s and `healing`'s subject. The 5 s of
`Shutdown`, the 10 polls and the 5 s of recovery are scaled to 2, 3 and 2: what matters, and is the
assumption `HostTiming` of the theorems, is that the timeout is shorter than the polls and that the
manager does not restart at once. No constant bounds the *number* of operations:
the runs explore handlers, exits and restarts to any depth; only the clock, the cells and the loops
alive at a time are bounded, by constants of the modules (`MaxTime`, `Objs`, `Loops`, `Refinders`,
`MaxCount`, `Handles`, `Writers`).

Views and symmetry. `registry` and `healing` drop cells nothing points to (`Reachable`);
`healing` and the violation runs without stored samples also drop samples, which no action and no
property of theirs reads (`Decisions`, `Announcements`, which keeps the events). Symmetry is over
cells and loops. No run of a liveness property uses a view or a symmetry set.

Time in `ServiceHost`. `Tick` is one second. Statements that wait for nothing take no time: a tick
waits for them (`Urgent`). Requests and the listener may take any time, and so may a crash.

Fairness. Loops, restart goroutines, searches and the clean-up are goroutines blocked on nothing
but a mutex held for a few statements, or on a ticker: the Go scheduler and the ticker justify weak
fairness of each goroutine's step. Time passes (`Clock`, `Second`). Handlers, process exits and
process starts are never fair. `Sampler` assumes that listings keep being requested and finish: the
dashboard polls every two seconds (`server/static/index.html:1052`); without a client no sample is
dropped, and none is added. In `Sampler` and `MultiMonitor` the counters, loads and probe results
are chosen by the environment at each step. In `ServiceHost` the main goroutine, the manager, the
running command and the clock are fair, requests are not: a request may hang for ever. `Started`,
`TimeoutStop` and `Tick` are strongly fair, since a crash, a new signal or an administrator may disable
them again and again: a service does not crash each time it starts, systemd's 90 s come to an end, and
no endless row of commands fits into one second.

## 4. Findings

Each is a run that TLC ends with a counterexample to a property taken from the documentation.

| Run | Property | What happens |
|---|---|---|
| `stop` | `StopEndsSampling` | `Stop` replaces `stopCh`; a goroutine that was sampling then waits on the new channel and samples for ever |
| `exit_once` | `ExitIsRestarted` | an exit detected within the cooldown is never restarted: it is already reported |
| `fresh_kill` | `KillsSampled` | a stale dead sample makes `triggerRestart` kill the process a search has just found |
| `install` | `StartedServiceRuns` | the Windows service is registered with a flag `-config` that `main` does not define: `flag.Parse` ends the process at every start |

Related properties that do hold are kept beside them: `RunningHasSampler` (the goroutine that goes
on is never one too few), `DeadTargetIsReported` (the exit that is not restarted is reported),
`WaitingIsSearching`, and `WantedServiceRuns` (a service whose command line an administrator has
corrected, `Repairs`, does run and comes back after crashes).

The models also show behaviour that a maintainer should know; no run is spent on it, as the documents do
not mention it or can be read either way:

* Two concurrent `ListAllProcesses` may store their counters in the other order than they read them,
  and a reused PID is compared with its predecessor: either way the unsigned difference wraps.
  `RateIsGrowth` says that nothing else makes it wrap.
* The exceedings an alarm counts need not be consecutive (连续, as `types/types.go:76`, `README.md:259`
  and the alarm's own text, `monitor/multi_monitor.go:297`, have it) when one takes that word for all
  samples: a dead sample leaves the counters as they are, and in `Monitor` so does every sample while
  the new process is awaited, so that exceedings of the old
  process count for the alarm, and the restart, of the new one (`CpuOver` after `Finish`).
  `AlarmJustified` is about the live samples for this reason.
* An `UpdateTarget` between the test of the copied configuration and `tryRestart` may clear the
  command that is then executed.
* `Service.Stop` stops the monitor first: a request accepted before the listener closes may start it
  again, and it samples until the process ends.
* `-uninstall` ignores the error of its stop request: a service that is just starting refuses it, and
  is deleted while it runs. A query of the state that fails ends the waiting with the same effect.
  `DeletesStopped` is about requests that were accepted and queries that succeed.
* A line that cannot be encoded, or whose write fails (a full disk), is lost without a word while the
  monitor runs with an open file: `writeLog` ignores both errors, and the callers of
  `JSONLLogger.Write` ignore the one it returns. An encoding that fails in `writeLog` writes an empty line.
* On systemd a SIGTERM that comes while a SIGHUP waits in the channel is lost; only the kill after 90
  seconds ends the process then (`TimeoutStop`, without which `StopEndsProcess` is false).

## 5. What is proved

`tlapm` checks every leaf; nothing is assumed but the named `ASSUME`s, which say that configurations
and samples are of their types, bounds are (positive) naturals, `MinCooldown` is below every
cooldown, special values (`Nil`, `NoPid`) are not data, (`LoopsAssumption`) there are finitely many
sampling goroutines, since their restarts are counted, and (`HostTiming`) the timeout of `Shutdown` is
shorter than the polls of `-uninstall`, as 5 s and 10 s are. TLC evaluates them in the runs.

| Theorem | Says | Argument |
|---|---|---|
| `EventLogProofs`: `RingTypeCorrect`, `HeadFollowsCount` | `head` and `count` stay in range; `head = count % size` until the ring is full | the conjunction is inductive |
| `RecentIsSuffix` | `GetRecent(n)` is the suffix of `GetAll()` | from the invariant and one lemma on indices modulo `size` |
| `RingImplementsLog` | the ring implements `BoundedLog` | each push maps to a push: two cases, full or not |
| `LinesReachTheFile`, `HandlesAreClosed` | a line misses the file only by a `Stop` during its call or for want of one (the write itself may fail); at most one file is open | inductive with `FileIsOpen` (a running monitor with a file has it open) and `CallsHoldFile` (a call during which the monitor ran throughout holds the current file): a `Stop` marks every call under way before it closes anything |
| `LogImplementsRing` | `EventLog` is the ring with a file beside it | each step is a push or leaves the ring alone |
| `MultiMonitorProofs!TypeCorrect` | every pointer a goroutine, the map or a restart holds leads to a `targetState` | inductive as it stands; `HeldCell` and `RegisteredCell` say that no step frees a cell in use |
| `RunningIsSampled` | `running` implies a sampling goroutine | inductive: `Start` adds one, only `Stop` wakes any, and it clears `running` |
| `RestartsACooldownApart` | two restarts of a registration are a cooldown apart, the one configured at the later; nothing else changes when the last one was, in a cell in use | an action property, from `TypeOK` alone: `TryRestart` tests and updates in one critical section, `LoopStepRestarts`, `HandlerRestarts` and `OtherRestarts` show that every other step leaves `lastRestart` and `restartCount` alone, and `AddTarget` takes a cell not in use |
| `RestartRateBounded` | the k-th restart of a registration does not come before k-1 times the smallest cooldown, from time 0 | inductive together with `TypeOK`: `(restartCount-1) * MinCooldown <= lastRestart <= now` |
| `MonitorImplementsWatch` | the monitor implements `Watch` | step by step: `WorkGoesOn` says that no step inside `collectOne` changes what `SamplerView` shows; handlers map to handlers |
| `RestartsAreAnnounced` | while no event was dropped, a PID has at least as many triggers as restarts, done or on their way | `TriggerInv`, inductive together with `TypeOK`: restarts move from deciding to `restarting` to the events without a gain, and the only step that decides one comes right after the event that announces it; both sides are cardinalities of sets of which one step adds at most one element |
| `ExitsAreFirstDetections`, `LatestIsStored`, `AlarmsHaveSamples` | with one goroutine at a time in `collectOne`: an exit is reported at the first dead sample; the latest sample is the newest stored; an alarm has its samples, each over the threshold in force when it was taken | `SampleInv`, see below |
| `StartingAloneSuffices` | if `Start` is only called when the goroutines of before have gone, no two are in `collectOne` | inductive: at most one goroutine samples; only `Start` adds one |
| `MonitorProofs!TypeCorrect` | every restart has an old process, every finished search a PID it found | four parts, one per group of variables that change together |
| `SearchesAreExclusive` | the rules are suspended exactly during a search, of which there is one | inductive: `waitingRestart` is only set by a restart, which only starts with it clear |
| `MonitorImplementsRestarter` | the monitor implements `Restarter`: an alarm is dropped for the cooldown or for want of a command, or answered by one restart of the target of that moment; an announced restart is followed by one search, which alone changes the target | step by step, with `WaitingIsSearching` and `RestartInv` (the process a restart is about stays the target until the restart is over, only a monitor by name searches, the goroutine has not ended while the monitor runs) |
| `SamplerProofs`: `TypeCorrect`, `SamplesMoveForward` | samples and half-done listings are of their types; a cached sample is replaced by a later one only | inductive with `PidOK` (a listing that computes a rate has a process); the test of the times is in the critical section of the store |
| `RatesAreGrowth` | a listing that was alone, on a PID not reused, has no rate above what the process ever read: the subtraction does not wrap | `RateInv`: `AloneIsOnly`, `CountersGrow` (what is stored or read of a process is at most its counter, while it has the PID), `UnownedIsNew` (nothing is stored under a PID no process has had) and `ReadIsNewest` (what a listing that is alone has read is at least what is stored, because nobody stores between) |
| `SessionsProofs`: `TypeCorrect`, `LogoutIsFinal`, `NobodyIsThrownOut` | a session over stays over, a live one is served | inductive with `MapIsFair` (the map holds no logged-out session, and lacks no live one) and `RequestIsFair` (a request holds the expiry its token was issued with, though the map may have lost it) |
| `WebServiceProofs`: `TypeCorrect`, `TargetsAreWatched`, `ShutdownIsGraceful` | a process that is gone keeps nothing; an added target is watched; requests are cut off only after the timeout | `SamplesIfRunning` (a running monitor has a goroutine) and `StartsIfWatching` (targets without `running` have a `Stop` or an add to explain them) for the second; `ShutdownInv` (no request is accepted from `draining` on) for the third |
| `ServiceHostProofs`: `HostRunsWebService` | the process is a `WebService` under every host, so the theorems above hold for it | each action of the host is a step of `WebService` or leaves it alone |
| `HostTypeCorrect` | the manager's state and the process agree: stopped exactly when there is none | inductive together with `TypeOK` of `WebService` and `PollsLeft` (an uninstall that waits has a poll left) |
| `UninstallWaits` | a service that accepted the stop of `-uninstall`, and whose queries succeeded, has stopped when it is deleted | `ScmInv` (under the SCM no SIGHUP, and no recovery pending while the process lives), `WaitInv` (the polls used and what is left of the timeout add up to no more than the timeout, so it is over before the polls are) and `DeleteInv` (after a crash instead, the recovery is not due before the next poll) |

Why `SampleInv`. The three properties relate steps that `collectOne` takes in different critical
sections: the counter is raised in one, the ring pushed in another, `lastMetric` set in a third, the
latch `exitReported` set in a fourth, and any handler may act between them. `SampleInv` says of every
cell what the goroutine that is working on it, at its present step, has already done and what it has
not: `LatestOK` (the newest sample is in the ring but not yet in `lastMetric` exactly at `"latest"`),
`LatchOK` (when the newest sample is dead the latch is set, or the goroutine that stored it is about
to set it) and `CountOK` (a
counter is at most the number of live samples after any that was within its threshold, plus the one
counted but not stored). A cell nobody works on satisfies the same with an idle frame. The cells are
quantified over, not the PIDs, so that a cell that was removed or replaced while its goroutine goes on
is covered; handlers, restart goroutines and the other cells leave it alone (`SampleFrame`).
`PushRecentItems` says where the samples of a full ring move. TLC checked the parts on small
bounds before they were proved.

Why `OneCollector`. It is not an invariant: a goroutine busy in `collectOne` misses a `Stop`, and the
next `Start` adds a second one (finding `stop`). Then the first may count a sample, the second store a
later one, and each of the three properties fails. `StartingAloneSuffices` says when this cannot
happen: when every `Stop` before a `Start` found its goroutine waiting, which is where it spends all
but a moment of each second; a goroutine that missed its `Stop` stays until a later one reaches it,
however long the operator waits before starting again. `RestartsACooldownApart`, `RestartRateBounded`,
`RestartsAreAnnounced`, `RunningIsSampled` and `TypeCorrect` need no such condition: they hold for any
number of goroutines.

Only model-checked: the liveness properties (`DeadTargetIsReported`, `SustainedOverloadAlarms`,
`DeadIsRestarted`, `OverloadIsRestarted`, `SamplesAreDropped`, `ExpiredIsRemoved`, `StopEndsProcess`,
`WantedServiceRuns`), which are outside the prover's reach. Every invariant and every action property
of a run is proved, the three above under `OneCollector`.

## 6. What is not modelled

* **Server** (`server/server.go`): four handlers, each one query of `Monitor`.
* **Platform providers**: an interface, and one system call or command line per operation. They
  appear in the modules as what they may return.
* **Network and system metrics** (`provider/provider_common.go:79-126`, `364-391`): one goroutine and
  one stored sample, behind a lock; its rate wraps when an interface and its counters disappear.
* **main.go**: one sequence of calls, taken as given: `Start` once, `Stop` once before the exit.
* **types**: records only.
* **Dashboard**: a browser page outside the Go program. Its requests are the handlers of `WebService`
  and `MultiMonitor`, called in any order; what the page itself keeps (the last answers, the open
  form) is not modelled, so an old answer shown late, or an old form saved late, is not either.
* In `ServiceHost`: two administrators at once; `sc failure` settings changed by hand; the reset of the
  failure count after a day (every recovery action is a restart); the status command, which only reads.
  The report of Stopped (`service/service_windows.go:56`) and the end of the process are one step
  (`ExitReported`): what an administrator may do in the moment between them is not seen.
* In the modelled parts: log messages, names and command text, absolute rates (only the growth they
  are computed from), cookie handling, and `GetMetrics`' fields other than the loads.
* Word size of the exceed counters and of the cooldown in nanoseconds.

## 7. Plan

1. `Dashboard`: overlapping polls whose answers arrive out of order, and the configuration form that
   sends back an older copy of a configuration, on top of `WebService`.
2. An abstract specification of one monitored target (registered, reported, restarting) implemented
   by `MultiMonitor`, beside `Watch`, which says nothing of events.
3. `Sessions` in front of `WebService`: a request whose session ends while it waits.
