----------------------------- MODULE MultiMonitor ----------------------------
(***************************************************************************)
(* MultiMonitor of monitor/multi_monitor.go: the registry of monitored     *)
(* processes, the sampling goroutines and the self-healing they do.        *)
(*                                                                         *)
(* Who runs concurrently:                                                  *)
(*   - HTTP handlers call AddTarget, RemoveTarget, RemoveAllTargets,       *)
(*     UpdateTarget, Start and Stop; each holds m.mu throughout (Start     *)
(*     spawns its goroutine after unlocking);                              *)
(*   - loop() goroutines, one per Start, sample the targets; collectOne    *)
(*     takes and releases m.mu again and again, and one action below is    *)
(*     one such critical section or one call made without the lock;        *)
(*   - one goroutine per restart runs the restart command;                 *)
(*   - the monitored processes exit and come back on their own.            *)
(*                                                                         *)
(* A *targetState is a heap cell: a loop keeps its pointer across unlocks, *)
(* so a cell outlives its removal from the map and may be updated after    *)
(* its PID was registered again with a new cell.  The metrics ring of a    *)
(* PID is created, looked up and deleted together with its targetState in  *)
(* the same critical sections, so it is a field of the same cell.          *)
(*                                                                         *)
(* The lines of the JSONL file are modelled in EventLog.                   *)
(***************************************************************************)
EXTENDS RecentSeq, FiniteSets

CONSTANTS
    PIDs,               \* process ids
    Objs,               \* heap cells of *targetState; bounds the live cells
    Loops,              \* loop() goroutines; bounds those alive at a time
    Configs,            \* the MonitorTarget values a client may send
    Commands,           \* non-empty restart commands
    NoCmd,              \* RestartCmd == ""
    Samples,            \* the loads GetMetrics may return
    MetricsBufferLen, EventsBufferLen,
    DefaultExceedCount, \* 3 in the code
    DefaultCooldown,    \* 30 s in the code
    MinCooldown,        \* no configuration cools down for less than this
    MaxTime,            \* bound on the clock
    Nil

Resources == {"cpu", "mem"}

Config == [AutoRestart : BOOLEAN, RestartCmd : Commands \cup {NoCmd},
           Threshold : [Resources -> Nat], ExceedCount : [Resources -> Int],
           RestartCooldown : Int]

\* A count or a cooldown that is not positive stands for the default.
ExceedLimit(c, r) ==
    IF c.ExceedCount[r] <= 0 THEN DefaultExceedCount ELSE c.ExceedCount[r]
Cooldown(c) ==
    IF c.RestartCooldown <= 0 THEN DefaultCooldown ELSE c.RestartCooldown

ASSUME ConfigAssumption ==
    /\ Configs \subseteq Config
    /\ NoCmd \notin Commands
    /\ Samples \subseteq [Resources -> Nat]
    /\ MinCooldown \in Nat
    /\ \A c \in Configs : MinCooldown <= Cooldown(c)

ASSUME BoundAssumption ==
    /\ {MetricsBufferLen, EventsBufferLen} \subseteq Nat \ {0}
    /\ {DefaultExceedCount, DefaultCooldown} \subseteq Nat \ {0}
    /\ MaxTime \in Nat

\* limit is history: the thresholds of the configuration the sample was taken
\* for, which are those it is checked against.
Metric == [alive : BOOLEAN, load : [Resources -> Nat],
           limit : [Resources -> Nat]]
Never == -1             \* the zero time.Time
\* A targetState, with one counter per resource and its metrics ring.
State == [target : Configs, exceedCnt : [Resources -> Nat],
          lastRestart : {Never} \cup Nat, restartCount : Nat,
          exitReported : BOOLEAN, lastMetric : Metric \cup {Nil},
          metrics : Seq(Metric)]

ASSUME LoopsAssumption == IsFiniteSet(Loops)

ASSUME NilAssumption == /\ Nil \notin PIDs \cup Objs \cup Configs
                        /\ Nil \notin Metric /\ Nil \notin State

VARIABLES
    targets,      \* m.targets: PID -> cell, or Nil when not monitored
    heap,         \* the targetState (and metrics ring) in each cell
    eventsBuffer, \* m.eventsBuffer
    running,      \* m.running
    logOpen,      \* m.logFile != nil
    loop,         \* the stack frame of each loop() goroutine
    restarting,   \* restarts decided, their goroutine not finished
    procAlive,    \* what IsAlive answers for each PID
    now           \* the clock, in units of cooldown

ctlVars == <<running, logOpen>>
envVars == <<procAlive, now>>
vars == <<targets, heap, eventsBuffer, running, logOpen, loop, restarting,
          procAlive, now>>

------------------------------------------------------------------------------
\* Data.

NoLoad == [r \in Resources |-> 0]
DeadMetric == [alive |-> FALSE, load |-> NoLoad, limit |-> NoLoad]
Sampled(d, c) == [alive |-> TRUE, load |-> d, limit |-> c.Threshold]
\* What a live process may be sampled as: GetMetrics failing after IsAlive
\* leaves the load at zero.
LiveMetrics(c) == {Sampled(d, c) : d \in Samples \cup {NoLoad}}

NewState(c, m) ==
    [target |-> c, exceedCnt |-> [r \in Resources |-> 0],
     lastRestart |-> Never, restartCount |-> 0, exitReported |-> FALSE,
     lastMetric |-> m, metrics |-> IF m = Nil THEN <<>> ELSE <<m>>]

\* Faulty: the cooldown is never consulted.
NoCooldown(state) == FALSE

\* time.Since(lastRestart) < cooldown; the zero time is ages ago.
CoolingDown(state) ==
    /\ state.lastRestart # Never
    /\ now - state.lastRestart < Cooldown(state.target)

Event == [type : Resources \cup {"exit", "restart"}, pid : PIDs]
AddEvent(type, pid) ==
    eventsBuffer' = PushRecent(eventsBuffer, [type |-> type, pid |-> pid],
                               EventsBufferLen)

\* A goroutine between two targets: nothing of collectOne on its stack.
Frame(pc, todo) ==
    [pc |-> pc, todo |-> todo, pid |-> Nil, state |-> Nil, target |-> Nil,
     metric |-> Nil, res |-> "cpu"]

Registered == {p \in PIDs : targets[p] # Nil}

\* Cells something still points to: the rest is garbage.
InUse == {targets[p] : p \in Registered}
         \cup {loop[l].state : l \in Loops} \cup {r.obj : r \in restarting}

------------------------------------------------------------------------------
\* HTTP handlers.  A call that returns an error changes nothing.

AddTarget(p, c, o) ==
    /\ targets[p] = Nil
    /\ procAlive[p]
    /\ o \in Objs \ InUse
    /\ targets' = [targets EXCEPT ![p] = o]
    /\ \E m \in {Sampled(d, c) : d \in Samples} \cup {Nil} :
          heap' = [heap EXCEPT ![o] = NewState(c, m)]
    /\ UNCHANGED <<eventsBuffer, ctlVars, loop, restarting, envVars>>

\* Faulty: the targetState is recycled although a goroutine may hold it.
RemoveAndRecycle(p) ==
    /\ targets' = [targets EXCEPT ![p] = Nil]
    /\ heap' = [o \in Objs |-> IF o = targets[p] THEN Nil ELSE heap[o]]
    /\ UNCHANGED <<eventsBuffer, ctlVars, loop, restarting, envVars>>

RemoveTarget(p) ==
    /\ targets' = [targets EXCEPT ![p] = Nil]
    /\ UNCHANGED <<heap, eventsBuffer, ctlVars, loop, restarting, envVars>>

RemoveAllTargets ==
    /\ targets' = [p \in PIDs |-> Nil]
    /\ UNCHANGED <<heap, eventsBuffer, ctlVars, loop, restarting, envVars>>

\* Faulty: an update registers the target anew.
UpdateAfresh(p, c) ==
    /\ targets[p] # Nil
    /\ heap' = [heap EXCEPT ![targets[p]] = NewState(c, @.lastMetric)]
    /\ UNCHANGED <<targets, eventsBuffer, ctlVars, loop, restarting, envVars>>

\* The configuration is replaced, the counters and the latch are kept.
UpdateTarget(p, c) ==
    /\ targets[p] # Nil
    /\ heap' = [heap EXCEPT ![targets[p]].target = c]
    /\ UNCHANGED <<targets, eventsBuffer, ctlVars, loop, restarting, envVars>>

\* Faulty: Stop made no new channel (only Stop closes the log), so a goroutine
\* started after it finds the closed one.
StartOnClosedChannel(l) ==
    /\ ~running
    /\ loop[l].pc = "none"
    /\ running' = TRUE
    /\ loop' = [loop EXCEPT ![l] = Frame(IF logOpen THEN "next" ELSE "stopped", {})]
    /\ UNCHANGED <<targets, heap, eventsBuffer, logOpen, restarting, envVars>>

\* A log file that was closed is opened again, which may fail silently; the
\* new goroutine has not looked at stopCh yet.
Start(l) ==
    /\ ~running
    /\ loop[l].pc = "none"
    /\ running' = TRUE
    /\ logOpen' \in {TRUE, logOpen}
    /\ loop' = [loop EXCEPT ![l] = Frame("next", {})]
    /\ UNCHANGED <<targets, heap, eventsBuffer, restarting, envVars>>

\* close(stopCh) wakes the loops that wait on it; a loop anywhere else will
\* only ever see the fresh channel stored by the next line.
Stop ==
    /\ running
    /\ running' = FALSE
    /\ logOpen' = FALSE
    /\ loop' = [l \in Loops |-> IF loop[l].pc = "select"
                                THEN Frame("stopped", {}) ELSE loop[l]]
    /\ UNCHANGED <<targets, heap, eventsBuffer, restarting, envVars>>

------------------------------------------------------------------------------
\* loop(): wait for a tick or for the close of the channel held.

\* m.stopCh is read, without the lock, each time the select is entered: the
\* channel of before a concurrent Stop is read by the interleaving in which
\* this step comes first.
EnterSelect(l) ==
    /\ loop[l].pc = "next"
    /\ loop[l].todo = {}
    /\ loop' = [loop EXCEPT ![l] = Frame("select", {})]
    /\ UNCHANGED <<targets, heap, eventsBuffer, ctlVars, restarting, envVars>>

StopReceived(l) ==
    /\ loop[l].pc = "stopped"
    /\ loop' = [loop EXCEPT ![l] = Frame("none", {})]
    /\ UNCHANGED <<targets, heap, eventsBuffer, ctlVars, restarting, envVars>>

TickerFires(l) ==
    /\ loop[l].pc = "select"
    /\ loop' = [loop EXCEPT ![l] = Frame("collect", {})]
    /\ UNCHANGED <<targets, heap, eventsBuffer, ctlVars, restarting, envVars>>

\* Faulty: dead processes are not worth a sample.
CollectAllAlive(l) ==
    /\ loop[l].pc = "collect"
    /\ loop' = [loop EXCEPT ![l] =
                   Frame("next", {p \in Registered : procAlive[p]})]
    /\ UNCHANGED <<targets, heap, eventsBuffer, ctlVars, restarting, envVars>>

\* collectAll copies the PIDs under the lock.
CollectAll(l) ==
    /\ loop[l].pc = "collect"
    /\ loop' = [loop EXCEPT ![l] = Frame("next", Registered)]
    /\ UNCHANGED <<targets, heap, eventsBuffer, ctlVars, restarting, envVars>>

------------------------------------------------------------------------------
\* collectOne(pid), one action per critical section or unlocked call.

Goto(l, pc) == loop' = [loop EXCEPT ![l].pc = pc]
Done(l) == Frame("next", loop[l].todo)

\* collectOne keeps the pointer to the state and a copy of its configuration.
Entered(p, todo) ==
    [pc |-> "probe", todo |-> todo, pid |-> p, state |-> targets[p],
     target |-> heap[targets[p]].target, metric |-> Nil, res |-> "cpu"]

\* The first critical section; a PID removed meanwhile is skipped.
Lookup(l, p) ==
    /\ loop[l].pc = "next"
    /\ p \in loop[l].todo
    /\ LET left == loop[l].todo \ {p}
       IN  loop' = [loop EXCEPT ![l] =
               IF targets[p] = Nil THEN Frame("next", left)
               ELSE Entered(p, left)]
    /\ UNCHANGED <<targets, heap, eventsBuffer, ctlVars, restarting, envVars>>

\* IsAlive and GetMetrics, without the lock.
Probe(l) ==
    /\ loop[l].pc = "probe"
    /\ IF procAlive[loop[l].pid]
       THEN \E m \in LiveMetrics(loop[l].target) :
               loop' = [loop EXCEPT ![l].metric = m, ![l].pc = "alive"]
       ELSE loop' = [loop EXCEPT ![l].metric = DeadMetric, ![l].pc = "push"]
    /\ UNCHANGED <<targets, heap, eventsBuffer, ctlVars, restarting, envVars>>

\* Faulty: a live process starts counting afresh.
MarkAliveAfresh(l) ==
    /\ loop[l].pc = "alive"
    /\ heap' = [heap EXCEPT ![loop[l].state].exitReported = FALSE,
                            ![loop[l].state].exceedCnt = NoLoad]
    /\ Goto(l, "check")
    /\ UNCHANGED <<targets, eventsBuffer, ctlVars, restarting, envVars>>

MarkAlive(l) ==
    /\ loop[l].pc = "alive"
    /\ heap' = [heap EXCEPT ![loop[l].state].exitReported = FALSE]
    /\ Goto(l, "check")
    /\ UNCHANGED <<targets, eventsBuffer, ctlVars, restarting, envVars>>

\* Memory is checked after CPU, the sample is stored after memory.
AfterResource(f) ==
    IF f.res = "cpu" THEN [f EXCEPT !.res = "mem", !.pc = "check"]
                     ELSE [f EXCEPT !.pc = "push"]

OverLimit(f) == /\ f.target.Threshold[f.res] > 0
                /\ f.metric.load[f.res] > f.target.Threshold[f.res]

CheckOver(l) ==
    LET f == loop[l]
        cnt == heap[f.state].exceedCnt[f.res] + 1
    IN  /\ f.pc = "check"
        /\ OverLimit(f)
        /\ heap' = [heap EXCEPT ![f.state].exceedCnt[f.res] = cnt]
        /\ loop' = [loop EXCEPT ![l] =
               IF cnt >= ExceedLimit(f.target, f.res)
               THEN [f EXCEPT !.pc = "alarm"] ELSE AfterResource(f)]
        /\ UNCHANGED <<targets, eventsBuffer, ctlVars, restarting, envVars>>

\* Faulty: a sample within the limits does not reset the counter.
CheckUnderKeeps(l) ==
    /\ loop[l].pc = "check"
    /\ ~OverLimit(loop[l])
    /\ loop' = [loop EXCEPT ![l] = AfterResource(loop[l])]
    /\ UNCHANGED <<targets, heap, eventsBuffer, ctlVars, restarting, envVars>>

CheckUnder(l) ==
    LET f == loop[l]
    IN  /\ f.pc = "check"
        /\ ~OverLimit(f)
        /\ heap' = [heap EXCEPT ![f.state].exceedCnt[f.res] = 0]
        /\ loop' = [loop EXCEPT ![l] = AfterResource(f)]
        /\ UNCHANGED <<targets, eventsBuffer, ctlVars, restarting, envVars>>

Alarm(l) ==
    /\ loop[l].pc = "alarm"
    /\ AddEvent(loop[l].res, loop[l].pid)
    /\ Goto(l, IF loop[l].target.RestartCmd # NoCmd THEN "restart" ELSE "clear")
    /\ UNCHANGED <<targets, heap, ctlVars, restarting, envVars>>

ClearCount(l) ==
    LET f == loop[l]
    IN  /\ f.pc = "clear"
        /\ heap' = [heap EXCEPT ![f.state].exceedCnt[f.res] = 0]
        /\ loop' = [loop EXCEPT ![l] = AfterResource(f)]
        /\ UNCHANGED <<targets, eventsBuffer, ctlVars, restarting, envVars>>

\* Faulty: the ring is the one registered now, not the one looked up.
PushRegistered(l) ==
    LET p == loop[l].pid
        o == IF targets[p] = Nil THEN loop[l].state ELSE targets[p]
    IN  /\ loop[l].pc = "push"
        /\ heap' = [heap EXCEPT ![o].metrics =
                       PushRecent(@, loop[l].metric, MetricsBufferLen)]
        /\ Goto(l, "latest")
        /\ UNCHANGED <<targets, eventsBuffer, ctlVars, restarting, envVars>>

Push(l) ==
    LET o == loop[l].state
    IN  /\ loop[l].pc = "push"
        /\ heap' = [heap EXCEPT ![o].metrics =
                       PushRecent(@, loop[l].metric, MetricsBufferLen)]
        /\ Goto(l, "latest")
        /\ UNCHANGED <<targets, eventsBuffer, ctlVars, restarting, envVars>>

\* lastMetric is stored and exitReported read under the same lock.
StoreLatest(l) ==
    LET f == loop[l]
    IN  /\ f.pc = "latest"
        /\ heap' = [heap EXCEPT ![f.state].lastMetric = f.metric]
        /\ loop' = [loop EXCEPT ![l] =
               IF ~f.metric.alive /\ ~heap[f.state].exitReported
               THEN [f EXCEPT !.pc = "report"] ELSE Done(l)]
        /\ UNCHANGED <<targets, eventsBuffer, ctlVars, restarting, envVars>>

\* Faulty: the latch is not set.
ReportUnlatched(l) ==
    /\ loop[l].pc = "report"
    /\ Goto(l, "exit")
    /\ UNCHANGED <<targets, heap, eventsBuffer, ctlVars, restarting, envVars>>

\* The latch is set under a lock taken anew.
Report(l) ==
    /\ loop[l].pc = "report"
    /\ heap' = [heap EXCEPT ![loop[l].state].exitReported = TRUE]
    /\ Goto(l, "exit")
    /\ UNCHANGED <<targets, eventsBuffer, ctlVars, restarting, envVars>>

ExitEvent(l) ==
    LET f == loop[l]
    IN  /\ f.pc = "exit"
        /\ AddEvent("exit", f.pid)
        /\ loop' = [loop EXCEPT ![l] =
               IF f.target.AutoRestart /\ f.target.RestartCmd # NoCmd
               THEN [f EXCEPT !.pc = "restart"] ELSE Done(l)]
        /\ UNCHANGED <<targets, heap, ctlVars, restarting, envVars>>

------------------------------------------------------------------------------
\* tryRestart(pid): the map is consulted again, and the cell found there, not
\* the one being collected, decides and is charged for the restart.

\* Faulty: tryRestart is called again after every attempt.
RetryRestart(l) == loop[l]

AfterRestart(l) ==
    IF loop[l].metric.alive THEN [loop[l] EXCEPT !.pc = "clear"] ELSE Done(l)

MayRestart(p) == targets[p] # Nil /\ ~CoolingDown(heap[targets[p]])

TryRestart(l) ==
    LET p == loop[l].pid
        o == targets[p]
    IN  /\ loop[l].pc = "restart"
        /\ IF MayRestart(p)
           THEN /\ heap' = [heap EXCEPT ![o].lastRestart = now,
                                        ![o].restartCount = @ + 1]
                /\ restarting' = restarting \cup
                      {[obj |-> o, pid |-> p, cmd |-> heap[o].target.RestartCmd,
                        n |-> heap[o].restartCount + 1]}
           ELSE UNCHANGED <<heap, restarting>>
        /\ loop' = [loop EXCEPT ![l] = AfterRestart(l)]
        /\ UNCHANGED <<targets, eventsBuffer, ctlVars, envVars>>

\* The goroutine: cmd.Start() succeeds or fails, one restart event either way.
RunRestart(r) ==
    /\ r \in restarting
    /\ restarting' = restarting \ {r}
    /\ AddEvent("restart", r.pid)
    /\ UNCHANGED <<targets, heap, ctlVars, loop, envVars>>

------------------------------------------------------------------------------
\* Queries of the HTTP handlers; GetRecent of a ring is its newest items.

GetMetrics(p, n) ==
    IF targets[p] = Nil THEN <<>> ELSE Newest(heap[targets[p]].metrics, n)

GetAllLatestMetrics ==
    [p \in {q \in Registered : heap[targets[q]].lastMetric # Nil} |->
        heap[targets[p]].lastMetric]

------------------------------------------------------------------------------
\* The environment.  A PID may come back: the operating system reuses it.

ProcExits(p) ==
    /\ procAlive[p]
    /\ procAlive' = [procAlive EXCEPT ![p] = FALSE]
    /\ UNCHANGED <<targets, heap, eventsBuffer, ctlVars, loop, restarting, now>>

ProcAppears(p) ==
    /\ ~procAlive[p]
    /\ procAlive' = [procAlive EXCEPT ![p] = TRUE]
    /\ UNCHANGED <<targets, heap, eventsBuffer, ctlVars, loop, restarting, now>>

Clock ==
    /\ now < MaxTime
    /\ now' = now + 1
    /\ UNCHANGED <<targets, heap, eventsBuffer, ctlVars, loop, restarting,
                   procAlive>>

------------------------------------------------------------------------------
\* NewMultiMonitor: the log is open, no target, no goroutine.
Init ==
    /\ targets = [p \in PIDs |-> Nil]
    /\ heap = [o \in Objs |-> Nil]
    /\ eventsBuffer = <<>>
    /\ running = FALSE
    /\ logOpen = TRUE
    /\ loop = [l \in Loops |-> Frame("none", {})]
    /\ restarting = {}
    /\ procAlive \in [PIDs -> BOOLEAN]
    /\ now = 0

CollectOne(l) ==
    \/ \E p \in loop[l].todo : Lookup(l, p)
    \/ Probe(l) \/ MarkAlive(l)
    \/ CheckOver(l) \/ CheckUnder(l) \/ Alarm(l) \/ ClearCount(l)
    \/ Push(l) \/ StoreLatest(l) \/ Report(l) \/ ExitEvent(l)
    \/ TryRestart(l)

LoopStep(l) ==
    \/ EnterSelect(l) \/ StopReceived(l) \/ TickerFires(l)
    \/ CollectAll(l) \/ CollectOne(l)

Handler ==
    \/ \E p \in PIDs, c \in Configs, o \in Objs : AddTarget(p, c, o)
    \/ \E p \in PIDs : RemoveTarget(p)
    \/ RemoveAllTargets
    \/ \E p \in PIDs, c \in Configs : UpdateTarget(p, c)
    \/ \E l \in Loops : Start(l)
    \/ Stop

Environment ==
    \/ \E p \in PIDs : ProcExits(p) \/ ProcAppears(p)
    \/ Clock

Next ==
    \/ Handler
    \/ \E l \in Loops : LoopStep(l)
    \/ \E r \in restarting : RunRestart(r)
    \/ Environment

Spec == Init /\ [][Next]_vars

\* Goroutines that can run are scheduled, tickers keep firing, time passes.
Fairness ==
    /\ \A l \in Loops : WF_vars(LoopStep(l))
    /\ WF_vars(\E r \in restarting : RunRestart(r))
    /\ WF_vars(Clock)

FairSpec == Spec /\ Fairness

------------------------------------------------------------------------------
\* Properties.

Idle == {"none", "select", "stopped", "collect", "next"}
Collecting == {"probe", "alive", "check", "alarm", "restart", "clear", "push",
               "latest", "report", "exit"}
FrameType ==
    [pc : Idle \cup Collecting, todo : SUBSET PIDs, pid : PIDs \cup {Nil},
     state : Objs \cup {Nil}, target : Configs \cup {Nil},
     metric : Metric \cup {Nil}, res : Resources]
Restart == [obj : Objs, pid : PIDs, cmd : Commands \cup {NoCmd}, n : Nat]

\* Inside collectOne a goroutine has a PID, its cell and a copy of its
\* configuration, and after the probe a metric taken for it to store.
FrameOK(f) ==
    f.pc \in Collecting =>
        /\ f.pid \in PIDs /\ f.state \in Objs /\ f.target \in Configs
        /\ f.pc # "probe" =>
              /\ f.metric \in Metric
              /\ f.metric.alive => f.metric.limit = f.target.Threshold

\* Type invariant.  The cells in use hold a targetState: a removal takes a
\* cell out of the map and leaves it to the goroutines that still use it.
TypeOK ==
    /\ targets \in [PIDs -> Objs \cup {Nil}]
    /\ heap \in [Objs -> State \cup {Nil}]
    /\ eventsBuffer \in Seq(Event)
    /\ running \in BOOLEAN
    /\ logOpen \in BOOLEAN
    /\ loop \in [Loops -> FrameType]
    /\ restarting \in SUBSET Restart
    /\ procAlive \in [PIDs -> BOOLEAN]
    /\ now \in Nat
    /\ \A l \in Loops : FrameOK(loop[l])
    /\ \A o \in InUse \ {Nil} : heap[o] \in State

\* A bound on the rate of restarts whatever causes them (CPU, memory or exit)
\* and whichever goroutines decide them: the k-th restart charged to a
\* registration comes no sooner than k-1 times the smallest cooldown, counted
\* from time 0.
Spaced(state, t) ==
    IF state.lastRestart = Never THEN state.restartCount = 0
    ELSE /\ state.restartCount > 0
         /\ (state.restartCount - 1) * MinCooldown <= state.lastRestart
         /\ state.lastRestart <= t
RestartsSpaced == \A o \in Objs : heap[o] # Nil => Spaced(heap[o], now)

\* Two restarts of a registration are a cooldown apart, the one configured when
\* the later is decided: no step of any goroutine or handler (an update, the
\* restart of another goroutine, the return of the process) makes a cell in use
\* forget its last restart, and none adds one that is not the first before the
\* cooldown is over.
RestartsOK(s, t) ==
    \/ t.restartCount = s.restartCount /\ t.lastRestart = s.lastRestart
    \/ /\ t.restartCount = s.restartCount + 1 /\ t.lastRestart = now
       /\ s.lastRestart = Never \/ now - s.lastRestart >= Cooldown(s.target)
RestartsApart ==
    [][\A o \in InUse \ {Nil} : RestartsOK(heap[o], heap'[o])]_vars

\* While the monitor says it runs, some goroutine goes on sampling: no order
\* of Start and Stop, and no goroutine late to see a closed channel, leaves
\* IsRunning() true with nobody to sample.
Sampling(l) == loop[l].pc \notin {"none", "stopped"}
RunningHasSampler == running => \E l \in Loops : Sampling(l)

\* Every restart, done or on its way, is announced: for as long as no event
\* has been dropped, the events of a PID hold at least as many triggers
\* (exits and alarms) as restarts done, decided or about to be decided.
Events(p, types) ==
    Cardinality({i \in DOMAIN eventsBuffer : /\ eventsBuffer[i].pid = p
                                             /\ eventsBuffer[i].type \in types})
RestartsOf(p) ==
    Events(p, {"restart"}) + Cardinality({r \in restarting : r.pid = p})
    + Cardinality({l \in Loops : loop[l].pc = "restart" /\ loop[l].pid = p})
RestartsHaveTriggers ==
    Len(eventsBuffer) < EventsBufferLen =>
        \A p \in PIDs : RestartsOf(p) <= Events(p, Resources \cup {"exit"})

\* An exit is reported when it is first detected: the sample stored before
\* the dead one being reported, if any, was of a live process.  (While at
\* most one goroutine is in collectOne.)
FirstDetection ==
    \A l \in Loops : loop[l].pc \in {"report", "exit"} =>
        LET ring == heap[loop[l].state].metrics
        IN  Len(ring) > 1 => ring[Len(ring) - 1].alive

\* An alarm has its samples: of the live samples stored before the one that
\* raises it, the newest limit - 1 exceed a threshold as well, each the one it
\* was checked against, whatever updates change between them; or: a sample
\* within its threshold has at least as many live ones after it.  (While at
\* most one goroutine is in collectOne.)
Exceeds(m, r) == m.limit[r] > 0 /\ m.load[r] > m.limit[r]
LiveAfter(ring, i) == {j \in DOMAIN ring : j > i /\ ring[j].alive}
AlarmJustified ==
    \A l \in Loops : loop[l].pc = "alarm" =>
        LET f == loop[l]
            ring == heap[f.state].metrics
        IN  \A i \in DOMAIN ring :
                ring[i].alive /\ ~Exceeds(ring[i], f.res) =>
                    Cardinality(LiveAfter(ring, i))
                        >= ExceedLimit(f.target, f.res) - 1

\* GetAllLatestMetrics and GetMetrics(pid, 1) agree, except between the two
\* steps that store one sample.  (While at most one goroutine is in
\* collectOne.)
Storing(o) == \E l \in Loops : loop[l].pc = "latest" /\ loop[l].state = o
LatestIsNewest ==
    \A p \in Registered : ~Storing(targets[p]) =>
        GetMetrics(p, 1) = IF p \in DOMAIN GetAllLatestMetrics
                           THEN <<GetAllLatestMetrics[p]>> ELSE <<>>

Monitored(p) == running /\ targets[p] # Nil

\* A monitored process that stays dead ends up reported, and stays so.
DeadTargetIsReported ==
    \A p \in PIDs :
        <>[](Monitored(p) /\ ~procAlive[p])
        => <>[](Monitored(p) /\ heap[targets[p]].exitReported)

\* Load that every sample finds over the limit raises alarm after alarm.
OverloadSeen(p, r) ==
    /\ Monitored(p) /\ procAlive[p]
    /\ \A l \in Loops :
          loop[l].pid = p /\ loop[l].pc \in Collecting =>
              /\ loop[l].target.Threshold[r] > 0
              /\ loop[l].pc # "probe" =>
                    loop[l].metric.load[r] > loop[l].target.Threshold[r]
SustainedOverloadAlarms ==
    \A p \in PIDs, r \in Resources :
        <>[]OverloadSeen(p, r)
        => []<>(\E l \in Loops : /\ loop[l].pc = "alarm"
                                 /\ loop[l].pid = p /\ loop[l].res = r)

\* The monitor as its callers see it: each handler is one step of Watch, and
\* collectOne, which touches m.mu a dozen times, is invisible.
SamplerView(l) ==
    CASE loop[l].pc = "none" -> "none"
      [] loop[l].pc = "select" -> "waiting"
      [] loop[l].pc = "stopped" -> "woken"
      [] OTHER -> "working"
Watched == INSTANCE Watch WITH
    targets <- Registered, sampler <- [l \in Loops |-> SamplerView(l)]
ImplementsWatch == Watched!Spec

------------------------------------------------------------------------------
\* What the documentation says and the code does not do.

\* "Stop stops monitoring": a monitor that is stopped and not started again
\* stops sampling.
StopEndsSampling ==
    []<>(running \/ \A l \in Loops : ~Sampling(l))

\* "After a monitored process exits the restart command is executed": an exit
\* not yet reported leads to one more restart, unless the process comes back
\* or the target is no longer to be restarted.  (Where the clock has room for
\* the cooldown to elapse.)
ToRestart(p) ==
    /\ Monitored(p)
    /\ heap[targets[p]].target.AutoRestart
    /\ heap[targets[p]].target.RestartCmd # NoCmd
UnreportedExit(p, k) ==
    /\ ToRestart(p) /\ ~procAlive[p]
    /\ LET state == heap[targets[p]]
       IN  /\ ~state.exitReported
           /\ state.restartCount = k
           /\ state.lastRestart + Cooldown(state.target) <= MaxTime
ExitIsRestarted ==
    \A p \in PIDs, k \in 0 .. MaxTime :
        UnreportedExit(p, k) ~> \/ procAlive[p] \/ ~ToRestart(p)
                                \/ heap[targets[p]].restartCount > k

==============================================================================
