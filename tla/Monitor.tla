------------------------------- MODULE Monitor -------------------------------
(***************************************************************************)
(* Monitor of monitor/monitor.go: one process, given by PID or by name, is *)
(* sampled by one goroutine (loop), killed and restarted by that goroutine *)
(* (triggerRestart), and looked for again by another one (waitAndRefindPID)*)
(* when it is monitored by name.  m.mu is held for single statements, so   *)
(* one action is one critical section or one call made without the lock.   *)
(*                                                                         *)
(* main.go starts the monitor once, and stops it once, before it exits.    *)
(* The clock counts seconds; a sleep lasts at least as long as it says.    *)
(* The lines of the JSONL file are modelled in EventLog.                   *)
(***************************************************************************)
EXTENDS RecentSeq, FiniteSets

CONSTANTS
    PIDs,
    NoPid,              \* config.PID == 0
    Configs,            \* the configurations main.go may be run with
    Refinders,          \* waitAndRefindPID goroutines; bounds those alive
    MetricsBufferLen, EventsBufferLen,
    RestartCooldown,    \* 10 s in the code
    RefindDelay,        \* 2 s in the code
    RefindTries         \* 10 in the code

\* ByName says that a process name is configured, RestartCmd that a restart
\* command is.
Config == [PID : PIDs \cup {NoPid}, ByName : BOOLEAN, RestartCmd : BOOLEAN,
           CPUExceedCount : Nat]

ASSUME ConfigAssumption ==
    /\ NoPid \notin PIDs
    /\ Configs \subseteq Config
    /\ \A c \in Configs : c.PID # NoPid \/ c.ByName

ASSUME BoundAssumption ==
    /\ {MetricsBufferLen, EventsBufferLen, RefindTries} \subseteq Nat \ {0}
    /\ {RestartCooldown, RefindDelay} \subseteq Nat

VARIABLES
    config, targetPID, running,
    stopClosed,     \* stopCh is closed; it is never made anew
    cpuExceedCnt, lastMetric,
    cooldown,       \* seconds until time.Since(lastRestart) is long enough
    waitingRestart,
    metricsBuffer, eventsBuffer,
    loop,           \* the stack frame of the loop() goroutine
    refind,         \* those of the waitAndRefindPID goroutines
    proc            \* what runs under each PID

ctlVars == <<config, running, stopClosed>>
bufVars == <<metricsBuffer, eventsBuffer, lastMetric>>
vars == <<ctlVars, bufVars, targetPID, cpuExceedCnt, cooldown, waitingRestart,
          loop, refind, proc>>

\* A process that carries the configured name, another one, or none.
Occupants == {"named", "other", "none"}
Named == {p \in PIDs : proc[p] = "named"}
IsAlive(p) == proc[p] # "none"

\* over: the CPU threshold is set and exceeded.
Metric == [pid : PIDs, alive : BOOLEAN, over : BOOLEAN]
Dead(p) == [pid |-> p, alive |-> FALSE, over |-> FALSE]
NoMetric == Dead(NoPid)

\* reason is why triggerRestart was called, old the PID it took as the old one.
Frame(pc) == [pc |-> pc, metric |-> NoMetric, reason |-> "exit", old |-> NoPid]
Asleep(pc) == [pc |-> pc, tries |-> RefindTries, delay |-> RefindDelay,
               pid |-> NoPid]
Searching(r) == refind[r].pc # "none"

Goto(pc) == loop' = [loop EXCEPT !.pc = pc]
AddEvent(type, pid) ==
    eventsBuffer' = PushRecent(eventsBuffer, [type |-> type, pid |-> pid],
                               EventsBufferLen)

------------------------------------------------------------------------------
\* FindPIDByName fails unless exactly one process has the name; main.go gives
\* up when Start fails.
Start ==
    /\ ~running /\ ~stopClosed
    /\ \E p \in PIDs :
          /\ IF config.PID # NoPid THEN p = config.PID ELSE Named = {p}
          /\ targetPID' = p
    /\ running' = TRUE
    /\ loop' = Frame("select")
    /\ UNCHANGED <<config, stopClosed, bufVars, cpuExceedCnt, cooldown,
                   waitingRestart, refind, proc>>

Stop ==
    /\ running
    /\ running' = FALSE
    /\ stopClosed' = TRUE
    /\ UNCHANGED <<config, bufVars, targetPID, cpuExceedCnt, cooldown,
                   waitingRestart, loop, refind, proc>>

------------------------------------------------------------------------------
\* loop() and collect().

StopReceived ==
    /\ loop.pc = "select" /\ stopClosed
    /\ Goto("none")
    /\ UNCHANGED <<ctlVars, bufVars, targetPID, cpuExceedCnt, cooldown,
                   waitingRestart, refind, proc>>

\* The select may prefer the tick to a closed channel.
TickerFires ==
    /\ loop.pc = "select"
    /\ Goto("collect")
    /\ UNCHANGED <<ctlVars, bufVars, targetPID, cpuExceedCnt, cooldown,
                   waitingRestart, refind, proc>>

ReadTarget ==
    /\ loop.pc = "collect"
    /\ loop' = [loop EXCEPT !.pc = "probe", !.metric = Dead(targetPID)]
    /\ UNCHANGED <<ctlVars, bufVars, targetPID, cpuExceedCnt, cooldown,
                   waitingRestart, refind, proc>>

\* GetMetrics may fail after IsAlive: the load is then zero.
Probe ==
    /\ loop.pc = "probe"
    /\ LET alive == IsAlive(loop.metric.pid)
       IN  \E over \in {FALSE, alive} :
              loop' = [loop EXCEPT !.pc = "push", !.metric.alive = alive,
                                   !.metric.over = over]
    /\ UNCHANGED <<ctlVars, bufVars, targetPID, cpuExceedCnt, cooldown,
                   waitingRestart, refind, proc>>

Push ==
    /\ loop.pc = "push"
    /\ metricsBuffer' = PushRecent(metricsBuffer, loop.metric, MetricsBufferLen)
    /\ Goto("latest")
    /\ UNCHANGED <<ctlVars, eventsBuffer, lastMetric, targetPID, cpuExceedCnt,
                   cooldown, waitingRestart, refind, proc>>

StoreLatest ==
    /\ loop.pc = "latest"
    /\ lastMetric' = loop.metric
    /\ Goto("rules")
    /\ UNCHANGED <<ctlVars, metricsBuffer, eventsBuffer, targetPID,
                   cpuExceedCnt, cooldown, waitingRestart, refind, proc>>

------------------------------------------------------------------------------
\* checkRules(metric).  Only this goroutine uses the counter, so reading
\* waitingRestart and deciding is one step.

\* Faulty: the rules are checked although a new process is awaited.
AlwaysSettled == loop.pc = "rules"

Settled == loop.pc = "rules" /\ ~waitingRestart

RulesSkipped ==
    /\ loop.pc = "rules" /\ waitingRestart
    /\ loop' = Frame("select")
    /\ UNCHANGED <<ctlVars, bufVars, targetPID, cpuExceedCnt, cooldown,
                   waitingRestart, refind, proc>>

ExitSeen ==
    /\ Settled /\ ~loop.metric.alive
    /\ loop' = [loop EXCEPT !.pc = "event", !.reason = "exit"]
    /\ UNCHANGED <<ctlVars, bufVars, targetPID, cpuExceedCnt, cooldown,
                   waitingRestart, refind, proc>>

\* Faulty: the count is kept at one.
CpuOverOnce ==
    /\ Settled /\ loop.metric.alive /\ loop.metric.over
    /\ cpuExceedCnt' = 1
    /\ loop' = IF 1 >= config.CPUExceedCount
               THEN [loop EXCEPT !.pc = "event", !.reason = "cpu"]
               ELSE Frame("select")
    /\ UNCHANGED <<ctlVars, bufVars, targetPID, cooldown, waitingRestart,
                   refind, proc>>

CpuOver ==
    /\ Settled /\ loop.metric.alive /\ loop.metric.over
    /\ cpuExceedCnt' = cpuExceedCnt + 1
    /\ loop' = IF cpuExceedCnt + 1 >= config.CPUExceedCount
               THEN [loop EXCEPT !.pc = "event", !.reason = "cpu"]
               ELSE Frame("select")
    /\ UNCHANGED <<ctlVars, bufVars, targetPID, cooldown, waitingRestart,
                   refind, proc>>

CpuUnder ==
    /\ Settled /\ loop.metric.alive /\ ~loop.metric.over
    /\ cpuExceedCnt' = 0
    /\ loop' = Frame("select")
    /\ UNCHANGED <<ctlVars, bufVars, targetPID, cooldown, waitingRestart,
                   refind, proc>>

Event ==
    /\ loop.pc = "event"
    /\ AddEvent(loop.reason, loop.metric.pid)
    /\ Goto("trigger")
    /\ UNCHANGED <<ctlVars, metricsBuffer, lastMetric, targetPID, cpuExceedCnt,
                   cooldown, waitingRestart, refind, proc>>

------------------------------------------------------------------------------
\* triggerRestart(reason).

\* Back in checkRules, which clears the counter after an overload.
Return ==
    /\ cpuExceedCnt' = IF loop.reason = "cpu" THEN 0 ELSE cpuExceedCnt
    /\ loop' = Frame("select")

NoRestart ==
    /\ loop.pc = "trigger"
    /\ ~config.RestartCmd \/ cooldown > 0
    /\ Return
    /\ UNCHANGED <<ctlVars, bufVars, targetPID, cooldown, waitingRestart,
                   refind, proc>>

\* Faulty: the time of the last restart is not looked at.
RestartAtOnce ==
    /\ loop.pc = "trigger"
    /\ config.RestartCmd
    /\ cooldown' = RestartCooldown
    /\ loop' = [loop EXCEPT !.pc = "check", !.old = targetPID]
    /\ UNCHANGED <<ctlVars, bufVars, targetPID, cpuExceedCnt, waitingRestart,
                   refind, proc>>

BeginRestart ==
    /\ loop.pc = "trigger"
    /\ config.RestartCmd /\ cooldown = 0
    /\ cooldown' = RestartCooldown
    /\ loop' = [loop EXCEPT !.pc = "check", !.old = targetPID]
    /\ UNCHANGED <<ctlVars, bufVars, targetPID, cpuExceedCnt, waitingRestart,
                   refind, proc>>

CheckOld ==
    /\ loop.pc = "check"
    /\ Goto(IF IsAlive(loop.old) THEN "kill" ELSE "execute")
    /\ UNCHANGED <<ctlVars, bufVars, targetPID, cpuExceedCnt, cooldown,
                   waitingRestart, refind, proc>>

\* A kill that fails is logged, one that succeeds may take effect later.
KillOld ==
    /\ loop.pc = "kill"
    /\ proc' \in {proc, [proc EXCEPT ![loop.old] = "none"]}
    /\ Goto("execute")
    /\ UNCHANGED <<ctlVars, bufVars, targetPID, cpuExceedCnt, cooldown,
                   waitingRestart, refind>>

ExecuteRestart ==
    /\ loop.pc = "execute"
    /\ Goto("announce")
    /\ UNCHANGED <<ctlVars, bufVars, targetPID, cpuExceedCnt, cooldown,
                   waitingRestart, refind, proc>>

ExecuteFails ==
    /\ loop.pc = "execute"
    /\ Return
    /\ UNCHANGED <<ctlVars, bufVars, targetPID, cooldown, waitingRestart,
                   refind, proc>>

Announce ==
    /\ loop.pc = "announce"
    /\ AddEvent("restart", loop.old)
    /\ Goto("wait")
    /\ UNCHANGED <<ctlVars, metricsBuffer, lastMetric, targetPID, cpuExceedCnt,
                   cooldown, waitingRestart, refind, proc>>

\* By name, a goroutine looks for the new process; by PID, the rules stay off.
Wait ==
    /\ loop.pc = "wait"
    /\ waitingRestart' = TRUE
    /\ IF config.ByName
       THEN \E r \in Refinders :
               ~Searching(r) /\ refind' = [refind EXCEPT ![r] = Asleep("scan")]
       ELSE UNCHANGED refind
    /\ Return
    /\ UNCHANGED <<ctlVars, bufVars, targetPID, cooldown, proc>>

------------------------------------------------------------------------------
\* waitAndRefindPID(): the first PID found, in whatever order they are listed.

Awake(r, pc) == refind[r].pc = pc /\ refind[r].delay = 0

\* Faulty: the list found is not checked for being empty.
ScanUnchecked(r) ==
    /\ Awake(r, "scan") /\ refind[r].tries > 0
    /\ \E p \in IF Named = {} THEN {NoPid} ELSE Named :
          refind' = [refind EXCEPT ![r].pc = "found", ![r].pid = p]
    /\ UNCHANGED <<ctlVars, bufVars, targetPID, cpuExceedCnt, cooldown,
                   waitingRestart, loop, proc>>

\* Listing the processes may fail, which counts as finding none.
Scan(r) ==
    /\ Awake(r, "scan") /\ refind[r].tries > 0
    /\ \/ \E p \in Named :
             refind' = [refind EXCEPT ![r].pc = "found", ![r].pid = p]
       \/ refind' = [refind EXCEPT ![r].tries = @ - 1, ![r].delay = 1]
    /\ UNCHANGED <<ctlVars, bufVars, targetPID, cpuExceedCnt, cooldown,
                   waitingRestart, loop, proc>>

SetTarget(r) ==
    /\ Awake(r, "found")
    /\ targetPID' = refind[r].pid
    /\ refind' = [refind EXCEPT ![r].pc = "finish"]
    /\ UNCHANGED <<ctlVars, bufVars, cpuExceedCnt, cooldown, waitingRestart,
                   loop, proc>>

\* Faulty: the search ends without clearing waitingRestart.
GiveUpWaiting(r) ==
    /\ Awake(r, "scan") /\ refind[r].tries = 0
    /\ refind' = [refind EXCEPT ![r] = Asleep("none")]
    /\ UNCHANGED <<ctlVars, bufVars, targetPID, cpuExceedCnt, cooldown,
                   waitingRestart, loop, proc>>

GiveUp(r) ==
    /\ Awake(r, "scan") /\ refind[r].tries = 0
    /\ refind' = [refind EXCEPT ![r].pc = "finish"]
    /\ UNCHANGED <<ctlVars, bufVars, targetPID, cpuExceedCnt, cooldown,
                   waitingRestart, loop, proc>>

\* The deferred function.
Finish(r) ==
    /\ Awake(r, "finish")
    /\ waitingRestart' = FALSE
    /\ refind' = [refind EXCEPT ![r] = Asleep("none")]
    /\ UNCHANGED <<ctlVars, bufVars, targetPID, cpuExceedCnt, cooldown, loop,
                   proc>>

------------------------------------------------------------------------------
\* The environment.

ProcExits(p) ==
    /\ IsAlive(p)
    /\ proc' = [proc EXCEPT ![p] = "none"]
    /\ UNCHANGED <<ctlVars, bufVars, targetPID, cpuExceedCnt, cooldown,
                   waitingRestart, loop, refind>>

ProcAppears(p) ==
    /\ ~IsAlive(p)
    /\ \E who \in {"named", "other"} : proc' = [proc EXCEPT ![p] = who]
    /\ UNCHANGED <<ctlVars, bufVars, targetPID, cpuExceedCnt, cooldown,
                   waitingRestart, loop, refind>>

Less(t) == IF t > 0 THEN t - 1 ELSE 0
\* A second passes for the cooldown and for every sleep.
Second ==
    /\ cooldown > 0 \/ \E r \in Refinders : Searching(r) /\ refind[r].delay > 0
    /\ cooldown' = Less(cooldown)
    /\ refind' = [r \in Refinders |->
                     IF Searching(r)
                     THEN [refind[r] EXCEPT !.delay = Less(@)] ELSE refind[r]]
    /\ UNCHANGED <<ctlVars, bufVars, targetPID, cpuExceedCnt, waitingRestart,
                   loop, proc>>

------------------------------------------------------------------------------
Init ==
    /\ config \in Configs
    /\ targetPID = NoPid
    /\ running = FALSE /\ stopClosed = FALSE
    /\ cpuExceedCnt = 0
    /\ lastMetric = NoMetric
    /\ cooldown = 0
    /\ waitingRestart = FALSE
    /\ metricsBuffer = <<>> /\ eventsBuffer = <<>>
    /\ loop = Frame("none")
    /\ refind = [r \in Refinders |-> Asleep("none")]
    /\ proc \in [PIDs -> Occupants]

LoopStep ==
    \/ StopReceived \/ TickerFires
    \/ ReadTarget \/ Probe \/ Push \/ StoreLatest
    \/ RulesSkipped \/ ExitSeen \/ CpuOver \/ CpuUnder \/ Event
    \/ NoRestart \/ BeginRestart \/ CheckOld \/ KillOld
    \/ ExecuteRestart \/ ExecuteFails \/ Announce \/ Wait

RefindStep(r) == Scan(r) \/ SetTarget(r) \/ GiveUp(r) \/ Finish(r)

Environment ==
    \/ \E p \in PIDs : ProcExits(p) \/ ProcAppears(p)
    \/ Second

Next ==
    \/ Start \/ Stop
    \/ LoopStep
    \/ \E r \in Refinders : RefindStep(r)
    \/ Environment

Spec == Init /\ [][Next]_vars

\* Goroutines that can run are scheduled, the ticker keeps firing, time passes.
Fairness ==
    /\ WF_vars(LoopStep)
    /\ \A r \in Refinders : WF_vars(RefindStep(r))
    /\ WF_vars(Second)

FairSpec == Spec /\ Fairness

------------------------------------------------------------------------------
\* Properties.

Sampling == {"select", "collect", "probe", "push", "latest", "rules", "event"}
Restarting == {"trigger", "check", "kill", "execute", "announce", "wait"}
FrameType ==
    [pc : {"none"} \cup Sampling \cup Restarting,
     metric : Metric \cup {NoMetric}, reason : {"exit", "cpu"},
     old : PIDs \cup {NoPid}]
RefindType ==
    [pc : {"none", "scan", "found", "finish"}, tries : 0 .. RefindTries,
     delay : Nat, pid : PIDs \cup {NoPid}]
EventType == [type : {"exit", "cpu", "restart"}, pid : PIDs]

\* Type invariant.  A restart under way has an old process, a goroutine that
\* found a process has its PID.
TypeOK ==
    /\ config \in Configs
    /\ targetPID \in PIDs \cup {NoPid}
    /\ running \in BOOLEAN /\ stopClosed \in BOOLEAN
    /\ waitingRestart \in BOOLEAN
    /\ cpuExceedCnt \in Nat /\ cooldown \in Nat
    /\ lastMetric \in Metric \cup {NoMetric}
    /\ metricsBuffer \in Seq(Metric)
    /\ eventsBuffer \in Seq(EventType)
    /\ loop \in FrameType
    /\ refind \in [Refinders -> RefindType]
    /\ proc \in [PIDs -> Occupants]
    /\ loop.pc # "none" => targetPID \in PIDs
    /\ loop.pc \in (Sampling \cup Restarting) \ {"select", "collect"}
         => loop.metric \in Metric
    /\ loop.pc \in Restarting \ {"trigger"} => loop.old \in PIDs
    /\ \A r \in Refinders : refind[r].pc = "found" => refind[r].pid \in PIDs

\* The rules are suspended exactly while somebody looks for the new process
\* (by name), so that no restart starts during a search, no second search
\* starts, and none ends without giving the rules back.
WaitingIsSearching ==
    /\ \A r, s \in Refinders : Searching(r) /\ Searching(s) => r = s
    /\ config.ByName => (waitingRestart <=> \E r \in Refinders : Searching(r))
    /\ loop.pc \in Restarting \cup {"event"} => ~waitingRestart

SelfHealing == running /\ config.ByName /\ config.RestartCmd

\* A process monitored by name that stays dead is restarted again and again:
\* neither a search that timed out nor a command that failed nor the cooldown
\* is the last word.
DeadIsRestarted ==
    <>[](SelfHealing /\ Named = {} /\ ~IsAlive(targetPID))
    => []<>(loop.pc = "execute")

\* So is one whose samples all exceed the CPU threshold.
Overloaded == loop.pc \in {"push", "latest", "rules"} => loop.metric.over
OverloadIsRestarted ==
    <>[](SelfHealing /\ Overloaded) => []<>(loop.pc = "execute")

\* The monitor as whom it reports to sees it: the samples, the statements of
\* triggerRestart and the tries of a search are invisible.
LifeView == IF stopClosed THEN "stopped" ELSE IF running THEN "running" ELSE "new"
Settling == \E r \in Refinders : refind[r].pc = "finish"
WaitingView ==
    CASE ~config.ByName -> "blind"
      [] config.ByName /\ Settling -> "settling"
      [] OTHER -> "searching"
PhaseView ==
    CASE loop.pc = "trigger" -> "alarmed"
      [] loop.pc \in {"check", "kill", "execute", "announce"} -> "restarting"
      [] loop.pc = "wait" -> "announced"
      [] loop.pc \notin Restarting /\ waitingRestart -> WaitingView
      [] loop.pc = "none" /\ ~waitingRestart -> "off"
      [] OTHER -> "watching"
Restarts == INSTANCE Restarter WITH life <- LifeView, phase <- PhaseView
ImplementsRestarter == Restarts!Spec

------------------------------------------------------------------------------
\* What the documentation says and the code does not do.

\* "Kill the old process": the process that is killed is the one whose sample
\* asked for the restart.
KillsSampled == loop.pc = "kill" => loop.old = loop.metric.pid

==============================================================================
