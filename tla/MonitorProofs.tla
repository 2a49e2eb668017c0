---------------------------- MODULE MonitorProofs ----------------------------
(***************************************************************************)
(* Theorems about Monitor for any number of PIDs and any configuration,    *)
(* cooldown and number of tries: type correctness, and that the rules are  *)
(* suspended exactly while a search for the new process goes on.           *)
(***************************************************************************)
EXTENDS Monitor, TLAPS

------------------------------------------------------------------------------
\* The parts of the type invariant that a step changes together.

LoopOK ==
    /\ loop \in FrameType
    /\ loop.pc # "none" => targetPID \in PIDs
    /\ loop.pc \in (Sampling \cup Restarting) \ {"select", "collect"}
         => loop.metric \in Metric
    /\ loop.pc \in Restarting \ {"trigger"} => loop.old \in PIDs

RefindOK ==
    /\ refind \in [Refinders -> RefindType]
    /\ \A r \in Refinders : refind[r].pc = "found" => refind[r].pid \in PIDs

BuffersOK ==
    /\ lastMetric \in Metric \cup {NoMetric}
    /\ metricsBuffer \in Seq(Metric)
    /\ eventsBuffer \in Seq(EventType)

RestOK ==
    /\ config \in Configs
    /\ targetPID \in PIDs \cup {NoPid}
    /\ running \in BOOLEAN /\ stopClosed \in BOOLEAN
    /\ waitingRestart \in BOOLEAN
    /\ cpuExceedCnt \in Nat /\ cooldown \in Nat
    /\ proc \in [PIDs -> Occupants]

LEMMA TypeParts == TypeOK <=> LoopOK /\ RefindOK /\ BuffersOK /\ RestOK
  BY DEF TypeOK, LoopOK, RefindOK, BuffersOK, RestOK

LEMMA TypeParts2 == TypeOK' <=> LoopOK' /\ RefindOK' /\ BuffersOK' /\ RestOK'
  BY TypeParts, PTL

\* A goroutine waiting for its ticker has a well-formed frame.
LEMMA FrameWaits ==
    ASSUME NEW pc \in {"none", "select"}
    PROVE  /\ Frame(pc) \in FrameType
           /\ Frame(pc).pc = pc
  BY DEF Frame, FrameType, Sampling, Restarting

LEMMA AsleepType ==
    ASSUME NEW pc \in {"none", "scan"}
    PROVE  Asleep(pc) \in RefindType /\ Asleep(pc).pc = pc
  BY BoundAssumption DEF Asleep, RefindType

\* A step of the goroutine to another place of collect() or triggerRestart().
LEMMA GotoType ==
    ASSUME LoopOK, NEW pc \in Sampling \cup Restarting, loop.pc # "none",
           UNCHANGED targetPID, Goto(pc),
           pc \notin {"select", "collect"} => loop.metric \in Metric,
           pc \in Restarting \ {"trigger"} => loop.old \in PIDs
    PROVE  LoopOK'
  BY DEF LoopOK, Goto, FrameType, Sampling, Restarting

\* A return of triggerRestart.
LEMMA ReturnType ==
    ASSUME LoopOK, loop.pc # "none", RestOK, Return, UNCHANGED targetPID
    PROVE  LoopOK' /\ cpuExceedCnt' \in Nat
  BY FrameWaits DEF LoopOK, RestOK, Return, Sampling, Restarting

\* A change of one search.
LEMMA SearchType ==
    ASSUME RefindOK, NEW r \in Refinders, NEW f \in RefindType,
           f.pc = "found" => f.pid \in PIDs,
           refind' = [refind EXCEPT ![r] = f]
    PROVE  RefindOK'
<1>1. refind' \in [Refinders -> RefindType]
  BY DEF RefindOK
<1>2. \A s \in Refinders : refind'[s] = IF s = r THEN f ELSE refind[s]
  BY DEF RefindOK
<1> QED
  BY <1>1, <1>2 DEF RefindOK

LEMMA AddEventType ==
    ASSUME BuffersOK, NEW type \in {"exit", "cpu", "restart"}, NEW p \in PIDs,
           AddEvent(type, p), UNCHANGED <<lastMetric, metricsBuffer>>
    PROVE  BuffersOK'
<1>1. [type |-> type, pid |-> p] \in EventType
  BY DEF EventType
<1>2. eventsBuffer' \in Seq(EventType)
  BY <1>1, PushRecentType, BoundAssumption DEF AddEvent, BuffersOK
<1> QED
  BY <1>2 DEF BuffersOK

------------------------------------------------------------------------------
\* Type correctness.

LEMMA TypeInit == Init => TypeOK
<1> SUFFICES ASSUME Init PROVE TypeOK
  OBVIOUS
<1>1. LoopOK
  BY FrameWaits DEF Init, LoopOK, Sampling, Restarting
<1>2. RefindOK
  BY AsleepType DEF Init, RefindOK
<1>3. BuffersOK
  BY DEF Init, BuffersOK
<1>4. RestOK
  BY DEF Init, RestOK
<1> QED
  BY <1>1, <1>2, <1>3, <1>4, TypeParts

LEMMA TypeLoopStep == TypeOK /\ LoopStep => TypeOK'
<1> SUFFICES ASSUME TypeOK, LoopStep PROVE TypeOK'
  OBVIOUS
<1> USE DEF ctlVars, bufVars
<1>1. LoopOK /\ RefindOK /\ BuffersOK /\ RestOK
  BY TypeParts
<1>2. CASE StopReceived
  <2>1. LoopOK'
    BY <1>1, <1>2 DEF StopReceived, Goto, LoopOK, FrameType, Sampling, Restarting
  <2> QED
    BY <1>1, <1>2, <2>1, TypeParts2
       DEF StopReceived, RefindOK, BuffersOK, RestOK
<1>3. CASE TickerFires
  <2>1. LoopOK'
    BY <1>1, <1>3, GotoType DEF TickerFires, Sampling, Restarting
  <2> QED
    BY <1>1, <1>3, <2>1, TypeParts2
       DEF TickerFires, RefindOK, BuffersOK, RestOK
<1>4. CASE ReadTarget
  <2>1. targetPID \in PIDs
    BY <1>1, <1>4 DEF ReadTarget, LoopOK
  <2>2. LoopOK'
    <3>1. Dead(targetPID) \in Metric
      BY <2>1 DEF Dead, Metric
    <3> QED
      BY <1>1, <1>4, <2>1, <3>1
         DEF ReadTarget, LoopOK, FrameType, Sampling, Restarting
  <2> QED
    BY <1>1, <1>4, <2>2, TypeParts2
       DEF ReadTarget, RefindOK, BuffersOK, RestOK
<1>5. CASE Probe
  <2>1. LoopOK'
    <3>1. loop.metric \in Metric
      BY <1>1, <1>5 DEF Probe, LoopOK, Sampling
    <3>2. PICK over \in {FALSE, IsAlive(loop.metric.pid)} :
             loop' = [loop EXCEPT !.pc = "push",
                         !.metric.alive = IsAlive(loop.metric.pid),
                         !.metric.over = over]
      BY <1>5 DEF Probe
    <3>3. IsAlive(loop.metric.pid) \in BOOLEAN /\ over \in BOOLEAN
      BY DEF IsAlive
    <3>4. [[loop.metric EXCEPT !.alive = IsAlive(loop.metric.pid)]
             EXCEPT !.over = over] \in Metric
      BY <3>1, <3>3 DEF Metric
    <3> QED
      BY <1>1, <1>5, <3>2, <3>4 DEF Probe, LoopOK, FrameType, Sampling, Restarting
  <2> QED
    BY <1>1, <1>5, <2>1, TypeParts2 DEF Probe, RefindOK, BuffersOK, RestOK
<1>6. CASE Push
  <2>1. loop.metric \in Metric
    BY <1>1, <1>6 DEF Push, LoopOK, Sampling
  <2>2. metricsBuffer' \in Seq(Metric)
    BY <1>1, <1>6, <2>1, PushRecentType, BoundAssumption DEF Push, BuffersOK
  <2>3. LoopOK'
    BY <1>1, <1>6, <2>1, GotoType DEF Push, Sampling, Restarting
  <2> QED
    BY <1>1, <1>6, <2>2, <2>3, TypeParts2 DEF Push, RefindOK, BuffersOK, RestOK
<1>7. CASE StoreLatest
  <2>1. loop.metric \in Metric
    BY <1>1, <1>7 DEF StoreLatest, LoopOK, Sampling
  <2>2. LoopOK'
    BY <1>1, <1>7, <2>1, GotoType DEF StoreLatest, Sampling, Restarting
  <2> QED
    BY <1>1, <1>7, <2>1, <2>2, TypeParts2
       DEF StoreLatest, RefindOK, BuffersOK, RestOK
<1>8. CASE RulesSkipped
  <2>1. LoopOK'
    BY <1>1, <1>8, FrameWaits DEF RulesSkipped, LoopOK, Sampling, Restarting
  <2> QED
    BY <1>1, <1>8, <2>1, TypeParts2
       DEF RulesSkipped, RefindOK, BuffersOK, RestOK
<1>9. CASE ExitSeen
  <2>1. LoopOK'
    BY <1>1, <1>9 DEF ExitSeen, Settled, LoopOK, FrameType, Sampling, Restarting
  <2> QED
    BY <1>1, <1>9, <2>1, TypeParts2 DEF ExitSeen, RefindOK, BuffersOK, RestOK
<1>10. CASE CpuOver
  <2>1. LoopOK'
    <3>1. [loop EXCEPT !.pc = "event", !.reason = "cpu"] \in FrameType
      BY <1>1 DEF LoopOK, FrameType, Sampling
    <3> QED
      BY <1>1, <1>10, <3>1, FrameWaits
         DEF CpuOver, Settled, LoopOK, FrameType, Sampling, Restarting
  <2> QED
    BY <1>1, <1>10, <2>1, TypeParts2 DEF CpuOver, RefindOK, BuffersOK, RestOK
<1>11. CASE CpuUnder
  <2>1. LoopOK'
    BY <1>1, <1>11, FrameWaits DEF CpuUnder, Settled, LoopOK, Sampling, Restarting
  <2> QED
    BY <1>1, <1>11, <2>1, TypeParts2 DEF CpuUnder, RefindOK, BuffersOK, RestOK
<1>12. CASE Event
  <2>1. loop.metric \in Metric /\ loop.reason \in {"exit", "cpu"}
    BY <1>1, <1>12 DEF Event, LoopOK, FrameType, Sampling
  <2>2. LoopOK'
    BY <1>1, <1>12, <2>1, GotoType DEF Event, Restarting
  <2>3. BuffersOK'
    BY <1>1, <1>12, <2>1, AddEventType DEF Event, Metric
  <2> QED
    BY <1>1, <1>12, <2>2, <2>3, TypeParts2 DEF Event, RefindOK, RestOK
<1>13. CASE NoRestart
  <2>1. LoopOK' /\ cpuExceedCnt' \in Nat
    BY <1>1, <1>13, ReturnType DEF NoRestart
  <2> QED
    BY <1>1, <1>13, <2>1, TypeParts2 DEF NoRestart, RefindOK, BuffersOK, RestOK
<1>14. CASE BeginRestart
  <2>1. LoopOK'
    BY <1>1, <1>14 DEF BeginRestart, LoopOK, FrameType, Sampling, Restarting
  <2> QED
    BY <1>1, <1>14, <2>1, TypeParts2, BoundAssumption
       DEF BeginRestart, RefindOK, BuffersOK, RestOK
<1>15. CASE CheckOld
  <2>1. loop.metric \in Metric /\ loop.old \in PIDs
    BY <1>1, <1>15 DEF CheckOld, LoopOK, Sampling, Restarting
  <2>2. LoopOK'
    BY <1>1, <1>15, <2>1, GotoType DEF CheckOld, Sampling, Restarting
  <2> QED
    BY <1>1, <1>15, <2>2, TypeParts2 DEF CheckOld, RefindOK, BuffersOK, RestOK
<1>16. CASE KillOld
  <2>1. loop.metric \in Metric /\ loop.old \in PIDs
    BY <1>1, <1>16 DEF KillOld, LoopOK, Sampling, Restarting
  <2>2. LoopOK'
    BY <1>1, <1>16, <2>1, GotoType DEF KillOld, Sampling, Restarting
  <2>3. proc' \in [PIDs -> Occupants]
    BY <1>1, <1>16 DEF KillOld, RestOK, Occupants
  <2> QED
    BY <1>1, <1>16, <2>2, <2>3, TypeParts2
       DEF KillOld, RefindOK, BuffersOK, RestOK
<1>17. CASE ExecuteRestart
  <2>1. loop.metric \in Metric /\ loop.old \in PIDs
    BY <1>1, <1>17 DEF ExecuteRestart, LoopOK, Sampling, Restarting
  <2>2. LoopOK'
    BY <1>1, <1>17, <2>1, GotoType DEF ExecuteRestart, Sampling, Restarting
  <2> QED
    BY <1>1, <1>17, <2>2, TypeParts2
       DEF ExecuteRestart, RefindOK, BuffersOK, RestOK
<1>18. CASE ExecuteFails
  <2>1. LoopOK' /\ cpuExceedCnt' \in Nat
    BY <1>1, <1>18, ReturnType DEF ExecuteFails
  <2> QED
    BY <1>1, <1>18, <2>1, TypeParts2
       DEF ExecuteFails, RefindOK, BuffersOK, RestOK
<1>19. CASE Announce
  <2>1. loop.metric \in Metric /\ loop.old \in PIDs
    BY <1>1, <1>19 DEF Announce, LoopOK, Sampling, Restarting
  <2>2. LoopOK'
    BY <1>1, <1>19, <2>1, GotoType DEF Announce, Sampling, Restarting
  <2>3. BuffersOK'
    BY <1>1, <1>19, <2>1, AddEventType DEF Announce
  <2> QED
    BY <1>1, <1>19, <2>2, <2>3, TypeParts2 DEF Announce, RefindOK, RestOK
<1>20. CASE Wait
  <2>1. LoopOK' /\ cpuExceedCnt' \in Nat
    BY <1>1, <1>20, ReturnType DEF Wait
  <2>2. RefindOK'
    BY <1>1, <1>20, AsleepType, SearchType DEF Wait, RefindOK
  <2> QED
    BY <1>1, <1>20, <2>1, <2>2, TypeParts2 DEF Wait, BuffersOK, RestOK
<1> QED
  BY <1>2, <1>3, <1>4, <1>5, <1>6, <1>7, <1>8, <1>9, <1>10, <1>11, <1>12,
     <1>13, <1>14, <1>15, <1>16, <1>17, <1>18, <1>19, <1>20 DEF LoopStep

LEMMA TypeRefindStep ==
    ASSUME TypeOK, NEW r \in Refinders, RefindStep(r)
    PROVE  TypeOK'
<1> USE DEF ctlVars, bufVars
<1>1. LoopOK /\ RefindOK /\ BuffersOK /\ RestOK
  BY TypeParts
<1>2. refind[r] \in RefindType
  BY <1>1 DEF RefindOK
<1>3. CASE Scan(r)
  <2>1. RefindOK'
    <3>1. CASE \E p \in Named :
                  refind' = [refind EXCEPT ![r].pc = "found", ![r].pid = p]
      <4>1. PICK p \in Named :
               refind' = [refind EXCEPT ![r].pc = "found", ![r].pid = p]
        BY <3>1
      <4> DEFINE f == [[refind[r] EXCEPT !.pc = "found"] EXCEPT !.pid = p]
      <4>2. f \in RefindType /\ f.pid \in PIDs
        BY <1>2 DEF RefindType, Named
      <4>3. refind' = [refind EXCEPT ![r] = f]
        BY <1>1, <4>1 DEF RefindOK
      <4> QED
        BY <1>1, <4>2, <4>3, SearchType
    <3>2. CASE refind' = [refind EXCEPT ![r].tries = @ - 1, ![r].delay = 1]
      <4> DEFINE f == [[refind[r] EXCEPT !.tries = @ - 1] EXCEPT !.delay = 1]
      <4> refind[r].tries - 1 \in 0 .. RefindTries
        BY <1>2, <1>3, BoundAssumption DEF Scan, RefindType
      <4>1. f \in RefindType /\ f.pc = "scan"
        BY <1>2, <1>3 DEF Scan, Awake, RefindType
      <4>2. refind' = [refind EXCEPT ![r] = f]
        BY <1>1, <3>2 DEF RefindOK
      <4> QED
        BY <1>1, <4>1, <4>2, SearchType
    <3> QED
      BY <1>3, <3>1, <3>2 DEF Scan
  <2> QED
    BY <1>1, <1>3, <2>1, TypeParts2 DEF Scan, LoopOK, BuffersOK, RestOK
<1>4. ASSUME refind' = [refind EXCEPT ![r].pc = "finish"]
      PROVE  RefindOK'
  <2> DEFINE f == [refind[r] EXCEPT !.pc = "finish"]
  <2>1. f \in RefindType /\ f.pc = "finish"
    BY <1>2 DEF RefindType
  <2> QED
    BY <1>1, <1>4, <2>1, SearchType DEF RefindOK
<1>5. CASE SetTarget(r)
  <2>1. targetPID' \in PIDs
    BY <1>1, <1>5 DEF SetTarget, Awake, RefindOK
  <2> QED
    BY <1>1, <1>4, <1>5, <2>1, TypeParts2
       DEF SetTarget, LoopOK, BuffersOK, RestOK
<1>6. CASE GiveUp(r)
  BY <1>1, <1>4, <1>6, TypeParts2 DEF GiveUp, LoopOK, BuffersOK, RestOK
<1>7. CASE Finish(r)
  <2>1. RefindOK'
    BY <1>1, <1>7, AsleepType, SearchType DEF Finish
  <2> QED
    BY <1>1, <1>7, <2>1, TypeParts2 DEF Finish, LoopOK, BuffersOK, RestOK
<1> QED
  BY <1>3, <1>5, <1>6, <1>7 DEF RefindStep

LEMMA TypeOthers ==
    ASSUME TypeOK, Start \/ Stop \/ Environment \/ UNCHANGED vars
    PROVE  TypeOK'
<1> USE DEF ctlVars, bufVars
<1>1. LoopOK /\ RefindOK /\ BuffersOK /\ RestOK
  BY TypeParts
<1>2. CASE Start
  <2>1. targetPID' \in PIDs /\ running' = TRUE
    BY <1>2 DEF Start
  <2>2. LoopOK'
    BY <1>2, <2>1, FrameWaits DEF Start, LoopOK, Sampling, Restarting
  <2> QED
    BY <1>1, <1>2, <2>1, <2>2, TypeParts2 DEF Start, RefindOK, BuffersOK, RestOK
<1>3. CASE Stop
  BY <1>1, <1>3, TypeParts2 DEF Stop, LoopOK, RefindOK, BuffersOK, RestOK
<1>4. CASE \E p \in PIDs : ProcExits(p) \/ ProcAppears(p)
  <2>1. proc' \in [PIDs -> Occupants]
    BY <1>1, <1>4 DEF ProcExits, ProcAppears, RestOK, Occupants
  <2> QED
    BY <1>1, <1>4, <2>1, TypeParts2
       DEF ProcExits, ProcAppears, LoopOK, RefindOK, BuffersOK, RestOK
<1>5. CASE Second
  <2>1. \A t \in Nat : Less(t) \in Nat
    BY DEF Less
  <2>2. \A r \in Refinders : [refind[r] EXCEPT !.delay = Less(@)] \in RefindType
    BY <1>1, <2>1 DEF RefindOK, RefindType
  <2>3. RefindOK'
    <3>1. ASSUME NEW r \in Refinders
          PROVE  /\ refind'[r] \in RefindType
                 /\ refind'[r].pc = refind[r].pc /\ refind'[r].pid = refind[r].pid
      BY <1>1, <1>5, <2>2 DEF Second, RefindOK, RefindType
    <3>2. refind' \in [Refinders -> RefindType]
      BY <1>5, <3>1 DEF Second
    <3> QED
      BY <1>1, <3>1, <3>2 DEF RefindOK
  <2> QED
    BY <1>1, <1>5, <2>1, <2>3, TypeParts2 DEF Second, LoopOK, BuffersOK, RestOK
<1>6. CASE UNCHANGED vars
  BY <1>1, <1>6, TypeParts2 DEF vars, LoopOK, RefindOK, BuffersOK, RestOK
<1> QED
  BY <1>2, <1>3, <1>4, <1>5, <1>6 DEF Environment

\* Every state of Monitor is of its type: a restart under way has an old
\* process to kill and a search that found a process has its PID.
THEOREM TypeCorrect == Spec => []TypeOK
<1>1. TypeOK /\ [Next]_vars => TypeOK'
  BY TypeLoopStep, TypeRefindStep, TypeOthers DEF Next
<1> QED
  BY TypeInit, <1>1, PTL DEF Spec

------------------------------------------------------------------------------
\* A step that starts and ends no search and moves the goroutine to a place
\* of triggerRestart from there or from the rules only.
LEMMA SearchesKept ==
    ASSUME WaitingIsSearching, UNCHANGED <<config, waitingRestart>>,
           \A r \in Refinders : Searching(r)' <=> Searching(r),
           loop'.pc \in Restarting \cup {"event"} =>
               loop.pc \in Restarting \cup {"event"} \/ ~waitingRestart
    PROVE  WaitingIsSearching'
  BY DEF WaitingIsSearching

\* The rules of checkRules are suspended exactly while a goroutine searches
\* for the new process, and at most one does.
THEOREM SearchesAreExclusive == Spec => []WaitingIsSearching
<1>1. Init => WaitingIsSearching
  BY DEF Init, WaitingIsSearching, Searching, Asleep, Frame, Restarting
<1>2. TypeOK /\ WaitingIsSearching /\ [Next]_vars => WaitingIsSearching'
  <2> SUFFICES ASSUME TypeOK, WaitingIsSearching, [Next]_vars
               PROVE  WaitingIsSearching'
    OBVIOUS
  <2> USE DEF ctlVars
  <2>1. LoopOK /\ RefindOK
    BY TypeParts
  <2>2. CASE LoopStep /\ ~Wait
    <3>1. UNCHANGED <<config, waitingRestart, refind>>
      BY <2>2 DEF LoopStep, StopReceived, TickerFires, ReadTarget, Probe, Push,
                  StoreLatest, RulesSkipped, ExitSeen, CpuOver, CpuUnder, Event,
                  NoRestart, BeginRestart, CheckOld, KillOld, ExecuteRestart,
                  ExecuteFails, Announce
    <3>2. loop \in FrameType
      BY <2>1 DEF LoopOK
    <3>3. CASE Event \/ BeginRestart \/ CheckOld \/ KillOld \/ ExecuteRestart \/ Announce
      <4>1. loop.pc \in Restarting \cup {"event"}
        BY <3>3 DEF Event, BeginRestart, CheckOld, KillOld, ExecuteRestart,
                    Announce, Restarting
      <4> QED
        BY <3>1, <4>1, SearchesKept DEF Searching
    <3>4. CASE ExitSeen \/ CpuOver \/ CpuUnder
      BY <3>1, <3>4, SearchesKept DEF ExitSeen, CpuOver, CpuUnder, Settled, Searching
    <3>5. CASE RulesSkipped \/ NoRestart \/ ExecuteFails
      <4>1. loop' = Frame("select")
        BY <3>5 DEF RulesSkipped, NoRestart, ExecuteFails, Return
      <4> QED
        BY <3>1, <4>1, SearchesKept DEF Frame, Restarting, Searching
    <3>6. CASE StopReceived \/ TickerFires \/ ReadTarget \/ Probe \/ Push \/ StoreLatest
      <4>1. loop'.pc \in {"none", "collect", "probe", "push", "latest", "rules"}
        BY <3>2, <3>6 DEF StopReceived, TickerFires, ReadTarget, Probe, Push,
                          StoreLatest, Goto, FrameType
      <4> QED
        BY <3>1, <4>1, SearchesKept DEF Restarting, Searching
    <3> QED
      BY <2>2, <3>3, <3>4, <3>5, <3>6 DEF LoopStep
  <2>3. CASE Wait
    <3>1. ~waitingRestart /\ waitingRestart' = TRUE /\ UNCHANGED config
      BY <2>3 DEF Wait, WaitingIsSearching, Restarting
    <3>2. loop'.pc \notin Restarting \cup {"event"}
      BY <2>3 DEF Wait, Return, Frame, Restarting
    <3>3. CASE config.ByName
      <4>1. PICK r \in Refinders : refind' = [refind EXCEPT ![r] = Asleep("scan")]
        BY <2>3, <3>3 DEF Wait
      <4>2. \A s \in Refinders : Searching(s)' <=> s = r
        BY <2>1, <3>1, <3>3, <4>1
           DEF RefindOK, WaitingIsSearching, Searching, Asleep
      <4> QED
        BY <3>1, <3>2, <4>2 DEF WaitingIsSearching
    <3>4. CASE ~config.ByName
      BY <2>3, <3>1, <3>2, <3>4 DEF Wait, WaitingIsSearching, Searching
    <3> QED
      BY <3>3, <3>4
  <2>4. ASSUME NEW r \in Refinders, RefindStep(r) PROVE WaitingIsSearching'
    <3>1. UNCHANGED <<config, loop>>
      BY <2>4 DEF RefindStep, Scan, SetTarget, GiveUp, Finish
    <3>2. Searching(r)
      BY <2>4 DEF RefindStep, Scan, SetTarget, GiveUp, Finish, Awake, Searching
    <3>3. CASE Finish(r)
      <4>1. \A s \in Refinders : ~Searching(s)'
        BY <2>1, <3>2, <3>3
           DEF Finish, RefindOK, WaitingIsSearching, Searching, Asleep
      <4> QED
        BY <3>1, <3>3, <4>1 DEF Finish, WaitingIsSearching
    <3>4. CASE ~Finish(r)
      <4>1. \A s \in Refinders : Searching(s)' <=> Searching(s)
        BY <2>1, <2>4, <3>2, <3>4
           DEF RefindStep, Scan, SetTarget, GiveUp, Awake, RefindOK, RefindType,
               Searching
      <4>2. UNCHANGED waitingRestart
        BY <2>4, <3>4 DEF RefindStep, Scan, SetTarget, GiveUp
      <4> QED
        BY <3>1, <4>1, <4>2, SearchesKept
    <3> QED
      BY <3>3, <3>4
  <2>5. CASE Start
    BY <2>5, SearchesKept DEF Start, Searching, Frame, Restarting
  <2>6. CASE Second
    <3>1. \A r \in Refinders : Searching(r)' <=> Searching(r)
      BY <2>1, <2>6 DEF Second, RefindOK, RefindType, Searching
    <3> QED
      BY <2>6, <3>1, SearchesKept DEF Second
  <2>7. CASE Stop \/ (\E p \in PIDs : ProcExits(p) \/ ProcAppears(p))
             \/ UNCHANGED vars
    BY <2>7, SearchesKept
       DEF Stop, ProcExits, ProcAppears, vars, Searching
  <2> QED
    BY <2>2, <2>3, <2>4, <2>5, <2>6, <2>7 DEF Next, Environment
<1> QED
  BY <1>1, <1>2, TypeCorrect, PTL DEF Spec

------------------------------------------------------------------------------
\* What is seen of the monitor is a Restarter.

\* What the phases seen rest on: the process a restart is about is the target
\* until the restart is over, only a monitor by name searches, and the
\* goroutine has not ended while the monitor runs.
RestartInv ==
    /\ loop.pc \in Restarting \ {"trigger"} => loop.old = targetPID
    /\ \A r \in Refinders : Searching(r) => config.ByName
    /\ running => ~stopClosed
    /\ ~running /\ ~stopClosed => loop.pc = "none" /\ ~waitingRestart
    /\ loop.pc = "none" => ~running

LEMMA RestartInit == Init => RestartInv
  BY DEF Init, RestartInv, Frame, Asleep, Searching, Restarting

\* Statements of the sampling goroutine that do not touch the searches.
LEMMA RestartKept ==
    ASSUME RestartInv, loop.pc # "none", loop'.pc # "none",
           UNCHANGED <<ctlVars, refind>>,
           loop'.pc \in Restarting \ {"trigger"} => loop'.old = targetPID'
    PROVE  RestartInv'
  BY DEF RestartInv, ctlVars, Searching

LEMMA RestartNext ==
    TypeOK /\ WaitingIsSearching /\ RestartInv /\ [Next]_vars => RestartInv'
<1> SUFFICES ASSUME TypeOK, WaitingIsSearching, RestartInv, [Next]_vars
             PROVE  RestartInv'
  OBVIOUS
<1>1. LoopOK /\ RefindOK
  BY TypeParts
<1>2. loop \in FrameType
  BY <1>1 DEF LoopOK
<1>3. CASE TickerFires \/ ReadTarget \/ Probe \/ Push \/ StoreLatest
           \/ RulesSkipped \/ ExitSeen \/ CpuOver \/ CpuUnder \/ Event
           \/ NoRestart \/ ExecuteFails
  <2>1. UNCHANGED <<ctlVars, refind>> /\ loop.pc # "none"
    BY <1>3 DEF TickerFires, ReadTarget, Probe, Push, StoreLatest, RulesSkipped,
                ExitSeen, CpuOver, CpuUnder, Settled, Event, NoRestart, ExecuteFails
  <2>2. loop'.pc \in (Sampling \cup {"trigger"})
    <3>1. CASE CpuOver
      BY <1>2, <3>1 DEF CpuOver, Frame, FrameType, Sampling
    <3>2. CASE Probe \/ ExitSeen
      BY <1>2, <3>2 DEF Probe, ExitSeen, FrameType, Sampling
    <3>3. CASE TickerFires \/ ReadTarget \/ Push \/ StoreLatest \/ Event
      BY <1>2, <3>3
         DEF TickerFires, ReadTarget, Push, StoreLatest, Event, Goto, FrameType,
             Sampling
    <3>4. CASE RulesSkipped \/ CpuUnder \/ NoRestart \/ ExecuteFails
      BY <3>4
         DEF RulesSkipped, CpuUnder, NoRestart, ExecuteFails, Return, Frame, Sampling
    <3> QED
      BY <1>3, <3>1, <3>2, <3>3, <3>4
  <2> QED
    BY <2>1, <2>2, RestartKept DEF Sampling, Restarting
<1>4. CASE BeginRestart
  BY <1>2, <1>4, RestartKept DEF BeginRestart, FrameType
<1>5. CASE CheckOld \/ KillOld \/ ExecuteRestart \/ Announce
  <2>1. UNCHANGED <<ctlVars, refind, targetPID>> /\ loop.pc \in Restarting \ {"trigger"}
    BY <1>5 DEF CheckOld, KillOld, ExecuteRestart, Announce, Restarting
  <2>2. loop'.pc \in Restarting \ {"trigger"} /\ loop'.old = loop.old
    BY <1>2, <1>5
       DEF CheckOld, KillOld, ExecuteRestart, Announce, Goto, FrameType, Restarting
  <2>3. loop.pc # "none" /\ loop'.pc # "none"
    BY <2>1, <2>2 DEF Restarting
  <2> QED
    BY <2>1, <2>2, <2>3, RestartKept DEF RestartInv
<1>6. CASE StopReceived
  BY <1>2, <1>6
     DEF StopReceived, Goto, RestartInv, FrameType, ctlVars, Searching, Restarting
<1>7. CASE Wait
  <2>1. loop'.pc = "select" /\ loop.pc = "wait" /\ UNCHANGED ctlVars
    BY <1>7 DEF Wait, Return, Frame
  <2>2. ASSUME NEW r \in Refinders, Searching(r)' PROVE config.ByName
    BY <1>7, <2>2 DEF Wait, Searching, RestartInv
  <2> QED
    BY <2>1, <2>2 DEF RestartInv, ctlVars, Restarting
<1>8. ASSUME NEW r \in Refinders, RefindStep(r) PROVE RestartInv'
  <2>1. Searching(r) /\ UNCHANGED <<ctlVars, loop>>
    BY <1>8 DEF RefindStep, Scan, SetTarget, GiveUp, Finish, Awake, Searching
  <2>2. loop.pc \notin Restarting /\ waitingRestart
    BY <2>1 DEF WaitingIsSearching, RestartInv
  <2>3. \A s \in Refinders : Searching(s)' => config.ByName
    BY <2>1 DEF RestartInv
  <2>4. waitingRestart' => waitingRestart
    BY <2>2
  <2> QED
    BY <2>1, <2>2, <2>3, <2>4 DEF RestartInv, ctlVars
<1>9. CASE Start \/ Stop
  BY <1>9 DEF Start, Stop, RestartInv, Frame, ctlVars, bufVars, Searching, Restarting
<1>10. CASE Second
  <2>1. \A r \in Refinders : Searching(r)' => Searching(r)
    BY <1>1, <1>10 DEF Second, RefindOK, RefindType, Searching
  <2> QED
    BY <1>10, <2>1 DEF Second, RestartInv, ctlVars
<1>11. CASE (\E p \in PIDs : ProcExits(p) \/ ProcAppears(p)) \/ UNCHANGED vars
  BY <1>11 DEF ProcExits, ProcAppears, vars, RestartInv, ctlVars, Searching
<1> QED
  BY <1>3, <1>4, <1>5, <1>6, <1>7, <1>8, <1>9, <1>10, <1>11
     DEF Next, LoopStep, Environment

------------------------------------------------------------------------------
\* The phase seen, by the place of the goroutine and the search.

LEMMA Phases ==
    /\ loop.pc = "trigger" => PhaseView = "alarmed"
    /\ loop.pc \in {"check", "kill", "execute", "announce"}
          => PhaseView = "restarting"
    /\ loop.pc = "wait" => PhaseView = "announced"
    /\ loop.pc \in Sampling \cup {"none"} /\ waitingRestart
          => PhaseView = WaitingView
    /\ loop.pc \in Sampling /\ ~waitingRestart => PhaseView = "watching"
    /\ loop.pc = "none" /\ ~waitingRestart => PhaseView = "off"
    /\ ~config.ByName => WaitingView = "blind"
    /\ config.ByName /\ Settling => WaitingView = "settling"
    /\ config.ByName /\ ~Settling => WaitingView = "searching"
  BY DEF PhaseView, WaitingView, Sampling, Restarting

LEMMA PhasesThen ==
    /\ loop'.pc = "trigger" => PhaseView' = "alarmed"
    /\ loop'.pc \in {"check", "kill", "execute", "announce"}
          => PhaseView' = "restarting"
    /\ loop'.pc = "wait" => PhaseView' = "announced"
    /\ loop'.pc \in Sampling \cup {"none"} /\ waitingRestart'
          => PhaseView' = WaitingView'
    /\ loop'.pc \in Sampling /\ ~waitingRestart' => PhaseView' = "watching"
    /\ loop'.pc = "none" /\ ~waitingRestart' => PhaseView' = "off"
    /\ ~config'.ByName => WaitingView' = "blind"
    /\ config'.ByName /\ Settling' => WaitingView' = "settling"
    /\ config'.ByName /\ ~Settling' => WaitingView' = "searching"
  BY DEF PhaseView, WaitingView, Settling, Sampling, Restarting

seen == <<config, LifeView, targetPID, PhaseView, cooldown, eventsBuffer>>

\* The sampling goroutine, one statement after the other.
LEMMA LoopView ==
    ASSUME TypeOK, WaitingIsSearching, RestartInv, LoopStep
    PROVE  [Restarts!Next]_seen
<1>1. loop \in FrameType
  BY DEF TypeOK
<1>2. UNCHANGED <<config, running, stopClosed, targetPID>> /\ LifeView' = LifeView
  BY DEF LoopStep, StopReceived, TickerFires, ReadTarget, Probe, Push, StoreLatest,
         RulesSkipped, ExitSeen, CpuOver, CpuUnder, Event, NoRestart, BeginRestart,
         CheckOld, KillOld, ExecuteRestart, ExecuteFails, Announce, Wait, ctlVars,
         LifeView
<1>3. CASE TickerFires \/ ReadTarget \/ Probe \/ Push \/ StoreLatest
           \/ RulesSkipped \/ ExitSeen \/ CpuOver \/ CpuUnder
  <2>1. UNCHANGED <<cooldown, eventsBuffer, waitingRestart, refind>>
    BY <1>3 DEF TickerFires, ReadTarget, Probe, Push, StoreLatest, RulesSkipped,
                ExitSeen, CpuOver, CpuUnder, bufVars
  <2>2. loop.pc \in Sampling
    BY <1>3 DEF TickerFires, ReadTarget, Probe, Push, StoreLatest, RulesSkipped,
                ExitSeen, CpuOver, CpuUnder, Settled, Sampling
  <2>3. loop'.pc \in Sampling
    <3>1. CASE CpuOver
      BY <1>1, <3>1 DEF CpuOver, Frame, FrameType, Sampling
    <3>2. CASE Probe \/ ExitSeen
      BY <1>1, <3>2 DEF Probe, ExitSeen, FrameType, Sampling
    <3>3. CASE TickerFires \/ ReadTarget \/ Push \/ StoreLatest
      BY <1>1, <3>3
         DEF TickerFires, ReadTarget, Push, StoreLatest, Goto, FrameType, Sampling
    <3>4. CASE RulesSkipped \/ CpuUnder
      BY <3>4 DEF RulesSkipped, CpuUnder, Frame, Sampling
    <3> QED
      BY <1>3, <3>1, <3>2, <3>3, <3>4
  <2>4. WaitingView' = WaitingView
    BY <1>2, <2>1 DEF WaitingView, Settling
  <2>5. PhaseView' = PhaseView
    BY <2>1, <2>2, <2>3, <2>4, Phases, PhasesThen
  <2> QED
    BY <1>2, <2>1, <2>5 DEF seen
<1>4. CASE StopReceived
  <2>1. loop.pc = "select" /\ loop'.pc = "none" /\ stopClosed
        /\ UNCHANGED <<cooldown, eventsBuffer, waitingRestart, refind>>
    BY <1>1, <1>4 DEF StopReceived, Goto, FrameType, bufVars
  <2>2. CASE waitingRestart
    <3>1. WaitingView' = WaitingView
      BY <1>2, <2>1 DEF WaitingView, Settling
    <3>2. PhaseView' = PhaseView
      BY <2>1, <2>2, <3>1, Phases, PhasesThen DEF Sampling
    <3> QED
      BY <1>2, <2>1, <3>2 DEF seen
  <2>3. CASE ~waitingRestart
    <3>1. PhaseView = "watching" /\ PhaseView' = "off"
      BY <2>1, <2>3, Phases, PhasesThen DEF Sampling
    <3>2. LifeView = "stopped"
      BY <2>1 DEF LifeView
    <3> QED
      BY <1>2, <2>1, <3>1, <3>2 DEF Restarts!Next, Restarts!End, Restarts!Enter
  <2> QED
    BY <2>2, <2>3
<1>5. CASE Event
  <2>1. loop.pc = "event" /\ loop'.pc = "trigger" /\ UNCHANGED cooldown
    BY <1>1, <1>5 DEF Event, Goto, FrameType
  <2>2. ~waitingRestart
    BY <2>1 DEF WaitingIsSearching
  <2>3. PhaseView = "watching" /\ PhaseView' = "alarmed"
    BY <2>1, <2>2, Phases, PhasesThen DEF Sampling
  <2>4. loop.reason \in {"exit", "cpu"} /\ loop.metric.pid \in PIDs
    BY <1>1, <2>1 DEF TypeOK, FrameType, Sampling, Restarting, Metric
  <2>5. Restarts!Alarm(loop.reason, loop.metric.pid)
    BY <1>2, <1>5, <2>1, <2>3
       DEF Event, AddEvent, Restarts!Alarm, Restarts!AddEvent, Restarts!Enter,
           PushRecent, Restarts!PushRecent
  <2> QED
    BY <2>4, <2>5 DEF Restarts!Next
<1>6. ASSUME loop.pc \in Restarting, Return, UNCHANGED <<waitingRestart, refind>>
      PROVE  PhaseView' = "watching"
  <2>1. loop'.pc \in Sampling
    BY <1>6 DEF Return, Frame, Sampling
  <2>2. ~waitingRestart
    BY <1>6 DEF WaitingIsSearching
  <2> QED
    BY <1>6, <2>1, <2>2, PhasesThen
<1>7. CASE NoRestart
  <2>1. PhaseView = "alarmed" /\ PhaseView' = "watching"
    BY <1>6, <1>7, Phases DEF NoRestart, Restarting
  <2> QED
    BY <1>2, <1>7, <2>1
       DEF NoRestart, bufVars, Restarts!Next, Restarts!Drop, Restarts!Enter
<1>8. CASE BeginRestart
  <2>1. loop.pc = "trigger" /\ loop'.pc = "check"
    BY <1>1, <1>8 DEF BeginRestart, FrameType
  <2>2. PhaseView = "alarmed" /\ PhaseView' = "restarting"
    BY <2>1, Phases, PhasesThen
  <2> QED
    BY <1>2, <1>8, <2>2
       DEF BeginRestart, bufVars, Restarts!Next, Restarts!Restart, Restarts!Enter
<1>9. CASE CheckOld \/ KillOld \/ ExecuteRestart
  <2>1. UNCHANGED <<cooldown, eventsBuffer>>
    BY <1>9 DEF CheckOld, KillOld, ExecuteRestart, bufVars
  <2>2. /\ loop.pc \in {"check", "kill", "execute", "announce"}
        /\ loop'.pc \in {"check", "kill", "execute", "announce"}
    BY <1>1, <1>9 DEF CheckOld, KillOld, ExecuteRestart, Goto, FrameType
  <2>3. PhaseView' = PhaseView
    BY <2>2, Phases, PhasesThen
  <2> QED
    BY <1>2, <2>1, <2>3 DEF seen
<1>10. CASE ExecuteFails
  <2>1. PhaseView = "restarting" /\ PhaseView' = "watching"
    BY <1>6, <1>10, Phases DEF ExecuteFails, Restarting
  <2> QED
    BY <1>2, <1>10, <2>1
       DEF ExecuteFails, bufVars, Restarts!Next, Restarts!RestartFails,
           Restarts!Enter
<1>11. CASE Announce
  <2>1. loop.pc = "announce" /\ loop'.pc = "wait" /\ UNCHANGED cooldown
    BY <1>1, <1>11 DEF Announce, Goto, FrameType
  <2>2. loop.old = targetPID
    BY <2>1 DEF RestartInv, Restarting
  <2>3. PhaseView = "restarting" /\ PhaseView' = "announced"
    BY <2>1, Phases, PhasesThen
  <2>4. Restarts!Announce
    BY <1>2, <1>11, <2>1, <2>2, <2>3
       DEF Announce, AddEvent, Restarts!Announce, Restarts!AddEvent,
           Restarts!Enter, PushRecent, Restarts!PushRecent
  <2> QED
    BY <2>4 DEF Restarts!Next
<1>12. CASE Wait
  <2>1. /\ loop.pc = "wait" /\ loop'.pc \in Sampling /\ waitingRestart'
        /\ UNCHANGED <<cooldown, eventsBuffer>>
    BY <1>12 DEF Wait, Return, Frame, Sampling, bufVars
  <2>2. PhaseView = "announced" /\ PhaseView' = WaitingView'
    BY <2>1, Phases, PhasesThen
  <2>3. WaitingView' = IF config.ByName THEN "searching" ELSE "blind"
    <3>1. CASE config.ByName
      <4>1. \A r \in Refinders : ~Searching(r)
        BY <2>1, <3>1 DEF WaitingIsSearching, Restarting
      <4>2. PICK r \in Refinders : refind' = [refind EXCEPT ![r] = Asleep("scan")]
        BY <1>12, <3>1 DEF Wait
      <4>3. ~Settling'
        BY <4>1, <4>2 DEF TypeOK, Settling, Searching, Asleep
      <4> QED
        BY <1>2, <3>1, <4>3, PhasesThen
    <3>2. CASE ~config.ByName
      BY <1>2, <3>2, PhasesThen
    <3> QED
      BY <3>1, <3>2
  <2>4. Restarts!Search
    BY <1>2, <2>1, <2>2, <2>3 DEF Restarts!Search, Restarts!Enter
  <2> QED
    BY <2>4 DEF Restarts!Next
<1> QED
  BY <1>3, <1>4, <1>5, <1>7, <1>8, <1>9, <1>10, <1>11, <1>12 DEF LoopStep

\* The search: its tries are invisible, its end is not.
LEMMA SearchView ==
    ASSUME TypeOK, WaitingIsSearching, RestartInv,
           NEW r \in Refinders, RefindStep(r)
    PROVE  [Restarts!Next]_seen
<1>1. /\ Searching(r)
      /\ UNCHANGED <<config, running, stopClosed, loop, cooldown, eventsBuffer>>
      /\ LifeView' = LifeView
  BY DEF RefindStep, Scan, SetTarget, GiveUp, Finish, Awake, Searching, ctlVars,
         bufVars, LifeView
<1>2. /\ config.ByName /\ waitingRestart
      /\ \A s \in Refinders \ {r} : refind[s].pc = "none"
  BY <1>1 DEF RestartInv, WaitingIsSearching, Searching
<1>3. loop.pc \in Sampling \cup {"none"}
  BY <1>2 DEF WaitingIsSearching, TypeOK, FrameType
<1>4. Settling <=> refind[r].pc = "finish"
  BY <1>2 DEF Settling
<1>5. ASSUME NEW f, refind' = [refind EXCEPT ![r] = f]
      PROVE  Settling' <=> f.pc = "finish"
  BY <1>2, <1>5 DEF Settling, TypeOK
<1>6. PhaseView = IF refind[r].pc = "finish" THEN "settling" ELSE "searching"
  BY <1>2, <1>3, <1>4, Phases
<1>7. CASE Scan(r)
  <2>1. UNCHANGED <<targetPID, waitingRestart>> /\ refind[r].pc = "scan"
    BY <1>7 DEF Scan, Awake
  <2>2. ~Settling'
    <3>1. refind'[r].pc # "finish" /\ \A s \in Refinders \ {r} : refind'[s] = refind[s]
      BY <1>7, <2>1 DEF Scan, TypeOK, RefindType
    <3> QED
      BY <1>2, <3>1 DEF Settling
  <2>3. PhaseView' = PhaseView
    BY <1>1, <1>2, <1>3, <1>6, <2>1, <2>2, PhasesThen
  <2> QED
    BY <1>1, <2>1, <2>3 DEF seen
<1>8. CASE SetTarget(r) \/ GiveUp(r)
  <2>1. /\ UNCHANGED waitingRestart /\ refind[r].pc \in {"found", "scan"}
        /\ targetPID' \in PIDs \cup {targetPID}
    BY <1>8 DEF SetTarget, GiveUp, Awake, TypeOK
  <2>2. Settling'
    <3>1. refind'[r].pc = "finish"
      BY <1>8 DEF SetTarget, GiveUp, TypeOK, RefindType
    <3> QED
      BY <3>1 DEF Settling
  <2>3. PhaseView = "searching" /\ PhaseView' = "settling"
    BY <1>1, <1>2, <1>3, <1>6, <2>1, <2>2, PhasesThen
  <2>4. Restarts!SearchEnds
    BY <1>1, <2>1, <2>3 DEF Restarts!SearchEnds, Restarts!Enter
  <2> QED
    BY <2>4 DEF Restarts!Next
<1>9. CASE Finish(r)
  <2>1. UNCHANGED targetPID /\ ~waitingRestart' /\ PhaseView = "settling"
    BY <1>6, <1>9 DEF Finish, Awake
  <2>2. CASE loop.pc = "none"
    <3>1. PhaseView' = "off"
      BY <1>1, <2>1, <2>2, PhasesThen
    <3>2. LifeView = "stopped"
      BY <1>2, <2>2 DEF RestartInv, LifeView, TypeOK
    <3>3. Restarts!Settle
      BY <1>1, <2>1, <3>1, <3>2 DEF Restarts!Settle, Restarts!Enter
    <3> QED
      BY <3>3 DEF Restarts!Next
  <2>3. CASE loop.pc # "none"
    <3>1. PhaseView' = "watching"
      BY <1>1, <1>3, <2>1, <2>3, PhasesThen
    <3>2. Restarts!Settle
      BY <1>1, <2>1, <3>1 DEF Restarts!Settle, Restarts!Enter
    <3> QED
      BY <3>2 DEF Restarts!Next
  <2> QED
    BY <2>2, <2>3
<1> QED
  BY <1>7, <1>8, <1>9 DEF RefindStep

\* The caller, the clock and the processes.
LEMMA OthersView ==
    ASSUME TypeOK, WaitingIsSearching, RestartInv,
           Start \/ Stop \/ Environment \/ UNCHANGED vars
    PROVE  [Restarts!Next]_seen
<1>1. CASE Start
  <2>1. PICK p \in PIDs : /\ IF config.PID # NoPid THEN p = config.PID ELSE Named = {p}
                          /\ targetPID' = p
    BY <1>1 DEF Start
  <2>2. /\ loop.pc = "none" /\ ~waitingRestart
        /\ loop'.pc \in Sampling /\ ~waitingRestart'
        /\ UNCHANGED <<config, cooldown, eventsBuffer>>
    BY <1>1 DEF Start, RestartInv, Frame, Sampling, bufVars
  <2>3. PhaseView = "off" /\ PhaseView' = "watching"
    BY <2>2, Phases, PhasesThen
  <2>4. LifeView = "new" /\ LifeView' = "running"
    BY <1>1 DEF Start, LifeView
  <2>5. Restarts!Start(p)
    BY <2>1, <2>2, <2>3, <2>4 DEF Restarts!Start, Restarts!Enter
  <2> QED
    BY <2>5 DEF Restarts!Next
<1>2. ASSUME UNCHANGED <<config, loop, waitingRestart>>, Settling' = Settling
      PROVE  PhaseView' = PhaseView
  BY <1>2 DEF PhaseView, WaitingView
<1>3. CASE Stop
  <2>1. LifeView = "running" /\ LifeView' = "stopped"
    BY <1>3 DEF Stop, LifeView, RestartInv
  <2>2. PhaseView' = PhaseView
    BY <1>2, <1>3 DEF Stop, Settling
  <2>3. Restarts!Stop
    BY <1>3, <2>1, <2>2 DEF Stop, bufVars, Restarts!Stop
  <2> QED
    BY <2>3 DEF Restarts!Next
<1>4. CASE Second
  <2>1. UNCHANGED <<config, running, stopClosed, loop, waitingRestart, targetPID,
                    eventsBuffer>>
    BY <1>4 DEF Second, ctlVars, bufVars
  <2>2. Settling' = Settling
    <3>1. \A r \in Refinders : refind'[r].pc = refind[r].pc
      BY <1>4 DEF Second, TypeOK, RefindType
    <3> QED
      BY <3>1 DEF Settling
  <2>3. PhaseView' = PhaseView /\ LifeView' = LifeView
    BY <1>2, <2>1, <2>2 DEF LifeView
  <2>4. cooldown' = IF cooldown > 0 THEN cooldown - 1 ELSE 0
    BY <1>4 DEF Second, Less
  <2>5. CASE cooldown > 0
    BY <2>1, <2>3, <2>4, <2>5 DEF Restarts!Next, Restarts!Second
  <2>6. CASE cooldown = 0
    BY <2>1, <2>3, <2>4, <2>6 DEF seen
  <2> QED
    BY <2>5, <2>6 DEF TypeOK
<1>5. CASE (\E p \in PIDs : ProcExits(p) \/ ProcAppears(p)) \/ UNCHANGED vars
  <2>1. UNCHANGED <<config, running, stopClosed, loop, waitingRestart, refind,
                    targetPID, cooldown, eventsBuffer>>
    BY <1>5 DEF ProcExits, ProcAppears, vars, ctlVars, bufVars
  <2>2. PhaseView' = PhaseView /\ LifeView' = LifeView
    BY <1>2, <2>1 DEF Settling, LifeView
  <2> QED
    BY <2>1, <2>2 DEF seen
<1> QED
  BY <1>1, <1>3, <1>4, <1>5 DEF Environment

\* Whatever the processes, the searches and the clock do, the monitor is a
\* Restarter: each alarm is dropped for the cooldown or for want of a command,
\* or answered by one restart of the target it has then; each announced
\* restart is followed by one search, which alone changes the target.
THEOREM MonitorImplementsRestarter == Spec => ImplementsRestarter
<1>1. Init => Restarts!Init
  <2> SUFFICES ASSUME Init PROVE Restarts!Init
    OBVIOUS
  <2>1. PhaseView = "off" /\ LifeView = "new"
    BY Phases DEF Init, Frame, LifeView
  <2> QED
    BY <2>1 DEF Init, Restarts!Init
<1>2. TypeOK /\ WaitingIsSearching /\ RestartInv /\ [Next]_vars
      => [Restarts!Next]_(Restarts!vars)
  <2> SUFFICES ASSUME TypeOK, WaitingIsSearching, RestartInv, [Next]_vars
               PROVE  [Restarts!Next]_seen
    BY DEF Restarts!vars, seen
  <2> QED
    BY LoopView, SearchView, OthersView DEF Next
<1> QED
  BY <1>1, <1>2, RestartInit, RestartNext, TypeCorrect, SearchesAreExclusive, PTL
     DEF Spec, ImplementsRestarter, Restarts!Spec

==============================================================================
