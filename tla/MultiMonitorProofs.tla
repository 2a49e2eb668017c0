------------------------- MODULE MultiMonitorProofs --------------------------
(***************************************************************************)
(* Theorems about MultiMonitor for any number of PIDs, cells, goroutines   *)
(* and configurations: type correctness, a sampler for every run, the      *)
(* cooldown between restarts, the refinement of Watch, a trigger for every *)
(* restart, and what the stored samples say of alarms, exits and the       *)
(* latest sample while one goroutine at a time collects.                   *)
(***************************************************************************)
EXTENDS MultiMonitor, FiniteSetTheorems, TLAPS

------------------------------------------------------------------------------
\* Lemmas about the data.

\* A goroutine outside collectOne has a well-formed frame.
LEMMA IdleFrame ==
    ASSUME NEW pc \in Idle, NEW todo \in SUBSET PIDs
    PROVE  /\ Frame(pc, todo) \in FrameType
           /\ FrameOK(Frame(pc, todo))
           /\ Frame(pc, todo).state = Nil
           /\ Frame(pc, todo).pc = pc
  BY DEF Frame, FrameType, FrameOK, Idle, Collecting, Resources

LEMMA SampledType ==
    ASSUME NEW d \in Samples \cup {NoLoad}, NEW c \in Configs
    PROVE  /\ Sampled(d, c) \in Metric
           /\ Sampled(d, c).alive /\ Sampled(d, c).limit = c.Threshold
<1>1. NoLoad \in [Resources -> Nat]
  BY DEF NoLoad
<1>2. c.Threshold \in [Resources -> Nat]
  BY ConfigAssumption DEF Config
<1> QED
  BY <1>1, <1>2, ConfigAssumption DEF Sampled, Metric

\* A new registration is a well-formed targetState.
LEMMA NewStateType ==
    ASSUME NEW c \in Configs,
           NEW m \in {Sampled(d, c) : d \in Samples} \cup {Nil}
    PROVE  NewState(c, m) \in State
<1>1. m \in Metric \cup {Nil}
  <2>1. ASSUME NEW d \in Samples PROVE Sampled(d, c) \in Metric
    BY SampledType
  <2> QED
    BY <2>1
<1>2. [r \in Resources |-> 0] \in [Resources -> Nat]
  OBVIOUS
<1>3. (IF m = Nil THEN <<>> ELSE <<m>>) \in Seq(Metric)
  BY <1>1
<1> QED
  BY <1>1, <1>2, <1>3 DEF NewState, State, Never

\* What a live probe returns is a metric taken for the configuration in hand.
LEMMA LiveMetricsType ==
    ASSUME NEW c \in Configs, NEW m \in LiveMetrics(c)
    PROVE  m \in Metric /\ m.alive /\ m.limit = c.Threshold
<1>1. PICK d \in Samples \cup {NoLoad} : m = Sampled(d, c)
  BY DEF LiveMetrics
<1> QED
  BY <1>1, SampledType

LEMMA DeadMetricType == DeadMetric \in Metric /\ ~DeadMetric.alive
  BY DEF DeadMetric, Metric, NoLoad

------------------------------------------------------------------------------
\* Type correctness.

LEMMA TypeInit == Init => TypeOK
<1> SUFFICES ASSUME Init PROVE TypeOK
  OBVIOUS
<1> USE DEF Init
<1>1. Frame("none", {}) \in FrameType /\ FrameOK(Frame("none", {}))
      /\ Frame("none", {}).state = Nil
  BY IdleFrame DEF Idle
<1>2. \A l \in Loops : loop[l] = Frame("none", {})
  OBVIOUS
<1>3. InUse \subseteq {Nil}
  BY <1>1, <1>2 DEF InUse, Registered
<1>4. eventsBuffer \in Seq(Event)
  OBVIOUS
<1> QED
  BY <1>1, <1>2, <1>3, <1>4 DEF TypeOK

\* Storing a targetState in a cell keeps every other cell what it was.
LEMMA StoreCell ==
    ASSUME TypeOK, NEW o \in Objs, NEW s \in State,
           heap' = [heap EXCEPT ![o] = s]
    PROVE  /\ heap' \in [Objs -> State \cup {Nil}]
           /\ \A k \in Objs : heap[k] \in State => heap'[k] \in State
  BY DEF TypeOK

\* What is left to show of a step of a goroutine that moves to frame f: the
\* cell of f, and of every restart, was in use before.
LEMMA MoveTo ==
    ASSUME TypeOK, NEW l \in Loops, NEW f \in FrameType, FrameOK(f),
           f.state \in InUse \cup {Nil},
           loop' = [loop EXCEPT ![l] = f],
           UNCHANGED targets,
           \A o \in Objs : heap[o] \in State => heap'[o] \in State,
           \A r \in restarting' : r.obj \in InUse
    PROVE  /\ loop' \in [Loops -> FrameType]
           /\ \A k \in Loops : FrameOK(loop'[k])
           /\ \A o \in InUse' \ {Nil} : heap'[o] \in State
<1>1. loop' \in [Loops -> FrameType]
  BY DEF TypeOK
<1>2. \A k \in Loops : loop'[k] = IF k = l THEN f ELSE loop[k]
  BY DEF TypeOK
<1>3. \A k \in Loops : FrameOK(loop'[k])
  BY <1>2 DEF TypeOK
<1>4. InUse' \subseteq InUse \cup {Nil}
  BY <1>2 DEF InUse, Registered
<1>5. InUse \subseteq Objs \cup {Nil}
  BY DEF InUse, Registered, TypeOK, FrameType, Restart
<1> QED
  BY <1>1, <1>3, <1>4, <1>5 DEF TypeOK

\* A goroutine inside collectOne holds a cell with a targetState.
LEMMA HeldCell ==
    ASSUME TypeOK, NEW l \in Loops, loop[l].pc \in Collecting
    PROVE  /\ loop[l] \in FrameType /\ FrameOK(loop[l])
           /\ loop[l].pid \in PIDs
           /\ loop[l].state \in Objs
           /\ loop[l].state \in InUse
           /\ heap[loop[l].state] \in State
           /\ loop[l].target \in Configs
           /\ loop[l].res \in Resources
           /\ loop[l].pc # "probe" => loop[l].metric \in Metric
<1>1. loop[l] \in FrameType /\ FrameOK(loop[l])
  BY DEF TypeOK
<1>2. loop[l].state \in Objs /\ loop[l].state \in InUse
  BY <1>1 DEF FrameOK, InUse
<1>3. heap[loop[l].state] \in State
  BY <1>2, NilAssumption DEF TypeOK
<1> QED
  BY <1>1, <1>2, <1>3 DEF FrameOK, FrameType

\* A registered PID has a targetState.
LEMMA RegisteredCell ==
    ASSUME TypeOK, NEW p \in PIDs, targets[p] # Nil
    PROVE  /\ targets[p] \in Objs
           /\ targets[p] \in InUse
           /\ heap[targets[p]] \in State
  BY DEF TypeOK, InUse, Registered

LEMMA RestartsInUse == \A r \in restarting : r.obj \in InUse
  BY DEF InUse

LEMMA DoneFrame ==
    ASSUME TypeOK, NEW l \in Loops
    PROVE  Done(l) \in FrameType /\ FrameOK(Done(l)) /\ Done(l).state = Nil
<1>1. loop[l].todo \in SUBSET PIDs
  BY DEF TypeOK, FrameType
<1> QED
  BY <1>1, IdleFrame DEF Done, Idle

LEMMA AfterResourceType ==
    ASSUME NEW f \in FrameType, FrameOK(f), f.pc \in Collecting, f.pc # "probe"
    PROVE  /\ AfterResource(f) \in FrameType /\ FrameOK(AfterResource(f))
           /\ AfterResource(f).state = f.state
  BY DEF AfterResource, FrameType, FrameOK, Collecting, Resources

------------------------------------------------------------------------------
\* The steps of a sampling goroutine preserve the type invariant.

LEMMA TypeWait ==
    ASSUME TypeOK, NEW l \in Loops,
           EnterSelect(l) \/ StopReceived(l) \/ TickerFires(l) \/ CollectAll(l)
    PROVE  TypeOK'
<1> DEFINE Target(f) == /\ f \in FrameType /\ FrameOK(f) /\ f.state = Nil
                        /\ loop' = [loop EXCEPT ![l] = f]
<1>1. \E f : Target(f)
  <2>1. CASE EnterSelect(l)
    <3>1. Target(Frame("select", {}))
      BY <2>1, IdleFrame DEF EnterSelect, Idle
    <3> QED
      BY <3>1
  <2>2. CASE StopReceived(l)
    <3>1. Target(Frame("none", {}))
      BY <2>2, IdleFrame DEF StopReceived, Idle
    <3> QED
      BY <3>1
  <2>3. CASE TickerFires(l)
    <3>1. Target(Frame("collect", {}))
      BY <2>3, IdleFrame DEF TickerFires, Idle
    <3> QED
      BY <3>1
  <2>4. CASE CollectAll(l)
    <3>1. Target(Frame("next", Registered))
      BY <2>4, IdleFrame DEF CollectAll, Idle, Registered
    <3> QED
      BY <3>1
  <2> QED
    BY <2>1, <2>2, <2>3, <2>4
<1>2. UNCHANGED <<targets, heap, eventsBuffer, ctlVars, restarting, envVars>>
  BY DEF EnterSelect, StopReceived, TickerFires, CollectAll
<1>3. PICK f : Target(f)
  BY <1>1
<1>4. /\ loop' \in [Loops -> FrameType]
      /\ \A k \in Loops : FrameOK(loop'[k])
      /\ \A o \in InUse' \ {Nil} : heap'[o] \in State
  BY <1>2, <1>3, MoveTo, RestartsInUse
<1> QED
  BY <1>2, <1>4 DEF TypeOK, ctlVars, envVars

\* A goroutine that changes nothing but its own frame.
LEMMA TypeGoto ==
    ASSUME TypeOK, NEW l \in Loops, NEW f \in FrameType, FrameOK(f),
           f.state \in InUse \cup {Nil},
           loop' = [loop EXCEPT ![l] = f],
           UNCHANGED <<targets, heap, restarting, ctlVars, envVars>>,
           eventsBuffer' \in Seq(Event)
    PROVE  TypeOK'
<1>1. /\ loop' \in [Loops -> FrameType]
      /\ \A k \in Loops : FrameOK(loop'[k])
      /\ \A o \in InUse' \ {Nil} : heap'[o] \in State
  BY MoveTo, RestartsInUse
<1> QED
  BY <1>1 DEF TypeOK, ctlVars, envVars

\* A goroutine that also stores a targetState in a cell in use.
LEMMA TypeStore ==
    ASSUME TypeOK, NEW l \in Loops, NEW f \in FrameType, FrameOK(f),
           f.state \in InUse \cup {Nil},
           NEW o \in Objs, NEW s \in State,
           heap' = [heap EXCEPT ![o] = s],
           loop' = [loop EXCEPT ![l] = f],
           UNCHANGED <<targets, eventsBuffer, ctlVars, envVars>>,
           restarting' \subseteq Restart,
           \A r \in restarting' : r.obj \in InUse
    PROVE  TypeOK'
<1>1. /\ heap' \in [Objs -> State \cup {Nil}]
      /\ \A k \in Objs : heap[k] \in State => heap'[k] \in State
  BY StoreCell
<1>2. /\ loop' \in [Loops -> FrameType]
      /\ \A k \in Loops : FrameOK(loop'[k])
      /\ \A k \in InUse' \ {Nil} : heap'[k] \in State
  BY <1>1, MoveTo
<1> QED
  BY <1>1, <1>2 DEF TypeOK, ctlVars, envVars

\* The event an action adds leaves a sequence of events.
LEMMA AddEventType ==
    ASSUME TypeOK, NEW type \in Resources \cup {"exit", "restart"},
           NEW p \in PIDs, AddEvent(type, p)
    PROVE  eventsBuffer' \in Seq(Event)
<1>1. [type |-> type, pid |-> p] \in Event
  BY DEF Event
<1> QED
  BY <1>1, PushRecentType, BoundAssumption DEF AddEvent, TypeOK

LEMMA TypeLookup ==
    ASSUME TypeOK, NEW l \in Loops, NEW p \in loop[l].todo, Lookup(l, p)
    PROVE  TypeOK'
<1>1. loop[l].todo \in SUBSET PIDs /\ p \in PIDs
  BY DEF TypeOK, FrameType
<1> DEFINE left == loop[l].todo \ {p}
           f == IF targets[p] = Nil THEN Frame("next", left)
                ELSE Entered(p, left)
<1>2. loop' = [loop EXCEPT ![l] = f]
      /\ UNCHANGED <<targets, heap, eventsBuffer, ctlVars, restarting, envVars>>
  BY DEF Lookup
<1>3. CASE targets[p] = Nil
  <2>1. f \in FrameType /\ FrameOK(f) /\ f.state = Nil
    BY <1>1, <1>3, IdleFrame DEF Idle
  <2> QED
    BY <1>2, <2>1, TypeGoto DEF TypeOK
<1>4. CASE targets[p] # Nil
  <2>1. /\ targets[p] \in Objs /\ targets[p] \in InUse
        /\ heap[targets[p]].target \in Configs
    BY <1>1, <1>4, RegisteredCell DEF State
  <2>2. f = Entered(p, left)
    BY <1>4
  <2>3. /\ Entered(p, left) \in FrameType /\ FrameOK(Entered(p, left))
        /\ Entered(p, left).state = targets[p]
    BY <1>1, <2>1
    DEF Entered, FrameType, FrameOK, Idle, Collecting, Resources
  <2> HIDE DEF f
  <2> QED
    BY <1>2, <2>1, <2>2, <2>3, TypeGoto DEF TypeOK
<1> QED
  BY <1>3, <1>4

LEMMA TypeProbe ==
    ASSUME TypeOK, NEW l \in Loops, Probe(l)
    PROVE  TypeOK'
<1>1. loop[l].pc = "probe"
  BY DEF Probe
<1>2. /\ loop[l] \in FrameType /\ FrameOK(loop[l]) /\ loop[l].state \in InUse
      /\ loop[l].target \in Configs
  BY <1>1, HeldCell DEF Collecting
<1>3. \E m \in Metric, pc \in {"alive", "push"} :
          /\ m.alive => m.limit = loop[l].target.Threshold
          /\ loop' = [loop EXCEPT ![l].metric = m, ![l].pc = pc]
  BY <1>2, LiveMetricsType, DeadMetricType DEF Probe
<1>4. PICK m \in Metric, pc \in {"alive", "push"} :
          /\ m.alive => m.limit = loop[l].target.Threshold
          /\ loop' = [loop EXCEPT ![l].metric = m, ![l].pc = pc]
  BY <1>3
<1> DEFINE f == [loop[l] EXCEPT !.metric = m, !.pc = pc]
<1>5. loop' = [loop EXCEPT ![l] = f]
  BY <1>4 DEF TypeOK
<1>6. f \in FrameType /\ FrameOK(f) /\ f.state = loop[l].state
  BY <1>1, <1>2, <1>4 DEF FrameType, FrameOK, Collecting
<1>7. UNCHANGED <<targets, heap, eventsBuffer, ctlVars, restarting, envVars>>
  BY DEF Probe
<1> HIDE DEF f
<1> QED
  BY <1>2, <1>5, <1>6, <1>7, TypeGoto DEF TypeOK

\* Goto keeps what the goroutine holds.
LEMMA GotoFrame ==
    ASSUME TypeOK, NEW l \in Loops, loop[l].pc \in Collecting,
           loop[l].pc # "probe", NEW pc \in Collecting
    PROVE  LET f == [loop[l] EXCEPT !.pc = pc]
           IN  /\ f \in FrameType /\ FrameOK(f) /\ f.state = loop[l].state
               /\ Goto(l, pc) => loop' = [loop EXCEPT ![l] = f]
<1>1. loop[l] \in FrameType /\ FrameOK(loop[l])
  BY HeldCell
<1>2. [loop[l] EXCEPT !.pc = pc] \in FrameType
  BY <1>1 DEF FrameType
<1>3. FrameOK([loop[l] EXCEPT !.pc = pc])
  BY <1>1 DEF FrameOK, FrameType
<1>4. [loop[l] EXCEPT !.pc = pc].state = loop[l].state
  BY <1>1 DEF FrameType
<1> QED
  BY <1>2, <1>3, <1>4 DEF Goto, TypeOK

\* A step that stores a targetState in the cell held and moves to a frame
\* that holds the same cell or none.
LEMMA TypeStoreHeld ==
    ASSUME TypeOK, NEW l \in Loops, loop[l].pc \in Collecting,
           NEW f \in FrameType, FrameOK(f), f.state \in {loop[l].state, Nil},
           NEW s \in State,
           heap' = [heap EXCEPT ![loop[l].state] = s],
           loop' = [loop EXCEPT ![l] = f],
           UNCHANGED <<targets, eventsBuffer, ctlVars, restarting, envVars>>
    PROVE  TypeOK'
<1>1. loop[l].state \in Objs /\ loop[l].state \in InUse
  BY HeldCell
<1>2. restarting' \subseteq Restart
  BY DEF TypeOK
<1> QED
  BY <1>1, <1>2, TypeStore, RestartsInUse

\* The updates collectOne makes of a targetState.
LEMMA StateUpdates ==
    ASSUME NEW s \in State
    PROVE  /\ \A b \in BOOLEAN : [s EXCEPT !.exitReported = b] \in State
           /\ \A r \in Resources, n \in Nat :
                 [s EXCEPT !.exceedCnt[r] = n] \in State
           /\ \A ring \in Seq(Metric) : [s EXCEPT !.metrics = ring] \in State
           /\ \A m \in Metric : [s EXCEPT !.lastMetric = m] \in State
           /\ \A t \in Nat, n \in Nat :
                 [s EXCEPT !.lastRestart = t, !.restartCount = n] \in State
           /\ \A c \in Configs : [s EXCEPT !.target = c] \in State
<1>1. \A r \in Resources, n \in Nat : [s EXCEPT !.exceedCnt[r] = n] \in State
  BY DEF State
<1>2. \A t \in Nat, n \in Nat :
         [s EXCEPT !.lastRestart = t, !.restartCount = n] \in State
  BY DEF State
<1> QED
  BY <1>1, <1>2 DEF State

LEMMA TypeMarkAlive ==
    ASSUME TypeOK, NEW l \in Loops, MarkAlive(l)
    PROVE  TypeOK'
<1> DEFINE f == [loop[l] EXCEPT !.pc = "check"]
           s == [heap[loop[l].state] EXCEPT !.exitReported = FALSE]
<1>1. loop[l].pc \in Collecting /\ loop[l].pc # "probe"
  BY DEF MarkAlive, Collecting
<1>2. heap[loop[l].state] \in State
  BY <1>1, HeldCell
<1>3. s \in State /\ heap' = [heap EXCEPT ![loop[l].state] = s]
  BY <1>2, StateUpdates DEF MarkAlive, TypeOK
<1>4. /\ f \in FrameType /\ FrameOK(f) /\ f.state = loop[l].state
      /\ loop' = [loop EXCEPT ![l] = f]
  BY <1>1, GotoFrame DEF MarkAlive, Collecting
<1>5. UNCHANGED <<targets, eventsBuffer, ctlVars, restarting, envVars>>
  BY DEF MarkAlive
<1> HIDE DEF f, s
<1> QED
  BY <1>1, <1>3, <1>4, <1>5, TypeStoreHeld

LEMMA TypeCheckUnder ==
    ASSUME TypeOK, NEW l \in Loops, CheckUnder(l) \/ ClearCount(l)
    PROVE  TypeOK'
<1> DEFINE f == AfterResource(loop[l])
           s == [heap[loop[l].state] EXCEPT !.exceedCnt[loop[l].res] = 0]
<1>1. loop[l].pc \in Collecting /\ loop[l].pc # "probe"
  BY DEF CheckUnder, ClearCount, Collecting
<1>2. /\ heap[loop[l].state] \in State /\ loop[l].res \in Resources
      /\ loop[l] \in FrameType /\ FrameOK(loop[l])
  BY <1>1, HeldCell
<1>3. heap' = [heap EXCEPT ![loop[l].state] = s]
  BY DEF CheckUnder, ClearCount, TypeOK
<1>4. s \in State
  BY <1>2, StateUpdates
<1>5. /\ f \in FrameType /\ FrameOK(f) /\ f.state = loop[l].state
      /\ loop' = [loop EXCEPT ![l] = f]
  BY <1>1, <1>2, AfterResourceType DEF CheckUnder, ClearCount
<1>6. UNCHANGED <<targets, eventsBuffer, ctlVars, restarting, envVars>>
  BY DEF CheckUnder, ClearCount
<1> HIDE DEF f, s
<1> QED
  BY <1>1, <1>3, <1>4, <1>5, <1>6, TypeStoreHeld

LEMMA TypeCheckOver ==
    ASSUME TypeOK, NEW l \in Loops, CheckOver(l)
    PROVE  TypeOK'
<1> DEFINE cnt == heap[loop[l].state].exceedCnt[loop[l].res] + 1
           g == [loop[l] EXCEPT !.pc = "alarm"]
           f == IF cnt >= ExceedLimit(loop[l].target, loop[l].res)
                THEN g ELSE AfterResource(loop[l])
           s == [heap[loop[l].state] EXCEPT !.exceedCnt[loop[l].res] = cnt]
<1>1. loop[l].pc \in Collecting /\ loop[l].pc # "probe"
  BY DEF CheckOver, Collecting
<1>2. /\ heap[loop[l].state] \in State /\ loop[l].res \in Resources
      /\ loop[l] \in FrameType /\ FrameOK(loop[l])
  BY <1>1, HeldCell
<1>3. heap' = [heap EXCEPT ![loop[l].state] = s]
  BY DEF CheckOver, TypeOK
<1>4. cnt \in Nat
  BY <1>2 DEF State
<1>5. s \in State
  BY <1>2, <1>4, StateUpdates
<1>6. loop' = [loop EXCEPT ![l] = f]
  BY DEF CheckOver
<1>7. g \in FrameType /\ FrameOK(g) /\ g.state = loop[l].state
  BY <1>1, GotoFrame DEF Collecting
<1> HIDE DEF g
<1>8. f \in FrameType /\ FrameOK(f) /\ f.state = loop[l].state
  BY <1>1, <1>2, <1>7, AfterResourceType
<1>9. UNCHANGED <<targets, eventsBuffer, ctlVars, restarting, envVars>>
  BY DEF CheckOver
<1> HIDE DEF f, s, cnt
<1> QED
  BY <1>1, <1>3, <1>5, <1>6, <1>8, <1>9, TypeStoreHeld

LEMMA TypeAlarm ==
    ASSUME TypeOK, NEW l \in Loops, Alarm(l)
    PROVE  TypeOK'
<1>1. loop[l].pc \in Collecting /\ loop[l].pc # "probe"
  BY DEF Alarm, Collecting
<1>2. PICK pc \in {"restart", "clear"} : Goto(l, pc)
  BY DEF Alarm
<1> DEFINE f == [loop[l] EXCEPT !.pc = pc]
<1>3. /\ f \in FrameType /\ FrameOK(f) /\ f.state = loop[l].state
      /\ loop' = [loop EXCEPT ![l] = f]
  BY <1>1, <1>2, GotoFrame DEF Collecting
<1>4. loop[l].state \in InUse /\ loop[l].pid \in PIDs /\ loop[l].res \in Resources
  BY <1>1, HeldCell
<1>5. eventsBuffer' \in Seq(Event)
  BY <1>4, AddEventType DEF Alarm
<1>6. UNCHANGED <<targets, heap, ctlVars, restarting, envVars>>
  BY DEF Alarm
<1> HIDE DEF f
<1> QED
  BY <1>3, <1>4, <1>5, <1>6, TypeGoto

LEMMA TypePush ==
    ASSUME TypeOK, NEW l \in Loops, Push(l)
    PROVE  TypeOK'
<1> DEFINE f == [loop[l] EXCEPT !.pc = "latest"]
           ring == PushRecent(heap[loop[l].state].metrics, loop[l].metric,
                              MetricsBufferLen)
           s == [heap[loop[l].state] EXCEPT !.metrics = ring]
<1>1. loop[l].pc \in Collecting /\ loop[l].pc # "probe"
  BY DEF Push, Collecting
<1>2. heap[loop[l].state] \in State /\ loop[l].metric \in Metric
  BY <1>1, HeldCell
<1>3. ring \in Seq(Metric)
  BY <1>2, PushRecentType, BoundAssumption DEF State
<1>4. heap' = [heap EXCEPT ![loop[l].state] = s]
  BY DEF Push, TypeOK
<1> HIDE DEF ring
<1>5. s \in State
  BY <1>2, <1>3, StateUpdates
<1>6. /\ f \in FrameType /\ FrameOK(f) /\ f.state = loop[l].state
      /\ loop' = [loop EXCEPT ![l] = f]
  BY <1>1, GotoFrame DEF Push, Collecting
<1>7. UNCHANGED <<targets, eventsBuffer, ctlVars, restarting, envVars>>
  BY DEF Push
<1> HIDE DEF f, s
<1> QED
  BY <1>1, <1>4, <1>5, <1>6, <1>7, TypeStoreHeld

LEMMA TypeStoreLatest ==
    ASSUME TypeOK, NEW l \in Loops, StoreLatest(l)
    PROVE  TypeOK'
<1> DEFINE s == [heap[loop[l].state] EXCEPT !.lastMetric = loop[l].metric]
           g == [loop[l] EXCEPT !.pc = "report"]
<1>1. loop[l].pc \in Collecting /\ loop[l].pc # "probe"
  BY DEF StoreLatest, Collecting
<1>2. heap[loop[l].state] \in State /\ loop[l].metric \in Metric
  BY <1>1, HeldCell
<1>3. s \in State /\ heap' = [heap EXCEPT ![loop[l].state] = s]
  BY <1>2, StateUpdates DEF StoreLatest, TypeOK
<1>4. g \in FrameType /\ FrameOK(g) /\ g.state = loop[l].state
  BY <1>1, GotoFrame DEF Collecting
<1>5. \E f \in {g, Done(l)} : loop' = [loop EXCEPT ![l] = f]
  BY DEF StoreLatest
<1>6. PICK f \in {g, Done(l)} : loop' = [loop EXCEPT ![l] = f]
  BY <1>5
<1>7. f \in FrameType /\ FrameOK(f) /\ f.state \in {loop[l].state, Nil}
  BY <1>4, <1>6, DoneFrame
<1>8. UNCHANGED <<targets, eventsBuffer, ctlVars, restarting, envVars>>
  BY DEF StoreLatest
<1> HIDE DEF s
<1> QED
  BY <1>1, <1>3, <1>6, <1>7, <1>8, TypeStoreHeld

LEMMA TypeReport ==
    ASSUME TypeOK, NEW l \in Loops, Report(l)
    PROVE  TypeOK'
<1> DEFINE f == [loop[l] EXCEPT !.pc = "exit"]
           s == [heap[loop[l].state] EXCEPT !.exitReported = TRUE]
<1>1. loop[l].pc \in Collecting /\ loop[l].pc # "probe"
  BY DEF Report, Collecting
<1>2. heap[loop[l].state] \in State
  BY <1>1, HeldCell
<1>3. s \in State /\ heap' = [heap EXCEPT ![loop[l].state] = s]
  BY <1>2, StateUpdates DEF Report, TypeOK
<1>4. /\ f \in FrameType /\ FrameOK(f) /\ f.state = loop[l].state
      /\ loop' = [loop EXCEPT ![l] = f]
  BY <1>1, GotoFrame DEF Report, Collecting
<1>5. UNCHANGED <<targets, eventsBuffer, ctlVars, restarting, envVars>>
  BY DEF Report
<1> HIDE DEF f, s
<1> QED
  BY <1>1, <1>3, <1>4, <1>5, TypeStoreHeld

LEMMA TypeExitEvent ==
    ASSUME TypeOK, NEW l \in Loops, ExitEvent(l)
    PROVE  TypeOK'
<1> DEFINE g == [loop[l] EXCEPT !.pc = "restart"]
<1>1. loop[l].pc \in Collecting /\ loop[l].pc # "probe"
  BY DEF ExitEvent, Collecting
<1>2. loop[l].state \in InUse /\ loop[l].pid \in PIDs
  BY <1>1, HeldCell
<1>3. g \in FrameType /\ FrameOK(g) /\ g.state = loop[l].state
  BY <1>1, GotoFrame DEF Collecting
<1>4. \E f \in {g, Done(l)} : loop' = [loop EXCEPT ![l] = f]
  BY DEF ExitEvent
<1>5. PICK f \in {g, Done(l)} : loop' = [loop EXCEPT ![l] = f]
  BY <1>4
<1>6. f \in FrameType /\ FrameOK(f) /\ f.state \in {loop[l].state, Nil}
  BY <1>3, <1>5, DoneFrame
<1>7. eventsBuffer' \in Seq(Event)
  BY <1>2, AddEventType DEF ExitEvent
<1>8. UNCHANGED <<targets, heap, ctlVars, restarting, envVars>>
  BY DEF ExitEvent
<1> QED
  BY <1>2, <1>5, <1>6, <1>7, <1>8, TypeGoto

LEMMA TypeTryRestart ==
    ASSUME TypeOK, NEW l \in Loops, TryRestart(l)
    PROVE  TypeOK'
<1> DEFINE p == loop[l].pid
           o == targets[p]
           f == AfterRestart(l)
           n == heap[o].restartCount + 1
           s == [heap[o] EXCEPT !.lastRestart = now, !.restartCount = n]
           r == [obj |-> o, pid |-> p, cmd |-> heap[o].target.RestartCmd, n |-> n]
<1>1. loop[l].pc \in Collecting /\ loop[l].pc # "probe"
  BY DEF TryRestart, Collecting
<1>2. loop[l].state \in InUse /\ p \in PIDs
  BY <1>1, HeldCell
<1>3. f \in FrameType /\ FrameOK(f) /\ f.state \in {loop[l].state, Nil}
  BY <1>1, GotoFrame, DoneFrame DEF AfterRestart, Collecting
<1>4. loop' = [loop EXCEPT ![l] = f]
  BY DEF TryRestart
<1>5. UNCHANGED <<targets, eventsBuffer, ctlVars, envVars>>
  BY DEF TryRestart
<1> HIDE DEF f
<1>6. CASE MayRestart(p)
  <2>1. o \in Objs /\ o \in InUse /\ heap[o] \in State
    BY <1>2, <1>6, RegisteredCell DEF MayRestart
  <2>2. heap' = [heap EXCEPT ![o] = s]
    BY <1>6, <2>1 DEF TryRestart, TypeOK
  <2>3. n \in Nat /\ now \in Nat /\ heap[o].target \in Configs
    BY <2>1 DEF State, TypeOK
  <2>4. s \in State
    BY <2>1, <2>3, StateUpdates
  <2>5. heap[o].target.RestartCmd \in Commands \cup {NoCmd}
    BY <2>3, ConfigAssumption DEF Config
  <2>6. r \in Restart
    BY <1>2, <2>1, <2>3, <2>5 DEF Restart
  <2>7. restarting' = restarting \cup {r}
    BY <1>6 DEF TryRestart
  <2>8. r.obj \in InUse
    BY <2>1
  <2> HIDE DEF s, r, n
  <2>9. restarting \subseteq Restart
    BY DEF TypeOK
  <2>10. restarting' \subseteq Restart /\ \A q \in restarting' : q.obj \in InUse
    BY <2>6, <2>7, <2>8, <2>9, RestartsInUse
  <2> QED
    BY <1>2, <1>3, <1>4, <1>5, <2>1, <2>2, <2>4, <2>10, TypeStore
<1>7. CASE ~MayRestart(p)
  <2>1. UNCHANGED <<heap, restarting>>
    BY <1>7 DEF TryRestart
  <2> QED
    BY <1>2, <1>3, <1>4, <1>5, <2>1, TypeGoto DEF TypeOK
<1> QED
  BY <1>6, <1>7

LEMMA TypeLoopStep ==
    ASSUME TypeOK, NEW l \in Loops, LoopStep(l)
    PROVE  TypeOK'
<1>1. CASE EnterSelect(l) \/ StopReceived(l) \/ TickerFires(l) \/ CollectAll(l)
  BY <1>1, TypeWait
<1>2. CASE CollectOne(l)
  BY <1>2, TypeLookup, TypeProbe, TypeMarkAlive, TypeCheckOver, TypeCheckUnder,
     TypeAlarm, TypePush, TypeStoreLatest, TypeReport, TypeExitEvent,
     TypeTryRestart
  DEF CollectOne
<1> QED
  BY <1>1, <1>2 DEF LoopStep

------------------------------------------------------------------------------
\* The handlers, the restart goroutines and the environment do, too.

LEMMA TypeAddTarget ==
    ASSUME TypeOK, NEW p \in PIDs, NEW c \in Configs, NEW o \in Objs,
           AddTarget(p, c, o)
    PROVE  TypeOK'
<1>1. PICK m \in {Sampled(d, c) : d \in Samples} \cup {Nil} :
          heap' = [heap EXCEPT ![o] = NewState(c, m)]
  BY DEF AddTarget
<1>2. NewState(c, m) \in State
  BY NewStateType
<1>3. /\ heap' \in [Objs -> State \cup {Nil}]
      /\ \A k \in Objs : heap[k] \in State => heap'[k] \in State
      /\ heap'[o] \in State
  BY <1>1, <1>2, StoreCell DEF TypeOK
<1>4. targets' \in [PIDs -> Objs \cup {Nil}]
  BY DEF AddTarget, TypeOK
<1>5. UNCHANGED <<eventsBuffer, ctlVars, loop, restarting, envVars>>
  BY DEF AddTarget
<1>6. \A k \in PIDs : targets'[k] = IF k = p THEN o ELSE targets[k]
  BY DEF AddTarget, TypeOK
<1>7. InUse' \subseteq InUse \cup {o}
  BY <1>5, <1>6 DEF InUse, Registered
<1>8. InUse \subseteq Objs \cup {Nil}
  BY DEF InUse, Registered, TypeOK, FrameType, Restart
<1>9. \A k \in InUse' \ {Nil} : heap'[k] \in State
  BY <1>3, <1>7, <1>8 DEF TypeOK
<1>10. \A l \in Loops : FrameOK(loop'[l])
  BY <1>5 DEF TypeOK
<1> QED
  BY <1>3, <1>4, <1>5, <1>9, <1>10 DEF TypeOK, ctlVars, envVars

LEMMA TypeRemove ==
    ASSUME TypeOK, RemoveAllTargets \/ \E p \in PIDs : RemoveTarget(p)
    PROVE  TypeOK'
<1>1. UNCHANGED <<heap, eventsBuffer, ctlVars, loop, restarting, envVars>>
  BY DEF RemoveTarget, RemoveAllTargets
<1>2. /\ targets' \in [PIDs -> Objs \cup {Nil}]
      /\ \A p \in PIDs : targets'[p] \in {targets[p], Nil}
  BY DEF RemoveTarget, RemoveAllTargets, TypeOK
<1>3. InUse' \subseteq InUse
  BY <1>1, <1>2 DEF InUse, Registered
<1>4. \A l \in Loops : FrameOK(loop'[l])
  BY <1>1 DEF TypeOK
<1> QED
  BY <1>1, <1>2, <1>3, <1>4 DEF TypeOK, ctlVars, envVars

LEMMA TypeUpdateTarget ==
    ASSUME TypeOK, NEW p \in PIDs, NEW c \in Configs, UpdateTarget(p, c)
    PROVE  TypeOK'
<1> DEFINE o == targets[p]
           s == [heap[o] EXCEPT !.target = c]
<1>1. o \in Objs /\ heap[o] \in State
  BY RegisteredCell DEF UpdateTarget
<1>2. heap' = [heap EXCEPT ![o] = s] /\ s \in State
  BY <1>1, StateUpdates DEF UpdateTarget, TypeOK
<1> HIDE DEF s
<1>3. /\ heap' \in [Objs -> State \cup {Nil}]
      /\ \A k \in Objs : heap[k] \in State => heap'[k] \in State
  BY <1>1, <1>2, StoreCell
<1>4. UNCHANGED <<targets, eventsBuffer, ctlVars, loop, restarting, envVars>>
  BY DEF UpdateTarget
<1>5. InUse' = InUse /\ InUse \subseteq Objs \cup {Nil}
  BY <1>4 DEF InUse, Registered, TypeOK, FrameType, Restart
<1>6. \A l \in Loops : FrameOK(loop'[l])
  BY <1>4 DEF TypeOK
<1> QED
  BY <1>3, <1>4, <1>5, <1>6 DEF TypeOK, ctlVars, envVars

LEMMA TypeStartStop ==
    ASSUME TypeOK, Stop \/ \E l \in Loops : Start(l)
    PROVE  TypeOK'
<1>1. UNCHANGED <<targets, heap, eventsBuffer, restarting, envVars>>
  BY DEF Start, Stop
<1>2. running' \in BOOLEAN /\ logOpen' \in BOOLEAN
  BY DEF Start, Stop, TypeOK
<1>3. /\ Frame("next", {}) \in FrameType /\ FrameOK(Frame("next", {}))
      /\ Frame("stopped", {}) \in FrameType /\ FrameOK(Frame("stopped", {}))
      /\ Frame("next", {}).state = Nil /\ Frame("stopped", {}).state = Nil
  BY IdleFrame DEF Idle
<1>4. /\ loop' \in [Loops -> FrameType]
      /\ \A k \in Loops :
            loop'[k] \in {loop[k], Frame("next", {}), Frame("stopped", {})}
  <2>1. CASE Stop
    <3>1. loop' = [l \in Loops |-> IF loop[l].pc = "select"
                                   THEN Frame("stopped", {}) ELSE loop[l]]
      BY <2>1 DEF Stop
    <3> QED
      BY <1>3, <3>1 DEF TypeOK
  <2>2. ASSUME NEW l \in Loops, Start(l)
        PROVE  /\ loop' \in [Loops -> FrameType]
               /\ \A k \in Loops :
                     loop'[k] \in {loop[k], Frame("next", {}), Frame("stopped", {})}
    <3>1. loop' = [loop EXCEPT ![l] = Frame("next", {})]
      BY <2>2 DEF Start
    <3> QED
      BY <1>3, <3>1 DEF TypeOK
  <2> QED
    BY <2>1, <2>2
<1>5. \A k \in Loops : FrameOK(loop'[k])
  BY <1>3, <1>4 DEF TypeOK
<1>6. InUse' \subseteq InUse \cup {Nil}
  BY <1>1, <1>3, <1>4 DEF InUse, Registered
<1> QED
  BY <1>1, <1>2, <1>4, <1>5, <1>6 DEF TypeOK, envVars

LEMMA TypeRunRestart ==
    ASSUME TypeOK, NEW r \in restarting, RunRestart(r)
    PROVE  TypeOK'
<1>1. r.pid \in PIDs
  BY DEF TypeOK, Restart
<1>2. eventsBuffer' \in Seq(Event)
  BY <1>1, AddEventType DEF RunRestart
<1>3. restarting' \subseteq restarting
      /\ UNCHANGED <<targets, heap, ctlVars, loop, envVars>>
  BY DEF RunRestart
<1>4. InUse' \subseteq InUse
  BY <1>3 DEF InUse, Registered
<1>5. \A l \in Loops : FrameOK(loop'[l])
  BY <1>3 DEF TypeOK
<1> QED
  BY <1>2, <1>3, <1>4, <1>5 DEF TypeOK, ctlVars, envVars

LEMMA TypeEnvironment ==
    ASSUME TypeOK, Environment \/ UNCHANGED vars
    PROVE  TypeOK'
<1>1. UNCHANGED <<targets, heap, eventsBuffer, ctlVars, loop, restarting>>
  BY DEF Environment, ProcExits, ProcAppears, Clock, vars, ctlVars
<1>2. procAlive \in [PIDs -> BOOLEAN] /\ now \in Nat
  BY DEF TypeOK
<1>3. procAlive' \in [PIDs -> BOOLEAN] /\ now' \in Nat
  <2>1. ASSUME NEW p \in PIDs, ProcExits(p) \/ ProcAppears(p)
        PROVE  procAlive' \in [PIDs -> BOOLEAN] /\ now' = now
    <3>1. \E b \in BOOLEAN : procAlive' = [procAlive EXCEPT ![p] = b]
      BY <2>1 DEF ProcExits, ProcAppears
    <3>2. now' = now
      BY <2>1 DEF ProcExits, ProcAppears
    <3> QED
      BY <1>2, <3>1, <3>2
  <2>2. CASE Clock
    BY <1>2, <2>2 DEF Clock
  <2>3. CASE UNCHANGED vars
    BY <1>2, <2>3 DEF vars
  <2> QED
    BY <1>2, <2>1, <2>2, <2>3 DEF Environment
<1>4. InUse' = InUse
  BY <1>1 DEF InUse, Registered
<1>5. \A l \in Loops : FrameOK(loop'[l])
  BY <1>1 DEF TypeOK
<1> QED
  BY <1>1, <1>3, <1>4, <1>5 DEF TypeOK, ctlVars

LEMMA TypeNext == TypeOK /\ [Next]_vars => TypeOK'
<1> SUFFICES ASSUME TypeOK, [Next]_vars PROVE TypeOK'
  OBVIOUS
<1>1. CASE Handler
  BY <1>1, TypeAddTarget, TypeRemove, TypeUpdateTarget, TypeStartStop
  DEF Handler
<1>2. CASE \E l \in Loops : LoopStep(l)
  BY <1>2, TypeLoopStep
<1>3. CASE \E r \in restarting : RunRestart(r)
  BY <1>3, TypeRunRestart
<1>4. CASE Environment \/ UNCHANGED vars
  BY <1>4, TypeEnvironment
<1> QED
  BY <1>1, <1>2, <1>3, <1>4 DEF Next

\* In every reachable state the registry, the cells and the goroutines are
\* well formed: a goroutine inside collectOne always holds a targetState, also
\* when the target was removed, or registered anew, since it looked it up.
THEOREM TypeCorrect == Spec => []TypeOK
  BY TypeInit, TypeNext, PTL DEF Spec

------------------------------------------------------------------------------
\* A monitor that runs has a goroutine that samples.

\* A goroutine at work: neither waiting in its select nor outside of it.
Works(f) == f.pc \notin {"none", "stopped", "select"}

\* Whatever step collectAll and collectOne take, the goroutine stays at work,
\* and nothing its callers see has changed.
LEMMA WorkGoesOn ==
    ASSUME TypeOK, NEW l \in Loops, CollectAll(l) \/ CollectOne(l)
    PROVE  /\ UNCHANGED <<targets, running>>
           /\ Works(loop[l])
           /\ \E f : loop' = [loop EXCEPT ![l] = f] /\ Works(f)
<1>1. UNCHANGED <<targets, running>> /\ Works(loop[l])
  BY DEF Works, CollectAll, CollectOne, Lookup, Probe, MarkAlive, CheckOver,
         CheckUnder, Alarm, ClearCount, Push, StoreLatest, Report, ExitEvent,
         TryRestart, ctlVars
<1>2. loop[l] \in FrameType
  BY DEF TypeOK
<1>3. \A todo : Works(Frame("next", todo))
  BY DEF Frame, Works
<1>4. Works(Done(l))
  BY <1>3 DEF Done
<1>5. \A pc \in Collecting : /\ Works([loop[l] EXCEPT !.pc = pc])
                             /\ Goto(l, pc) => loop' =
                                  [loop EXCEPT ![l] = [loop[l] EXCEPT !.pc = pc]]
  BY <1>2 DEF Collecting, FrameType, Goto, TypeOK, Works
<1>6. Works(AfterResource(loop[l]))
  BY <1>2 DEF AfterResource, FrameType, Works
<1>7. CASE CollectAll(l)
  BY <1>1, <1>3, <1>7 DEF CollectAll
<1>8. CASE \E p \in loop[l].todo : Lookup(l, p)
  <2>1. PICK p \in loop[l].todo : Lookup(l, p)
    BY <1>8
  <2>2. Works(Entered(p, loop[l].todo \ {p}))
    BY DEF Entered, Works
  <2> QED
    BY <1>1, <1>3, <2>1, <2>2 DEF Lookup
<1>9. CASE Probe(l)
  <2>1. \E m : \E pc \in {"alive", "push"} :
            loop' = [loop EXCEPT ![l].metric = m, ![l].pc = pc]
    <3>1. CASE procAlive[loop[l].pid]
      BY <1>9, <3>1 DEF Probe
    <3>2. CASE ~procAlive[loop[l].pid]
      BY <1>9, <3>2 DEF Probe
    <3> QED
      BY <3>1, <3>2
  <2>. PICK m : \E pc \in {"alive", "push"} :
            loop' = [loop EXCEPT ![l].metric = m, ![l].pc = pc]
    BY <2>1
  <2>. PICK pc \in {"alive", "push"} :
            loop' = [loop EXCEPT ![l].metric = m, ![l].pc = pc]
    OBVIOUS
  <2>2. /\ Works([loop[l] EXCEPT !.metric = m, !.pc = pc])
        /\ loop' = [loop EXCEPT ![l] = [loop[l] EXCEPT !.metric = m, !.pc = pc]]
    BY <1>2 DEF Works, FrameType, TypeOK
  <2> QED
    BY <1>1, <2>2
<1>10. CASE MarkAlive(l) \/ Push(l) \/ Report(l) \/ Alarm(l)
  <2>1. \E pc \in Collecting : Goto(l, pc)
    BY <1>10 DEF MarkAlive, Push, Report, Alarm, Collecting
  <2> QED
    BY <1>1, <1>5, <2>1
<1>11. CASE CheckUnder(l) \/ ClearCount(l)
  BY <1>1, <1>6, <1>11 DEF CheckUnder, ClearCount
<1>12. CASE CheckOver(l)
  BY <1>1, <1>5, <1>6, <1>12 DEF CheckOver, Collecting
<1>13. CASE StoreLatest(l) \/ ExitEvent(l) \/ TryRestart(l)
  BY <1>1, <1>4, <1>5, <1>13
  DEF StoreLatest, ExitEvent, TryRestart, AfterRestart, Collecting
<1> QED
  BY <1>7, <1>8, <1>9, <1>10, <1>11, <1>12, <1>13 DEF CollectOne

\* A goroutine that samples goes on sampling, whatever step it takes; the
\* others do not move.
LEMMA LoopStepSamples ==
    ASSUME TypeOK, NEW l \in Loops, LoopStep(l)
    PROVE  /\ running' = running
           /\ \A k \in Loops : Sampling(k) => Sampling(k)'
<1>1. CASE CollectAll(l) \/ CollectOne(l)
  BY <1>1, WorkGoesOn DEF Works, Sampling, TypeOK
<1>2. CASE EnterSelect(l) \/ StopReceived(l) \/ TickerFires(l)
  BY <1>2
  DEF EnterSelect, StopReceived, TickerFires, Frame, ctlVars, Sampling, TypeOK
<1> QED
  BY <1>1, <1>2 DEF LoopStep

LEMMA SamplerNext ==
    TypeOK /\ RunningHasSampler /\ [Next]_vars => RunningHasSampler'
<1> SUFFICES ASSUME TypeOK, RunningHasSampler, [Next]_vars, running'
             PROVE  \E l \in Loops : Sampling(l)'
  BY DEF RunningHasSampler
<1>1. ASSUME UNCHANGED <<running, loop>>
      PROVE  \E l \in Loops : Sampling(l)'
  BY <1>1 DEF RunningHasSampler, Sampling
<1>2. CASE Handler
  <2>1. CASE \E l \in Loops : Start(l)
    <3>1. PICK l \in Loops : Start(l)
      BY <2>1
    <3>2. loop'[l].pc = "next"
      BY <3>1 DEF Start, Frame, TypeOK
    <3> QED
      BY <3>2 DEF Sampling
  <2>2. CASE Stop
    BY <2>2 DEF Stop
  <2>3. CASE ~Stop /\ ~\E l \in Loops : Start(l)
    <3>1. UNCHANGED <<running, loop>>
      BY <1>2, <2>3
      DEF Handler, AddTarget, RemoveTarget, RemoveAllTargets, UpdateTarget,
          ctlVars
    <3> QED
      BY <1>1, <3>1
  <2> QED
    BY <2>1, <2>2, <2>3
<1>3. CASE \E l \in Loops : LoopStep(l)
  BY <1>3, LoopStepSamples DEF RunningHasSampler
<1>4. CASE Environment \/ (\E r \in restarting : RunRestart(r)) \/ UNCHANGED vars
  <2>1. UNCHANGED <<running, loop>>
    BY <1>4
    DEF Environment, ProcExits, ProcAppears, Clock, RunRestart, vars, ctlVars
  <2> QED
    BY <1>1, <2>1
<1> QED
  BY <1>2, <1>3, <1>4 DEF Next

\* Whatever the order of Start and Stop, and however late a goroutine notices
\* that its channel was closed, IsRunning() is never true with no goroutine
\* left to sample.
THEOREM RunningIsSampled == Spec => []RunningHasSampler
<1>1. Init => RunningHasSampler
  BY DEF Init, RunningHasSampler
<1> QED
  BY <1>1, TypeCorrect, SamplerNext, PTL DEF Spec

------------------------------------------------------------------------------
\* Which steps touch the restarts of a cell.

\* A step keeps what the cell knows of restarts.
SameRestarts(o) ==
    \/ heap'[o] = heap[o]
    \/ /\ heap[o] \in State
       /\ heap'[o].lastRestart = heap[o].lastRestart
       /\ heap'[o].restartCount = heap[o].restartCount

\* Storing a targetState with the restarts of the one it replaces.
LEMMA RestartsStored ==
    ASSUME TypeOK, NEW o \in Objs, heap[o] \in State, NEW s,
           heap' = [heap EXCEPT ![o] = s],
           s.lastRestart = heap[o].lastRestart,
           s.restartCount = heap[o].restartCount
    PROVE  \A k \in Objs : SameRestarts(k)
<1>1. \A k \in Objs : heap'[k] = IF k = o THEN s ELSE heap[k]
  BY DEF TypeOK
<1> QED
  BY <1>1 DEF SameRestarts

\* Of the steps of a goroutine only tryRestart touches the restarts.
LEMMA LoopStepRestarts ==
    ASSUME TypeOK, NEW l \in Loops, LoopStep(l)
    PROVE  now' = now /\ (TryRestart(l) \/ \A k \in Objs : SameRestarts(k))
<1> DEFINE o == loop[l].state
<1>1. CASE TryRestart(l)
  BY <1>1 DEF TryRestart, envVars
<1>2. CASE \/ EnterSelect(l) \/ StopReceived(l) \/ TickerFires(l) \/ CollectAll(l)
           \/ (\E p \in loop[l].todo : Lookup(l, p))
           \/ Probe(l) \/ Alarm(l) \/ ExitEvent(l)
  <2>1. UNCHANGED <<heap, now>>
    BY <1>2
    DEF EnterSelect, StopReceived, TickerFires, CollectAll, Lookup, Probe, Alarm,
        ExitEvent, envVars
  <2> QED
    BY <2>1 DEF SameRestarts
<1>3. CASE \/ MarkAlive(l) \/ CheckOver(l) \/ CheckUnder(l) \/ ClearCount(l)
           \/ Push(l) \/ StoreLatest(l) \/ Report(l)
  <2>1. loop[l].pc \in Collecting /\ now' = now
    BY <1>3
    DEF MarkAlive, CheckOver, CheckUnder, ClearCount, Push, StoreLatest, Report,
        Collecting, envVars
  <2>2. o \in Objs /\ heap[o] \in State
    BY <2>1, HeldCell
  <2>3. \A s : (\/ \E b : s = [heap[o] EXCEPT !.exitReported = b]
                \/ \E cnt : s = [heap[o] EXCEPT !.exceedCnt = cnt]
                \/ \E ring : s = [heap[o] EXCEPT !.metrics = ring]
                \/ \E m : s = [heap[o] EXCEPT !.lastMetric = m])
               => /\ s.lastRestart = heap[o].lastRestart
                  /\ s.restartCount = heap[o].restartCount
    BY <2>2 DEF State
  <2>4. CASE MarkAlive(l) \/ Report(l)
    <3>1. PICK b \in BOOLEAN :
              heap' = [heap EXCEPT ![o] = [heap[o] EXCEPT !.exitReported = b]]
      BY <2>2, <2>4 DEF MarkAlive, Report, TypeOK
    <3> QED
      BY <2>1, <2>2, <2>3, <3>1, RestartsStored
  <2>5. CASE CheckOver(l) \/ CheckUnder(l) \/ ClearCount(l)
    <3>1. PICK n : heap' = [heap EXCEPT ![o].exceedCnt[loop[l].res] = n]
      <4>1. CASE CheckOver(l)
        BY <4>1 DEF CheckOver
      <4>2. CASE CheckUnder(l)
        BY <4>2 DEF CheckUnder
      <4>3. CASE ClearCount(l)
        BY <4>3 DEF ClearCount
      <4> QED
        BY <2>5, <4>1, <4>2, <4>3
    <3> DEFINE cnt == [heap[o].exceedCnt EXCEPT ![loop[l].res] = n]
    <3>2. heap' = [heap EXCEPT ![o] = [heap[o] EXCEPT !.exceedCnt = cnt]]
      BY <2>2, <3>1 DEF TypeOK
    <3> HIDE DEF cnt
    <3> QED
      BY <2>1, <2>2, <2>3, <3>2, RestartsStored
  <2>6. CASE Push(l)
    <3> DEFINE ring == PushRecent(heap[o].metrics, loop[l].metric,
                                  MetricsBufferLen)
    <3>1. heap' = [heap EXCEPT ![o] = [heap[o] EXCEPT !.metrics = ring]]
      BY <2>2, <2>6 DEF Push, TypeOK
    <3> HIDE DEF ring
    <3> QED
      BY <2>1, <2>2, <2>3, <3>1, RestartsStored
  <2>7. CASE StoreLatest(l)
    <3>1. heap' = [heap EXCEPT ![o] =
                      [heap[o] EXCEPT !.lastMetric = loop[l].metric]]
      BY <2>2, <2>7 DEF StoreLatest, TypeOK
    <3> QED
      BY <2>1, <2>2, <2>3, <3>1, RestartsStored
  <2> QED
    BY <1>3, <2>1, <2>4, <2>5, <2>6, <2>7
<1> QED
  BY <1>1, <1>2, <1>3 DEF LoopStep, CollectOne

\* Of the handlers only AddTarget does, in a cell that was not in use.
LEMMA HandlerRestarts ==
    ASSUME TypeOK, Handler
    PROVE  /\ now' = now
           /\ \/ \E p \in PIDs, c \in Configs, o \in Objs : AddTarget(p, c, o)
              \/ \A k \in Objs : SameRestarts(k)
<1>1. now' = now
  BY DEF Handler, AddTarget, RemoveTarget, RemoveAllTargets, UpdateTarget,
         Start, Stop, envVars
<1>2. ASSUME NEW p \in PIDs, NEW c \in Configs, UpdateTarget(p, c)
      PROVE  \A k \in Objs : SameRestarts(k)
  <2>1. targets[p] \in Objs /\ heap[targets[p]] \in State
    BY <1>2, RegisteredCell DEF UpdateTarget
  <2>2. heap' = [heap EXCEPT ![targets[p]] =
                    [heap[targets[p]] EXCEPT !.target = c]]
    BY <1>2, <2>1 DEF UpdateTarget, TypeOK
  <2>3. /\ [heap[targets[p]] EXCEPT !.target = c].lastRestart
             = heap[targets[p]].lastRestart
        /\ [heap[targets[p]] EXCEPT !.target = c].restartCount
             = heap[targets[p]].restartCount
    BY <2>1 DEF State
  <2> QED
    BY <2>1, <2>2, <2>3, RestartsStored
<1>3. CASE \/ RemoveAllTargets \/ Stop
           \/ (\E p \in PIDs : RemoveTarget(p)) \/ (\E l \in Loops : Start(l))
  <2>1. heap' = heap
    BY <1>3 DEF RemoveAllTargets, Stop, RemoveTarget, Start
  <2> QED
    BY <1>1, <2>1 DEF SameRestarts
<1> QED
  BY <1>1, <1>2, <1>3 DEF Handler

\* The rest does not.
LEMMA OtherRestarts ==
    ASSUME Environment \/ (\E r \in restarting : RunRestart(r)) \/ UNCHANGED vars
    PROVE  /\ now' = now \/ now' = now + 1
           /\ \A k \in Objs : SameRestarts(k)
  BY DEF Environment, ProcExits, ProcAppears, Clock, RunRestart, vars, envVars,
         SameRestarts

------------------------------------------------------------------------------
\* Two restarts are a cooldown apart.

LEMMA CellsInUse == TypeOK => InUse \subseteq Objs \cup {Nil}
  BY DEF InUse, Registered, TypeOK, FrameType, Restart

LEMMA ApartTryRestart ==
    ASSUME TypeOK, NEW l \in Loops, TryRestart(l), NEW k \in Objs
    PROVE  RestartsOK(heap[k], heap'[k])
<1> DEFINE p == loop[l].pid
           o == targets[p]
           n == heap[o].restartCount + 1
           s == [heap[o] EXCEPT !.lastRestart = now, !.restartCount = n]
<1>1. p \in PIDs
  BY HeldCell DEF TryRestart, Collecting
<1>2. CASE MayRestart(p)
  <2>1. o \in Objs /\ heap[o] \in State /\ ~CoolingDown(heap[o])
    BY <1>1, <1>2, RegisteredCell DEF MayRestart
  <2>2. heap' = [heap EXCEPT ![o] = s]
    BY <1>2, <2>1 DEF TryRestart, TypeOK
  <2>3. heap'[k] = IF k = o THEN s ELSE heap[k]
    BY <2>2 DEF TypeOK
  <2>4. s.lastRestart = now /\ s.restartCount = heap[o].restartCount + 1
    BY <2>1 DEF State
  <2>5. /\ heap[o].lastRestart \in {Never} \cup Nat /\ now \in Nat
        /\ Cooldown(heap[o].target) \in Int
    <3>1. heap[o].target \in Configs /\ heap[o].lastRestart \in {Never} \cup Nat
      BY <2>1 DEF State
    <3> QED
      BY <3>1, ConfigAssumption, BoundAssumption DEF Cooldown, Config, TypeOK
  <2>6. \/ heap[o].lastRestart = Never
        \/ now - heap[o].lastRestart >= Cooldown(heap[o].target)
    BY <2>1, <2>5 DEF CoolingDown
  <2> HIDE DEF s
  <2> QED
    BY <2>3, <2>4, <2>6 DEF RestartsOK
<1>3. CASE ~MayRestart(p)
  BY <1>3 DEF TryRestart, RestartsOK
<1> QED
  BY <1>2, <1>3

RestartsStep == \A o \in InUse \ {Nil} : RestartsOK(heap[o], heap'[o])

LEMMA ApartNext == TypeOK /\ [Next]_vars => RestartsStep
<1> SUFFICES ASSUME TypeOK, [Next]_vars, NEW o \in InUse \ {Nil}
             PROVE  RestartsOK(heap[o], heap'[o])
  BY DEF RestartsStep
<1>1. o \in Objs
  BY CellsInUse
<1>2. SameRestarts(o) => RestartsOK(heap[o], heap'[o])
  BY DEF SameRestarts, RestartsOK
<1>3. CASE Handler
  <2>1. ASSUME NEW p \in PIDs, NEW c \in Configs, NEW q \in Objs,
               AddTarget(p, c, q)
        PROVE  heap'[o] = heap[o]
    BY <1>1, <2>1 DEF AddTarget, TypeOK
  <2> QED
    BY <1>1, <1>2, <1>3, <2>1, HandlerRestarts DEF SameRestarts
<1>4. CASE \E l \in Loops : LoopStep(l)
  BY <1>1, <1>2, <1>4, LoopStepRestarts, ApartTryRestart
<1>5. CASE Environment \/ (\E r \in restarting : RunRestart(r)) \/ UNCHANGED vars
  BY <1>1, <1>2, <1>5, OtherRestarts
<1> QED
  BY <1>3, <1>4, <1>5 DEF Next

\* CPU, memory and exit restarts share one cooldown, also when several sampling
\* goroutines decide them: a restart that is not the first of its registration
\* comes when the cooldown since the last one is over, and nothing else that
\* happens to a registration makes it forget when that was.
THEOREM RestartsACooldownApart == Spec => RestartsApart
<1>1. TypeOK /\ [Next]_vars => [RestartsStep]_vars
  BY ApartNext
<1> QED
  BY <1>1, TypeCorrect, PTL DEF Spec, RestartsApart, RestartsStep

------------------------------------------------------------------------------
\* The cooldown bounds the rate of restarts.

\* Time passing, or a step that leaves the restarts of every cell alone.
LEMMA SpacedKept ==
    ASSUME TypeOK, RestartsSpaced, now' = now \/ now' = now + 1,
           \A o \in Objs : SameRestarts(o)
    PROVE  RestartsSpaced'
<1> SUFFICES ASSUME NEW o \in Objs, heap'[o] # Nil
             PROVE  Spaced(heap'[o], now')
  BY DEF RestartsSpaced
<1>1. heap[o] \in State /\ Spaced(heap[o], now)
  <2>1. heap[o] # Nil
    BY NilAssumption DEF SameRestarts
  <2> QED
    BY <2>1 DEF TypeOK, RestartsSpaced
<1>2. /\ heap'[o].lastRestart = heap[o].lastRestart
      /\ heap'[o].restartCount = heap[o].restartCount
  BY DEF SameRestarts
<1>3. heap[o].lastRestart \in {Never} \cup Nat /\ now \in Nat
  BY <1>1 DEF State, TypeOK
<1> QED
  BY <1>1, <1>2, <1>3 DEF Spaced, Never

\* One more restart, when the cell is not cooling down.
LEMMA SpacedRestart ==
    ASSUME TypeOK, NEW state \in State, Spaced(state, now), ~CoolingDown(state)
    PROVE  state.restartCount * MinCooldown <= now
<1>1. /\ state.restartCount \in Nat /\ state.lastRestart \in {Never} \cup Nat
      /\ state.target \in Configs
  BY DEF State
<1>2. MinCooldown \in Nat /\ MinCooldown <= Cooldown(state.target)
  BY <1>1, ConfigAssumption
<1>3. Cooldown(state.target) \in Int /\ now \in Nat
  BY <1>1, ConfigAssumption, BoundAssumption DEF Cooldown, Config, TypeOK
<1>4. CASE state.lastRestart = Never
  BY <1>2, <1>3, <1>4 DEF Spaced
<1>5. CASE state.lastRestart # Never
  <2>1. state.lastRestart \in Nat
    BY <1>1, <1>5
  <2>2. now - state.lastRestart >= MinCooldown
    BY <1>2, <1>3, <1>5, <2>1 DEF CoolingDown
  <2>3. (state.restartCount - 1) * MinCooldown <= state.lastRestart
    BY <1>5 DEF Spaced
  <2>4. \A c, d \in Int : c * d = (c - 1) * d + d
    OBVIOUS
  <2>5. state.restartCount * MinCooldown
          = (state.restartCount - 1) * MinCooldown + MinCooldown
    BY <1>1, <1>2, <2>4
  <2>6. (state.restartCount - 1) * MinCooldown \in Int
    BY <1>1, <1>2
  <2> QED
    BY <1>2, <1>3, <2>1, <2>2, <2>3, <2>5, <2>6
<1> QED
  BY <1>4, <1>5

LEMMA SpacedTryRestart ==
    ASSUME TypeOK, RestartsSpaced, NEW l \in Loops, TryRestart(l)
    PROVE  RestartsSpaced'
<1> DEFINE p == loop[l].pid
           o == targets[p]
           n == heap[o].restartCount + 1
           s == [heap[o] EXCEPT !.lastRestart = now, !.restartCount = n]
<1>1. p \in PIDs
  BY HeldCell DEF TryRestart, Collecting
<1>2. now' = now
  BY DEF TryRestart, envVars
<1>3. CASE MayRestart(p)
  <2>1. o \in Objs /\ heap[o] \in State /\ ~CoolingDown(heap[o])
    BY <1>1, <1>3, RegisteredCell DEF MayRestart
  <2>2. heap' = [heap EXCEPT ![o] = s]
    BY <1>3, <2>1 DEF TryRestart, TypeOK
  <2>3. \A k \in Objs : heap'[k] = IF k = o THEN s ELSE heap[k]
    BY <2>2 DEF TypeOK
  <2>4. s.lastRestart = now /\ s.restartCount = n
    BY <2>1 DEF State
  <2>5. now \in Nat /\ heap[o].restartCount \in Nat
    BY <2>1 DEF State, TypeOK
  <2>6. heap[o].restartCount * MinCooldown <= now
    BY <2>1, NilAssumption, SpacedRestart DEF RestartsSpaced
  <2>7. n - 1 = heap[o].restartCount /\ n > 0
    BY <2>5
  <2>8. Spaced(s, now')
    <3> HIDE DEF s, n
    <3>1. s.lastRestart # Never
      BY <2>4, <2>5 DEF Never
    <3>2. s.restartCount - 1 = heap[o].restartCount
      BY <2>4, <2>7
    <3>3. (s.restartCount - 1) * MinCooldown <= s.lastRestart
      BY <2>4, <2>6, <3>2
    <3>4. s.lastRestart <= now'
      BY <1>2, <2>4, <2>5
    <3> QED
      BY <2>4, <2>7, <3>1, <3>3, <3>4 DEF Spaced
  <2> HIDE DEF s
  <2>9. ASSUME NEW k \in Objs, heap'[k] # Nil PROVE Spaced(heap'[k], now')
    BY <1>2, <2>3, <2>8, <2>9 DEF RestartsSpaced, Spaced
  <2> QED
    BY <2>9 DEF RestartsSpaced
<1>4. CASE ~MayRestart(p)
  <2>1. heap' = heap
    BY <1>4 DEF TryRestart
  <2> QED
    BY <1>2, <2>1, SpacedKept DEF SameRestarts
<1> QED
  BY <1>3, <1>4

LEMMA SpacedAddTarget ==
    ASSUME TypeOK, RestartsSpaced, now' = now,
           NEW p \in PIDs, NEW c \in Configs, NEW o \in Objs, AddTarget(p, c, o)
    PROVE  RestartsSpaced'
<1>1. PICK m : heap' = [heap EXCEPT ![o] = NewState(c, m)]
  BY DEF AddTarget
<1>2. \A k \in Objs : heap'[k] = IF k = o THEN NewState(c, m) ELSE heap[k]
  BY <1>1 DEF TypeOK
<1>3. Spaced(NewState(c, m), now')
  BY DEF Spaced, NewState
<1> SUFFICES ASSUME NEW k \in Objs, heap'[k] # Nil
             PROVE  Spaced(heap'[k], now')
  BY DEF RestartsSpaced
<1> QED
  BY <1>2, <1>3 DEF RestartsSpaced, Spaced

LEMMA SpacedNext == TypeOK /\ RestartsSpaced /\ [Next]_vars => RestartsSpaced'
<1> SUFFICES ASSUME TypeOK, RestartsSpaced, [Next]_vars PROVE RestartsSpaced'
  OBVIOUS
<1>1. CASE Handler
  BY <1>1, HandlerRestarts, SpacedAddTarget, SpacedKept
<1>2. CASE \E l \in Loops : LoopStep(l)
  BY <1>2, LoopStepRestarts, SpacedTryRestart, SpacedKept
<1>3. CASE Environment \/ (\E r \in restarting : RunRestart(r)) \/ UNCHANGED vars
  BY <1>3, OtherRestarts, SpacedKept
<1> QED
  BY <1>1, <1>2, <1>3 DEF Next

\* A bound on the rate that follows from it: the k-th restart of a registration
\* does not come before k-1 times the smallest cooldown, counted from time 0.
THEOREM RestartRateBounded == Spec => []RestartsSpaced
<1>1. Init => RestartsSpaced
  BY DEF Init, RestartsSpaced
<1> QED
  BY <1>1, TypeCorrect, SpacedNext, PTL DEF Spec

------------------------------------------------------------------------------
\* What callers see of the monitor is a Watch.

SamplerFun == [l \in Loops |-> SamplerView(l)]

\* The view of a goroutine follows its frame.
LEMMA ViewOf ==
    ASSUME TypeOK, NEW l \in Loops, NEW f, loop' = [loop EXCEPT ![l] = f]
    PROVE  /\ \A k \in Loops \ {l} : SamplerView(k)' = SamplerView(k)
           /\ f.pc = "none" => SamplerView(l)' = "none"
           /\ f.pc = "select" => SamplerView(l)' = "waiting"
           /\ Works(f) => SamplerView(l)' = "working"
  BY DEF SamplerView, Works, TypeOK

LEMMA MoveView ==
    ASSUME NEW l \in Loops, NEW from, NEW to,
           SamplerView(l) = from, SamplerView(l)' = to,
           \A k \in Loops \ {l} : SamplerView(k)' = SamplerView(k)
    PROVE  Watched!Move(l, from, to)
<1>1. SamplerFun[l] = from
  BY DEF SamplerFun
<1>2. SamplerFun' = [SamplerFun EXCEPT ![l] = to]
  BY DEF SamplerFun
<1> QED
  BY <1>1, <1>2 DEF Watched!Move, SamplerFun

LEMMA LoopStepView ==
    ASSUME TypeOK, NEW l \in Loops, LoopStep(l)
    PROVE  \/ Watched!SamplerStep(l)
           \/ UNCHANGED <<Registered, running, SamplerFun>>
<1>1. CASE CollectAll(l) \/ CollectOne(l)
  <2>1. PICK f : loop' = [loop EXCEPT ![l] = f] /\ Works(f)
    BY <1>1, WorkGoesOn
  <2>2. UNCHANGED <<targets, running>> /\ SamplerView(l) = "working"
    BY <1>1, WorkGoesOn DEF Works, SamplerView
  <2>3. \A k \in Loops : SamplerView(k)' = SamplerView(k)
    BY <2>1, <2>2, ViewOf
  <2> QED
    BY <2>2, <2>3 DEF Registered, SamplerFun
<1>2. CASE EnterSelect(l) \/ StopReceived(l) \/ TickerFires(l)
  <2>1. UNCHANGED <<targets, running>>
    BY <1>2 DEF EnterSelect, StopReceived, TickerFires, ctlVars
  <2>2. CASE EnterSelect(l)
    <3>1. Frame("select", {}).pc = "select" /\ SamplerView(l) = "working"
      BY <2>2 DEF EnterSelect, Frame, SamplerView
    <3>2. Watched!Move(l, "working", "waiting")
      BY <2>2, <3>1, ViewOf, MoveView DEF EnterSelect
    <3> QED
      BY <2>1, <3>2 DEF Watched!SamplerStep, Registered
  <2>3. CASE TickerFires(l)
    <3>1. Works(Frame("collect", {})) /\ SamplerView(l) = "waiting"
      BY <2>3 DEF TickerFires, Frame, SamplerView, Works
    <3>2. Watched!Move(l, "waiting", "working")
      BY <2>3, <3>1, ViewOf, MoveView DEF TickerFires
    <3> QED
      BY <2>1, <3>2 DEF Watched!SamplerStep, Registered
  <2>4. CASE StopReceived(l)
    <3>1. Frame("none", {}).pc = "none" /\ SamplerView(l) = "woken"
      BY <2>4 DEF StopReceived, Frame, SamplerView
    <3>2. Watched!Move(l, "woken", "none")
      BY <2>4, <3>1, ViewOf, MoveView DEF StopReceived
    <3> QED
      BY <2>1, <3>2 DEF Watched!SamplerStep, Registered
  <2> QED
    BY <1>2, <2>2, <2>3, <2>4
<1> QED
  BY <1>1, <1>2 DEF LoopStep

\* Each handler is one step of the abstract monitor.
LEMMA HandlerView ==
    ASSUME TypeOK, Handler
    PROVE  [Watched!Next]_<<Registered, running, SamplerFun>>
<1>1. ASSUME UNCHANGED loop PROVE SamplerFun' = SamplerFun
  BY <1>1 DEF SamplerFun, SamplerView
<1>2. ASSUME NEW p \in PIDs, NEW c \in Configs, NEW o \in Objs,
             AddTarget(p, c, o)
      PROVE  Watched!AddTarget(p)
  <2>1. o # Nil
    BY NilAssumption
  <2>2. Registered' = Registered \cup {p} /\ p \notin Registered
    BY <1>2, <2>1 DEF AddTarget, Registered, TypeOK
  <2> QED
    BY <1>1, <1>2, <2>2 DEF AddTarget, ctlVars, Watched!AddTarget, SamplerFun
<1>3. ASSUME NEW p \in PIDs, RemoveTarget(p)
      PROVE  Watched!RemoveTargets({p})
  <2>1. Registered' = Registered \ {p}
    BY <1>3 DEF RemoveTarget, Registered, TypeOK
  <2> QED
    BY <1>1, <1>3, <2>1
    DEF RemoveTarget, ctlVars, Watched!RemoveTargets, SamplerFun
<1>4. ASSUME RemoveAllTargets PROVE Watched!RemoveTargets(PIDs)
  <2>1. Registered' = Registered \ PIDs
    BY <1>4 DEF RemoveAllTargets, Registered
  <2> QED
    BY <1>1, <1>4, <2>1
    DEF RemoveAllTargets, ctlVars, Watched!RemoveTargets, SamplerFun
<1>5. ASSUME NEW p \in PIDs, NEW c \in Configs, UpdateTarget(p, c)
      PROVE  UNCHANGED <<Registered, running, SamplerFun>>
  BY <1>1, <1>5 DEF UpdateTarget, ctlVars, Registered
<1>6. ASSUME NEW l \in Loops, Start(l) PROVE Watched!Start(l)
  <2>1. Works(Frame("next", {})) /\ SamplerView(l) = "none"
    BY <1>6 DEF Start, Frame, SamplerView, Works
  <2>2. Watched!Move(l, "none", "working")
    BY <1>6, <2>1, ViewOf, MoveView DEF Start
  <2> QED
    BY <1>6, <2>2 DEF Start, Watched!Start, Registered
<1>7. ASSUME Stop PROVE Watched!Stop
  <2>1. \A l \in Loops :
            SamplerView(l)' = IF SamplerView(l) = "waiting" THEN "woken"
                              ELSE SamplerView(l)
    BY <1>7 DEF Stop, Frame, SamplerView
  <2>2. SamplerFun' = [l \in Loops |-> IF SamplerFun[l] = "waiting" THEN "woken"
                                       ELSE SamplerFun[l]]
    BY <2>1 DEF SamplerFun
  <2> QED
    BY <1>7, <2>2 DEF Stop, Watched!Stop, Registered, SamplerFun
<1> QED
  BY <1>2, <1>3, <1>4, <1>5, <1>6, <1>7 DEF Handler, Watched!Next

\* The monitor with its dozen critical sections per sample implements the
\* three-variable Watch that WebService is built on: every handler is atomic
\* to its callers, and a stop reaches the goroutines that wait, not the others.
THEOREM MonitorImplementsWatch == Spec => ImplementsWatch
<1>1. Init => Watched!Init
  <2> SUFFICES ASSUME Init PROVE Watched!Init
    OBVIOUS
  <2>1. Registered = {} /\ running = FALSE
    BY DEF Init, Registered
  <2>2. SamplerFun = [l \in Loops |-> "none"]
    BY DEF Init, SamplerFun, SamplerView, Frame
  <2> QED
    BY <2>1, <2>2 DEF Watched!Init, SamplerFun
<1>2. TypeOK /\ [Next]_vars => [Watched!Next]_(Watched!vars)
  <2> SUFFICES ASSUME TypeOK, [Next]_vars
               PROVE  [Watched!Next]_<<Registered, running, SamplerFun>>
    BY DEF Watched!vars, SamplerFun
  <2>1. CASE \E l \in Loops : LoopStep(l)
    BY <2>1, LoopStepView DEF Watched!Next
  <2>2. CASE Environment \/ (\E r \in restarting : RunRestart(r)) \/ UNCHANGED vars
    <3>1. UNCHANGED <<targets, running, loop>>
      BY <2>2
      DEF Environment, ProcExits, ProcAppears, Clock, RunRestart, vars, ctlVars
    <3> QED
      BY <3>1 DEF Registered, SamplerFun, SamplerView
  <2> QED
    BY <2>1, <2>2, HandlerView DEF Next
<1> QED
  BY <1>1, <1>2, TypeCorrect, PTL DEF Spec, ImplementsWatch, Watched!Spec

------------------------------------------------------------------------------
\* Every restart has a trigger.

\* The sets that RestartsHaveTriggers counts.
EventsOf(p, types) == {i \in DOMAIN eventsBuffer :
                          /\ eventsBuffer[i].pid = p
                          /\ eventsBuffer[i].type \in types}
Underway(p) == {r \in restarting : r.pid = p}
Deciding(p) == {l \in Loops : loop[l].pc = "restart" /\ loop[l].pid = p}
Triggers == Resources \cup {"exit"}

TriggerInv == IsFiniteSet(restarting) /\ RestartsHaveTriggers

\* A set that has at most one element more than a finite one, or none more.
LEMMA AtMostOneMore ==
    ASSUME NEW S, IsFiniteSet(S), NEW x, NEW T, T \subseteq S \cup {x}
    PROVE  /\ IsFiniteSet(T)
           /\ Cardinality(T) \in Nat /\ Cardinality(S) \in Nat
           /\ Cardinality(T) <= Cardinality(S) + 1
<1>1. Cardinality(S) \in Nat
  BY FS_CardinalityType
<1>2. /\ IsFiniteSet(S \cup {x})
      /\ Cardinality(S \cup {x}) = IF x \in S THEN Cardinality(S)
                                    ELSE Cardinality(S) + 1
  BY FS_AddElement
<1>3. IsFiniteSet(T) /\ Cardinality(T) <= Cardinality(S \cup {x})
  BY <1>2, FS_Subset
<1>4. Cardinality(T) \in Nat
  BY <1>3, FS_CardinalityType
<1> QED
  BY <1>1, <1>2, <1>3, <1>4

LEMMA NoneMore ==
    ASSUME NEW S, IsFiniteSet(S), NEW T, T \subseteq S
    PROVE  /\ IsFiniteSet(T)
           /\ Cardinality(T) \in Nat /\ Cardinality(S) \in Nat
           /\ Cardinality(T) <= Cardinality(S)
<1>1. IsFiniteSet(T) /\ Cardinality(T) <= Cardinality(S)
  BY FS_Subset
<1> QED
  BY <1>1, FS_CardinalityType

\* They are finite, so that their sizes are numbers.
LEMMA CountsAreNat ==
    ASSUME TypeOK, IsFiniteSet(restarting), NEW p \in PIDs
    PROVE  /\ \A types : Events(p, types) \in Nat
           /\ IsFiniteSet(Underway(p)) /\ Cardinality(Underway(p)) \in Nat
           /\ IsFiniteSet(Deciding(p)) /\ Cardinality(Deciding(p)) \in Nat
<1>1. ASSUME NEW types PROVE Events(p, types) \in Nat
  <2>1. IsFiniteSet(DOMAIN eventsBuffer)
    <3>1. DOMAIN eventsBuffer = 1 .. Len(eventsBuffer) /\ Len(eventsBuffer) \in Nat
      BY DEF TypeOK
    <3> QED
      BY <3>1, FS_Interval
  <2>2. IsFiniteSet(EventsOf(p, types))
    BY <2>1, FS_Subset DEF EventsOf
  <2> QED
    BY <2>2, FS_CardinalityType DEF Events, EventsOf
<1>2. IsFiniteSet(Underway(p)) /\ Cardinality(Underway(p)) \in Nat
  BY FS_Subset, FS_CardinalityType DEF Underway
<1>3. IsFiniteSet(Deciding(p)) /\ Cardinality(Deciding(p)) \in Nat
  BY LoopsAssumption, FS_Subset, FS_CardinalityType DEF Deciding
<1> QED
  BY <1>1, <1>2, <1>3

LEMMA RestartsCounted ==
    ASSUME NEW p
    PROVE  RestartsOf(p) = Events(p, {"restart"}) + Cardinality(Underway(p))
                           + Cardinality(Deciding(p))
  BY DEF RestartsOf, Underway, Deciding

\* An event added to a buffer that is not full afterwards was added to one
\* that was not full before, and is one more of its PID and type.
LEMMA OneMoreEvent ==
    ASSUME TypeOK, NEW type \in Resources \cup {"exit", "restart"}, NEW p \in PIDs,
           AddEvent(type, p), Len(eventsBuffer') < EventsBufferLen
    PROVE  /\ Len(eventsBuffer) < EventsBufferLen
           /\ \A q \in PIDs : \A types :
                 Events(q, types)' = IF q = p /\ type \in types
                                     THEN Events(q, types) + 1
                                     ELSE Events(q, types)
<1> DEFINE e == [type |-> type, pid |-> p]
           n == Len(eventsBuffer)
<1>1. eventsBuffer \in Seq(Event) /\ n \in Nat /\ e \in Event
  BY DEF TypeOK, Event
<1>2. eventsBuffer' = PushRecent(eventsBuffer, e, EventsBufferLen)
  BY DEF AddEvent
<1>3. n < EventsBufferLen
  BY <1>1, <1>2, PushRecentItems, BoundAssumption DEF Shifted
<1>4. eventsBuffer' = Append(eventsBuffer, e)
  BY <1>2, <1>3 DEF PushRecent
<1>5. ASSUME NEW q \in PIDs, NEW types
      PROVE  Events(q, types)' = IF q = p /\ type \in types
                                 THEN Events(q, types) + 1 ELSE Events(q, types)
  <2>1. /\ DOMAIN eventsBuffer = 1 .. n
        /\ DOMAIN eventsBuffer' = 1 .. n + 1
        /\ eventsBuffer'[n + 1] = e
        /\ \A i \in 1 .. n : eventsBuffer'[i] = eventsBuffer[i]
    BY <1>1, <1>4
  <2>2. EventsOf(q, types)' = IF q = p /\ type \in types
                              THEN EventsOf(q, types) \cup {n + 1}
                              ELSE EventsOf(q, types)
    BY <1>1, <2>1 DEF EventsOf
  <2>3. IsFiniteSet(EventsOf(q, types)) /\ n + 1 \notin EventsOf(q, types)
    <3>1. IsFiniteSet(1 .. n)
      BY <1>1, FS_Interval
    <3> QED
      BY <1>1, <2>1, <3>1, FS_Subset DEF EventsOf
  <2>4. Events(q, types) = Cardinality(EventsOf(q, types))
    BY DEF Events, EventsOf
  <2>5. Events(q, types)' = Cardinality(EventsOf(q, types)')
    BY DEF Events, EventsOf
  <2>6. Cardinality(EventsOf(q, types) \cup {n + 1})
          = Cardinality(EventsOf(q, types)) + 1
    BY <2>3, FS_AddElement
  <2> QED
    BY <2>2, <2>4, <2>5, <2>6
<1> QED
  BY <1>3, <1>5

\* A step that adds no event and no restart, and sends nobody to a restart.
LEMMA TriggerKept ==
    ASSUME TypeOK, TriggerInv, UNCHANGED <<eventsBuffer, restarting>>,
           \A l \in Loops : loop'[l].pc = "restart" =>
               loop[l].pc = "restart" /\ loop'[l].pid = loop[l].pid
    PROVE  TriggerInv'
<1>1. IsFiniteSet(restarting)'
  BY DEF TriggerInv
<1>2. ASSUME Len(eventsBuffer') < EventsBufferLen, NEW p \in PIDs
      PROVE  RestartsOf(p)' <= Events(p, Resources \cup {"exit"})'
  <2>1. \A types : Events(p, types)' = Events(p, types)
    BY DEF Events
  <2>2. Underway(p)' = Underway(p)
    BY DEF Underway
  <2>3. Deciding(p)' \subseteq Deciding(p)
    BY DEF Deciding
  <2>4. Cardinality(Deciding(p)') <= Cardinality(Deciding(p))
        /\ Cardinality(Deciding(p)') \in Nat
    BY <2>3, CountsAreNat, NoneMore DEF TriggerInv
  <2>5. RestartsOf(p) <= Events(p, Resources \cup {"exit"})
    BY <1>2 DEF TriggerInv, RestartsHaveTriggers
  <2>6. RestartsOf(p)' = Events(p, {"restart"})' + Cardinality(Underway(p)')
                         + Cardinality(Deciding(p)')
    BY DEF RestartsOf, Underway, Deciding
  <2> QED
    BY <2>1, <2>2, <2>4, <2>5, <2>6, RestartsCounted, CountsAreNat
    DEF TriggerInv
<1> QED
  BY <1>1, <1>2 DEF TriggerInv, RestartsHaveTriggers

\* An alarm or an exit: one event and at most one goroutine more.
LEMMA TriggerEvent ==
    ASSUME TypeOK, TriggerInv, NEW l \in Loops, NEW f,
           NEW type \in Triggers, loop[l].pid \in PIDs,
           AddEvent(type, loop[l].pid),
           loop' = [loop EXCEPT ![l] = f],
           f.pc = "restart" => f.pid = loop[l].pid,
           UNCHANGED restarting
    PROVE  TriggerInv'
<1>1. IsFiniteSet(restarting)'
  BY DEF TriggerInv
<1>2. ASSUME Len(eventsBuffer') < EventsBufferLen, NEW p \in PIDs
      PROVE  RestartsOf(p)' <= Events(p, Triggers)'
  <2>1. /\ Len(eventsBuffer) < EventsBufferLen
        /\ \A types : Events(p, types)' = IF p = loop[l].pid /\ type \in types
                                          THEN Events(p, types) + 1
                                          ELSE Events(p, types)
    <3>1. type \in Resources \cup {"exit", "restart"}
      BY DEF Triggers
    <3> QED
      BY <1>2, <3>1, OneMoreEvent
  <2>2. Events(p, {"restart"})' = Events(p, {"restart"})
    BY <2>1 DEF Triggers, Resources
  <2>3. Events(p, Triggers)' = IF p = loop[l].pid THEN Events(p, Triggers) + 1
                               ELSE Events(p, Triggers)
    BY <2>1
  <2>4. Underway(p)' = Underway(p)
    BY DEF Underway
  <2>5. \A k \in Loops : loop'[k] = IF k = l THEN f ELSE loop[k]
    BY DEF TypeOK
  <2>6. Deciding(p)' \subseteq IF p = loop[l].pid THEN Deciding(p) \cup {l}
                               ELSE Deciding(p)
    BY <2>5 DEF Deciding
  <2>7. IsFiniteSet(Deciding(p))
    BY CountsAreNat DEF TriggerInv
  <2>8. /\ Cardinality(Deciding(p)') \in Nat
        /\ Cardinality(Deciding(p)')
             <= IF p = loop[l].pid THEN Cardinality(Deciding(p)) + 1
                ELSE Cardinality(Deciding(p))
    <3>1. CASE p = loop[l].pid
      BY <2>6, <2>7, <3>1, AtMostOneMore
    <3>2. CASE p # loop[l].pid
      BY <2>6, <2>7, <3>2, NoneMore
    <3> QED
      BY <3>1, <3>2
  <2>9. RestartsOf(p) <= Events(p, Triggers)
    BY <2>1 DEF TriggerInv, RestartsHaveTriggers, Triggers
  <2>10. RestartsOf(p)' = Events(p, {"restart"})' + Cardinality(Underway(p)')
                          + Cardinality(Deciding(p)')
    BY DEF RestartsOf, Underway, Deciding
  <2>11. /\ Events(p, {"restart"}) \in Nat /\ Events(p, Triggers) \in Nat
         /\ Cardinality(Underway(p)) \in Nat /\ Cardinality(Deciding(p)) \in Nat
    BY CountsAreNat DEF TriggerInv
  <2>12. CASE p = loop[l].pid
    BY <2>2, <2>3, <2>4, <2>8, <2>9, <2>10, <2>11, <2>12, RestartsCounted
  <2>13. CASE p # loop[l].pid
    BY <2>2, <2>3, <2>4, <2>8, <2>9, <2>10, <2>11, <2>13, RestartsCounted
  <2> QED
    BY <2>12, <2>13
<1> QED
  BY <1>1, <1>2 DEF TriggerInv, RestartsHaveTriggers, Triggers

\* A goroutine at its restart either starts one or gives it up.
LEMMA TriggerTryRestart ==
    ASSUME TypeOK, TriggerInv, NEW l \in Loops, TryRestart(l)
    PROVE  TriggerInv'
<1> DEFINE p == loop[l].pid
           f == AfterRestart(l)
<1>1. loop[l].pc = "restart" /\ loop[l] \in FrameType
  BY DEF TryRestart, TypeOK
<1>2. f.pc # "restart"
  BY <1>1 DEF AfterRestart, Done, Frame, FrameType
<1>3. loop' = [loop EXCEPT ![l] = f] /\ UNCHANGED eventsBuffer
  BY DEF TryRestart
<1>4. PICK r : r.pid = p /\ restarting' \subseteq restarting \cup {r}
  <2> DEFINE o == targets[p]
             r == [obj |-> o, pid |-> p, cmd |-> heap[o].target.RestartCmd,
                   n |-> heap[o].restartCount + 1]
  <2>1. r.pid = p /\ restarting' \subseteq restarting \cup {r}
    BY DEF TryRestart
  <2> QED
    BY <2>1
<1> HIDE DEF f
<1>5. IsFiniteSet(restarting)'
  BY <1>4, AtMostOneMore DEF TriggerInv
<1>6. ASSUME Len(eventsBuffer') < EventsBufferLen, NEW q \in PIDs
      PROVE  RestartsOf(q)' <= Events(q, Triggers)'
  <2>1. \A types : Events(q, types)' = Events(q, types)
    BY <1>3 DEF Events
  <2>2. \A k \in Loops : loop'[k] = IF k = l THEN f ELSE loop[k]
    BY <1>3 DEF TypeOK
  <2>3. IsFiniteSet(Underway(q)) /\ IsFiniteSet(Deciding(q))
    BY CountsAreNat DEF TriggerInv
  <2>4. /\ Events(q, {"restart"}) \in Nat /\ Events(q, Triggers) \in Nat
        /\ Cardinality(Underway(q)) \in Nat /\ Cardinality(Deciding(q)) \in Nat
    BY CountsAreNat DEF TriggerInv
  <2>5. RestartsOf(q) <= Events(q, Triggers)
    BY <1>3, <1>6 DEF TriggerInv, RestartsHaveTriggers, Triggers
  <2>6. RestartsOf(q)' = Events(q, {"restart"})' + Cardinality(Underway(q)')
                         + Cardinality(Deciding(q)')
    BY DEF RestartsOf, Underway, Deciding
  <2>7. CASE q = p
    <3>1. Underway(q)' \subseteq Underway(q) \cup {r}
      BY <1>4 DEF Underway
    <3>2. Cardinality(Underway(q)') \in Nat
          /\ Cardinality(Underway(q)') <= Cardinality(Underway(q)) + 1
      BY <2>3, <3>1, AtMostOneMore
    <3>3. Deciding(q)' = Deciding(q) \ {l} /\ l \in Deciding(q)
      BY <1>1, <1>2, <2>2, <2>7 DEF Deciding
    <3>4. Cardinality(Deciding(q)') = Cardinality(Deciding(q)) - 1
      BY <2>3, <3>3, FS_RemoveElement
    <3> QED
      BY <2>1, <2>4, <2>5, <2>6, <3>2, <3>4, RestartsCounted
  <2>8. CASE q # p
    <3>1. Underway(q)' \subseteq Underway(q)
      BY <1>4, <2>8 DEF Underway
    <3>2. Deciding(q)' \subseteq Deciding(q)
      BY <1>2, <2>2 DEF Deciding
    <3>3. /\ Cardinality(Underway(q)') \in Nat
          /\ Cardinality(Underway(q)') <= Cardinality(Underway(q))
          /\ Cardinality(Deciding(q)') \in Nat
          /\ Cardinality(Deciding(q)') <= Cardinality(Deciding(q))
      BY <2>3, <3>1, <3>2, NoneMore
    <3> QED
      BY <2>1, <2>4, <2>5, <2>6, <3>3, RestartsCounted
  <2> QED
    BY <2>7, <2>8
<1> QED
  BY <1>5, <1>6 DEF TriggerInv, RestartsHaveTriggers, Triggers

\* A restart under way becomes a restart event.
LEMMA TriggerRunRestart ==
    ASSUME TypeOK, TriggerInv, NEW r \in restarting, RunRestart(r)
    PROVE  TriggerInv'
<1>1. r.pid \in PIDs /\ AddEvent("restart", r.pid)
  BY DEF RunRestart, TypeOK, Restart
<1>2. restarting' = restarting \ {r} /\ UNCHANGED loop
  BY DEF RunRestart
<1>3. IsFiniteSet(restarting)'
  BY <1>2, FS_RemoveElement DEF TriggerInv
<1>4. ASSUME Len(eventsBuffer') < EventsBufferLen, NEW q \in PIDs
      PROVE  RestartsOf(q)' <= Events(q, Triggers)'
  <2>1. /\ Len(eventsBuffer) < EventsBufferLen
        /\ \A types : Events(q, types)' = IF q = r.pid /\ "restart" \in types
                                          THEN Events(q, types) + 1
                                          ELSE Events(q, types)
    <3>1. PICK type \in Resources \cup {"exit", "restart"} : type = "restart"
      OBVIOUS
    <3>2. AddEvent(type, r.pid)
      BY <1>1, <3>1
    <3>3. /\ Len(eventsBuffer) < EventsBufferLen
          /\ \A types : Events(q, types)' = IF q = r.pid /\ type \in types
                                            THEN Events(q, types) + 1
                                            ELSE Events(q, types)
      BY <1>1, <1>4, <3>2, OneMoreEvent
    <3> QED
      BY <3>1, <3>3
  <2>2. Events(q, {"restart"})' = IF q = r.pid THEN Events(q, {"restart"}) + 1
                                  ELSE Events(q, {"restart"})
    BY <2>1
  <2>3. Events(q, Triggers)' = Events(q, Triggers)
    BY <2>1 DEF Triggers, Resources
  <2>4. Deciding(q)' = Deciding(q)
    BY <1>2 DEF Deciding
  <2>5. IsFiniteSet(Underway(q))
    BY CountsAreNat DEF TriggerInv
  <2>6. Underway(q)' = Underway(q) \ {r} /\ (r \in Underway(q) <=> q = r.pid)
    BY <1>2 DEF Underway
  <2>7. Cardinality(Underway(q)') = IF q = r.pid THEN Cardinality(Underway(q)) - 1
                                    ELSE Cardinality(Underway(q))
    BY <2>5, <2>6, FS_RemoveElement
  <2>8. RestartsOf(q) <= Events(q, Triggers)
    BY <2>1 DEF TriggerInv, RestartsHaveTriggers, Triggers
  <2>9. RestartsOf(q)' = Events(q, {"restart"})' + Cardinality(Underway(q)')
                         + Cardinality(Deciding(q)')
    BY DEF RestartsOf, Underway, Deciding
  <2>10. /\ Events(q, {"restart"}) \in Nat /\ Events(q, Triggers) \in Nat
         /\ Cardinality(Underway(q)) \in Nat /\ Cardinality(Deciding(q)) \in Nat
    BY CountsAreNat DEF TriggerInv
  <2>11. RestartsOf(q)' = RestartsOf(q)
    BY <2>2, <2>4, <2>7, <2>9, <2>10, RestartsCounted
  <2> QED
    BY <2>3, <2>8, <2>11
<1> QED
  BY <1>3, <1>4 DEF TriggerInv, RestartsHaveTriggers, Triggers

\* No step but an alarm and an exit sends a goroutine to a restart.
LEMMA TriggerOtherSteps ==
    ASSUME TypeOK, TriggerInv, NEW l \in Loops,
           \/ EnterSelect(l) \/ StopReceived(l) \/ TickerFires(l) \/ CollectAll(l)
           \/ (\E p \in loop[l].todo : Lookup(l, p))
           \/ Probe(l) \/ MarkAlive(l) \/ CheckOver(l) \/ CheckUnder(l)
           \/ ClearCount(l) \/ Push(l) \/ StoreLatest(l) \/ Report(l)
    PROVE  TriggerInv'
<1>1. UNCHANGED <<eventsBuffer, restarting>>
  BY DEF EnterSelect, StopReceived, TickerFires, CollectAll, Lookup, Probe,
         MarkAlive, CheckOver, CheckUnder, ClearCount, Push, StoreLatest, Report
<1>2. loop[l] \in FrameType
  BY DEF TypeOK
<1>3. \A todo, pc : Frame(pc, todo).pc = pc
  BY DEF Frame
<1>4. AfterResource(loop[l]).pc # "restart"
  BY <1>2 DEF AfterResource, FrameType
<1>5. loop'[l].pc # "restart" /\ \A k \in Loops \ {l} : loop'[k] = loop[k]
  <2>1. CASE EnterSelect(l) \/ StopReceived(l) \/ TickerFires(l) \/ CollectAll(l)
    BY <1>3, <2>1
    DEF EnterSelect, StopReceived, TickerFires, CollectAll, TypeOK
  <2>2. CASE \E p \in loop[l].todo : Lookup(l, p)
    <3>1. PICK p \in loop[l].todo : Lookup(l, p)
      BY <2>2
    <3>2. Entered(p, loop[l].todo \ {p}).pc = "probe"
      BY DEF Entered
    <3> QED
      BY <1>3, <3>1, <3>2 DEF Lookup, TypeOK
  <2>3. CASE Probe(l)
    <3>1. \E m : \E pc \in {"alive", "push"} :
              loop' = [loop EXCEPT ![l].metric = m, ![l].pc = pc]
      <4>1. CASE procAlive[loop[l].pid]
        BY <2>3, <4>1 DEF Probe
      <4>2. CASE ~procAlive[loop[l].pid]
        BY <2>3, <4>2 DEF Probe
      <4> QED
        BY <4>1, <4>2
    <3> PICK m : \E pc \in {"alive", "push"} :
              loop' = [loop EXCEPT ![l].metric = m, ![l].pc = pc]
      BY <3>1
    <3> PICK pc \in {"alive", "push"} :
              loop' = [loop EXCEPT ![l].metric = m, ![l].pc = pc]
      OBVIOUS
    <3>2. loop'[l].pc = pc
      BY <1>2 DEF FrameType, TypeOK
    <3>3. \A k \in Loops \ {l} : loop'[k] = loop[k]
      BY DEF TypeOK
    <3> QED
      BY <3>2, <3>3
  <2>4. CASE MarkAlive(l) \/ Push(l) \/ Report(l)
    BY <1>2, <2>4 DEF MarkAlive, Push, Report, Goto, FrameType, TypeOK
  <2>5. CASE CheckUnder(l) \/ ClearCount(l)
    BY <1>4, <2>5 DEF CheckUnder, ClearCount, TypeOK
  <2>6. CASE CheckOver(l)
    <3>1. [loop[l] EXCEPT !.pc = "alarm"].pc = "alarm"
      BY <1>2 DEF FrameType
    <3>2. \E f : f.pc # "restart" /\ loop' = [loop EXCEPT ![l] = f]
      BY <1>4, <2>6, <3>1 DEF CheckOver
    <3> QED
      BY <3>2 DEF TypeOK
  <2>7. CASE StoreLatest(l)
    BY <1>2, <1>3, <2>7 DEF StoreLatest, Done, FrameType, TypeOK
  <2> QED
    BY <2>1, <2>2, <2>3, <2>4, <2>5, <2>6, <2>7
<1> QED
  BY <1>1, <1>5, TriggerKept

LEMMA TriggerAlarm ==
    ASSUME TypeOK, TriggerInv, NEW l \in Loops, Alarm(l) \/ ExitEvent(l)
    PROVE  TriggerInv'
<1>1. /\ loop[l].pid \in PIDs /\ loop[l].res \in Resources
      /\ loop[l] \in FrameType /\ UNCHANGED restarting
  BY HeldCell DEF Alarm, ExitEvent, Collecting
<1>2. PICK type \in Triggers : AddEvent(type, loop[l].pid)
  BY <1>1 DEF Alarm, ExitEvent, Triggers
<1>3. PICK f : /\ loop' = [loop EXCEPT ![l] = f]
               /\ f.pc = "restart" => f.pid = loop[l].pid
  <2>1. CASE Alarm(l)
    <3>1. PICK pc : Goto(l, pc)
      BY <2>1 DEF Alarm
    <3>2. /\ loop' = [loop EXCEPT ![l] = [loop[l] EXCEPT !.pc = pc]]
          /\ [loop[l] EXCEPT !.pc = pc].pid = loop[l].pid
      BY <1>1, <3>1 DEF Goto, FrameType, TypeOK
    <3> QED
      BY <3>2
  <2>2. CASE ExitEvent(l)
    <3>1. /\ [loop[l] EXCEPT !.pc = "restart"].pid = loop[l].pid
          /\ Done(l).pc = "next"
      BY <1>1 DEF FrameType, Done, Frame
    <3> QED
      BY <2>2, <3>1 DEF ExitEvent
  <2> QED
    BY <2>1, <2>2
<1> QED
  BY <1>1, <1>2, <1>3, TriggerEvent

LEMMA TriggerNext == TypeOK /\ TriggerInv /\ [Next]_vars => TriggerInv'
<1> SUFFICES ASSUME TypeOK, TriggerInv, [Next]_vars PROVE TriggerInv'
  OBVIOUS
<1>1. CASE Handler
  <2>1. UNCHANGED <<eventsBuffer, restarting>>
    BY <1>1 DEF Handler, AddTarget, RemoveTarget, RemoveAllTargets, UpdateTarget,
                Start, Stop
  <2>2. \A l \in Loops : loop'[l] = loop[l] \/ loop'[l].pc # "restart"
    <3>1. ASSUME UNCHANGED loop PROVE <2>2!:
      BY <3>1
    <3>2. ASSUME NEW k \in Loops, Start(k) PROVE <2>2!:
      BY <3>2 DEF Start, Frame, TypeOK
    <3>3. CASE Stop
      BY <3>3 DEF Stop, Frame
    <3> QED
      BY <1>1, <3>1, <3>2, <3>3
      DEF Handler, AddTarget, RemoveTarget, RemoveAllTargets, UpdateTarget
  <2> QED
    BY <2>1, <2>2, TriggerKept
<1>2. CASE \E l \in Loops : LoopStep(l)
  BY <1>2, TriggerOtherSteps, TriggerAlarm, TriggerTryRestart
  DEF LoopStep, CollectOne
<1>3. CASE \E r \in restarting : RunRestart(r)
  BY <1>3, TriggerRunRestart
<1>4. CASE Environment \/ UNCHANGED vars
  <2>1. UNCHANGED <<eventsBuffer, restarting, loop>>
    BY <1>4 DEF Environment, ProcExits, ProcAppears, Clock, vars
  <2> QED
    BY <2>1, TriggerKept
<1> QED
  BY <1>1, <1>2, <1>3, <1>4 DEF Next

LEMMA TriggerInit == Init => TriggerInv
<1> SUFFICES ASSUME Init PROVE TriggerInv
  OBVIOUS
<1>1. IsFiniteSet(restarting)
  BY FS_EmptySet DEF Init
<1>2. ASSUME NEW p \in PIDs
      PROVE  RestartsOf(p) <= Events(p, Resources \cup {"exit"})
  <2>1. \A types : EventsOf(p, types) = {}
    BY DEF Init, EventsOf
  <2>2. Underway(p) = {} /\ Deciding(p) = {}
    BY DEF Init, Underway, Deciding, Frame
  <2>3. \A types : Events(p, types) = 0
    BY <2>1, FS_EmptySet DEF Events, EventsOf
  <2>4. RestartsOf(p) = 0
    BY <2>2, <2>3, RestartsCounted, FS_EmptySet
  <2> QED
    BY <2>3, <2>4
<1> QED
  BY <1>1, <1>2 DEF TriggerInv, RestartsHaveTriggers

\* However many goroutines sample and restart at once, and whatever is removed
\* or updated meanwhile, no restart is decided without an exit or an alarm of
\* its own that was announced before.
THEOREM RestartsAreAnnounced == Spec => []RestartsHaveTriggers
<1>1. TriggerInv => RestartsHaveTriggers
  BY DEF TriggerInv
<1> QED
  BY <1>1, TypeCorrect, TriggerInit, TriggerNext, PTL DEF Spec

------------------------------------------------------------------------------
\* What one goroutine at a time in collectOne leaves in a cell.  The alarm,
\* the exit report and the latest sample each relate several critical
\* sections of collectOne; they hold as long as no two goroutines are in
\* collectOne at once (after a Stop that a working goroutine missed, and a
\* Start, two of them can be).

OneCollector ==
    \A k, l \in Loops :
        loop[k].pc \in Collecting /\ loop[l].pc \in Collecting => k = l

Last(ring) == ring[Len(ring)]

\* The newest sample is stored twice, in the ring first.
LatestOK(f, s) ==
    IF f.pc = "latest" THEN s.metrics # <<>> /\ Last(s.metrics) = f.metric
    ELSE IF s.metrics = <<>> THEN s.lastMetric = Nil
    ELSE s.lastMetric = Last(s.metrics)

\* exitReported is the latch of the dead samples at the end of the ring: the
\* first of them reports the exit, those after it find the latch set.
Latched(s) == s.metrics # <<>> /\ ~Last(s.metrics).alive => s.exitReported
FirstDead(ring) == Len(ring) > 1 => ring[Len(ring) - 1].alive
LatchOK(f, s) ==
    /\ f.pc \in Idle \cup {"probe"} => Latched(s)
    /\ f.pc \in {"alive", "check", "alarm", "clear"} => f.metric.alive
    /\ f.pc = "push" /\ ~f.metric.alive => Latched(s)
    /\ f.pc = "latest" /\ ~f.metric.alive =>
          FirstDead(s.metrics) \/ s.exitReported
    /\ f.pc \in {"report", "exit"} => ~f.metric.alive /\ FirstDead(s.metrics)
    /\ f.pc = "exit" \/ (f.pc = "restart" /\ ~f.metric.alive) => s.exitReported

\* The live sample of f is counted for r, and not stored yet.
Counted(f, r) ==
    \/ f.pc = "check" /\ f.res = "mem" /\ r = "cpu"
    \/ f.pc \in {"alarm", "clear"} /\ (f.res = r \/ r = "cpu")
    \/ f.pc = "restart" /\ f.metric.alive /\ (f.res = r \/ r = "cpu")
    \/ f.pc = "push" /\ f.metric.alive

\* A counter counts live samples over their threshold without a gap: the one in
\* hand, and stored ones after the last that was within its threshold.
CountOK(f, s) ==
    \A r \in Resources :
        /\ \A i \in DOMAIN s.metrics :
              s.metrics[i].alive /\ ~Exceeds(s.metrics[i], r) =>
                  s.exceedCnt[r] <= Cardinality(LiveAfter(s.metrics, i))
                                    + (IF Counted(f, r) THEN 1 ELSE 0)
        /\ Counted(f, r) /\ ~Exceeds(f.metric, r) => s.exceedCnt[r] = 0
        /\ f.pc = "alarm" /\ f.res = r =>
              s.exceedCnt[r] >= ExceedLimit(f.target, r)

CellOK(f, s) ==
    /\ f.pc \in {"probe", "alive"} => f.res = "cpu"
    /\ LatestOK(f, s)
    /\ LatchOK(f, s)
    /\ CountOK(f, s)

Holds(l, o) == loop[l].pc \in Collecting /\ loop[l].state = o
Nobody == Frame("none", {})
SampleInv ==
    \A o \in Objs : heap[o] # Nil =>
        /\ \A l \in Loops : Holds(l, o) => CellOK(loop[l], heap[o])
        /\ (\A l \in Loops : ~Holds(l, o)) => CellOK(Nobody, heap[o])

------------------------------------------------------------------------------
\* The counts.

LEMMA LiveAfterIsFinite ==
    ASSUME NEW ring \in Seq(Metric), NEW i
    PROVE  /\ IsFiniteSet(LiveAfter(ring, i))
           /\ Cardinality(LiveAfter(ring, i)) \in Nat
<1>1. IsFiniteSet(1 .. Len(ring))
  BY FS_Interval
<1>2. LiveAfter(ring, i) \in SUBSET (1 .. Len(ring))
  BY DEF LiveAfter
<1>3. IsFiniteSet(LiveAfter(ring, i))
  BY <1>1, <1>2, FS_Subset
<1> QED
  BY <1>3, FS_CardinalityType

\* A sample that stays stored has as many live ones after it as before, and
\* one more when the new one is live.
LEMMA LiveAfterPush ==
    ASSUME NEW ring \in Seq(Metric), NEW m \in Metric, NEW d \in {0, 1},
           NEW t \in Seq(Metric), Shifted(t, ring, m, d),
           NEW i \in 1 .. Len(t) - 1
    PROVE  Cardinality(LiveAfter(ring, i + d)) + (IF m.alive THEN 1 ELSE 0)
             <= Cardinality(LiveAfter(t, i))
<1> USE DEF Shifted
<1> DEFINE old == LiveAfter(ring, i + d)
           new == LiveAfter(t, i)
           kept == new \ {Len(t)}
           f == [j \in old |-> j - d]
<1>1. /\ IsFiniteSet(old) /\ Cardinality(old) \in Nat
      /\ IsFiniteSet(new) /\ Cardinality(new) \in Nat
  BY LiveAfterIsFinite
<1>2. f \in Injection(old, kept)
  <2>1. ASSUME NEW j \in old PROVE j - d \in kept
    <3>1. /\ j \in 1 .. Len(ring) /\ j > i + d /\ ring[j].alive
      BY DEF LiveAfter
    <3>2. j - d \in 1 .. Len(ring) - d /\ (j - d) + d = j
      BY <3>1
    <3>3. t[j - d] = ring[j]
      BY <3>2
    <3>4. j - d \in DOMAIN t /\ j - d > i /\ j - d # Len(t)
      BY <3>1, <3>2
    <3> QED
      BY <3>1, <3>3, <3>4 DEF LiveAfter
  <2>2. \A j, k \in old : j - d = k - d => j = k
    BY DEF LiveAfter
  <2> HIDE DEF old, new, kept
  <2> QED
    BY <2>1, <2>2 DEF Injection, IsInjective
<1>3. IsFiniteSet(kept) /\ Cardinality(kept) =
         IF Len(t) \in new THEN Cardinality(new) - 1 ELSE Cardinality(new)
  BY <1>1, FS_RemoveElement
<1>4. Len(t) \in new <=> m.alive
  BY DEF LiveAfter
<1> HIDE DEF old, new, kept, f
<1>5. Cardinality(old) <= Cardinality(kept)
  BY <1>2, <1>3, FS_Injection
<1> QED
  BY <1>1, <1>3, <1>4, <1>5 DEF old, new

------------------------------------------------------------------------------
\* Which cells a step concerns.

\* t holds the samples, the counters and the latch of s.
SameSamples(s, t) ==
    /\ t.metrics = s.metrics /\ t.lastMetric = s.lastMetric
    /\ t.exitReported = s.exitReported /\ t.exceedCnt = s.exceedCnt
Untouched(o) ==
    heap'[o] # Nil => heap[o] # Nil /\ SameSamples(heap[o], heap'[o])

LEMMA SameCell ==
    ASSUME NEW f, NEW s, NEW t, SameSamples(s, t), CellOK(f, s)
    PROVE  CellOK(f, t)
  BY DEF SameSamples, CellOK, LatestOK, LatchOK, Latched, CountOK

\* A goroutine that has not probed yet finds the cell as nobody left it.
LEMMA UnprobedCell ==
    ASSUME NEW f, NEW g, NEW s,
           f.pc \in Idle \cup {"probe"}, g.pc \in Idle \cup {"probe"},
           g.pc = "probe" => g.res = "cpu", CellOK(f, s)
    PROVE  CellOK(g, s)
<1>1. /\ f.pc \notin {"alive", "check", "alarm", "restart", "clear", "push",
                      "latest", "report", "exit"}
      /\ g.pc \notin {"alive", "check", "alarm", "restart", "clear", "push",
                      "latest", "report", "exit"}
  BY DEF Idle
<1>2. \A r : ~Counted(f, r) /\ ~Counted(g, r)
  BY <1>1 DEF Counted
<1>3. LatestOK(g, s) /\ LatchOK(g, s)
  BY <1>1 DEF CellOK, LatestOK, LatchOK
<1>4. CountOK(g, s)
  BY <1>1, <1>2 DEF CellOK, CountOK
<1> QED
  BY <1>1, <1>3, <1>4 DEF CellOK

LEMMA NobodyIsIdle == Nobody.pc = "none" /\ "none" \in Idle
                      /\ Idle \cap Collecting = {}
  BY DEF Nobody, Frame, Idle, Collecting

\* Nothing happens to the samples, and nobody enters or leaves collectOne.
LEMMA SampleFrame ==
    ASSUME SampleInv, \A o \in Objs : Untouched(o),
           \A l \in Loops : \/ loop'[l] = loop[l]
                            \/ loop[l].pc \in Idle /\ loop'[l].pc \in Idle
    PROVE  SampleInv'
<1> SUFFICES ASSUME NEW o \in Objs, heap'[o] # Nil
             PROVE  /\ \A l \in Loops : Holds(l, o)' => CellOK(loop'[l], heap'[o])
                    /\ (\A l \in Loops : ~Holds(l, o)')
                         => CellOK(Nobody, heap'[o])
  BY DEF SampleInv, Nobody, Frame
<1>1. heap[o] # Nil /\ SameSamples(heap[o], heap'[o])
  BY DEF Untouched
<1>2. \A l \in Loops : Holds(l, o)' <=> Holds(l, o)
  BY NobodyIsIdle DEF Holds
<1>3. \A l \in Loops : Holds(l, o) => loop'[l] = loop[l]
  BY NobodyIsIdle DEF Holds
<1> QED
  BY <1>1, <1>2, <1>3, SameCell DEF SampleInv

\* The goroutine in collectOne makes a step: only the cell it holds matters.
LEMMA SampleMove ==
    ASSUME TypeOK, OneCollector, SampleInv,
           NEW l \in Loops, loop[l].pc \in Collecting,
           NEW g, loop' = [loop EXCEPT ![l] = g],
           g.pc \in Idle \/ (g.pc \in Collecting /\ g.state = loop[l].state),
           \A o \in Objs \ {loop[l].state} : Untouched(o),
           CellOK(loop[l], heap[loop[l].state])
               => CellOK(g, heap'[loop[l].state])
    PROVE  SampleInv'
<1>1. /\ loop'[l] = g
      /\ \A k \in Loops \ {l} : loop'[k] = loop[k] /\ loop[k].pc \notin Collecting
  BY DEF TypeOK, OneCollector
<1>2. loop[l].state \in Objs /\ heap[loop[l].state] # Nil
  BY HeldCell, NilAssumption
<1>3. CellOK(g, heap'[loop[l].state])
  BY <1>2 DEF SampleInv, Holds
<1> SUFFICES ASSUME NEW o \in Objs, heap'[o] # Nil
             PROVE  /\ \A k \in Loops : Holds(k, o)' => CellOK(loop'[k], heap'[o])
                    /\ (\A k \in Loops : ~Holds(k, o)')
                         => CellOK(Nobody, heap'[o])
  BY DEF SampleInv, Nobody, Frame
<1>4. CASE o = loop[l].state
  <2>1. \A k \in Loops : Holds(k, o)' => CellOK(loop'[k], heap'[o])
    BY <1>1, <1>3, <1>4 DEF Holds
  <2>2. ASSUME \A k \in Loops : ~Holds(k, o)'
        PROVE  CellOK(Nobody, heap'[o])
    <3>1. g.pc \in Idle
      BY <1>1, <1>4, <2>2 DEF Holds
    <3> QED
      BY <1>3, <1>4, <3>1, NobodyIsIdle, UnprobedCell
  <2> QED
    BY <2>1, <2>2
<1>5. CASE o # loop[l].state
  <2>1. \A k \in Loops : ~Holds(k, o) /\ ~Holds(k, o)'
    BY <1>1, <1>5, NobodyIsIdle DEF Holds
  <2>2. heap[o] # Nil /\ SameSamples(heap[o], heap'[o])
    BY <1>5 DEF Untouched
  <2>3. CellOK(Nobody, heap[o])
    BY <2>1, <2>2 DEF SampleInv
  <2> QED
    BY <2>1, <2>2, <2>3, SameCell
<1> QED
  BY <1>4, <1>5

LEMMA SampleLookup ==
    ASSUME TypeOK, OneCollector', SampleInv,
           NEW l \in Loops, NEW p \in loop[l].todo, Lookup(l, p)
    PROVE  SampleInv'
<1> DEFINE left == loop[l].todo \ {p}
           g == IF targets[p] = Nil THEN Frame("next", left)
                ELSE Entered(p, left)
<1>1. /\ loop' = [loop EXCEPT ![l] = g] /\ heap' = heap
      /\ loop[l].pc \in Idle
  BY DEF Lookup, Idle
<1>2. /\ loop'[l] = g
      /\ \A k \in Loops \ {l} : loop'[k] = loop[k]
      /\ \A o \in Objs : Untouched(o)
  BY <1>1 DEF TypeOK, Untouched, SameSamples
<1>3. CASE targets[p] = Nil
  <2>1. g.pc \in Idle
    BY <1>3 DEF Frame, Idle
  <2> QED
    BY <1>1, <1>2, <2>1, SampleFrame
<1>4. CASE targets[p] # Nil
  <2>1. g.pc = "probe" /\ g.res = "cpu" /\ "probe" \in Collecting
    BY <1>4 DEF Entered, Collecting
  <2>2. \A k \in Loops : loop[k].pc \notin Collecting
    BY <1>1, <1>2, <2>1, NobodyIsIdle DEF OneCollector
  <2> HIDE DEF g
  <2> SUFFICES ASSUME NEW o \in Objs, heap'[o] # Nil
               PROVE  /\ \A k \in Loops : Holds(k, o)' => CellOK(loop'[k], heap'[o])
                      /\ (\A k \in Loops : ~Holds(k, o)')
                           => CellOK(Nobody, heap'[o])
    BY DEF SampleInv, Nobody, Frame
  <2>3. CellOK(Nobody, heap[o])
    BY <1>1, <2>2 DEF SampleInv, Holds
  <2>4. CellOK(g, heap[o])
    BY <2>1, <2>3, NobodyIsIdle, UnprobedCell
  <2> QED
    BY <1>1, <1>2, <2>2, <2>3, <2>4 DEF Holds
<1> QED
  BY <1>3, <1>4

\* A new registration has its first sample, if any, in both places.
LEMMA NewCell ==
    ASSUME NEW c \in Configs,
           NEW m \in {Sampled(d, c) : d \in Samples} \cup {Nil}
    PROVE  CellOK(Nobody, NewState(c, m))
<1> DEFINE s == NewState(c, m)
<1>2. m # Nil => m.alive
  BY DEF Sampled
<1>3. /\ s.metrics = IF m = Nil THEN <<>> ELSE <<m>>
      /\ s.lastMetric = m /\ s.exitReported = FALSE
      /\ \A r \in Resources : s.exceedCnt[r] = 0
  BY DEF NewState
<1>4. s \in State
  BY NewStateType
<1>5. \A i : Cardinality(LiveAfter(s.metrics, i)) \in Nat
  BY <1>4, LiveAfterIsFinite DEF State
<1> HIDE DEF s
<1>6. \A r : ~Counted(Nobody, r)
  BY DEF Counted, Nobody, Frame
<1>7. LatestOK(Nobody, s)
  BY <1>3 DEF LatestOK, Last, Nobody, Frame
<1>8. LatchOK(Nobody, s)
  BY <1>2, <1>3 DEF LatchOK, Latched, Last, Nobody, Frame
<1>9. CountOK(Nobody, s)
  BY <1>3, <1>5, <1>6 DEF CountOK, Nobody, Frame
<1> QED
  BY <1>7, <1>8, <1>9 DEF CellOK, Nobody, Frame, s

LEMMA SampleAddTarget ==
    ASSUME TypeOK, SampleInv,
           NEW p \in PIDs, NEW c \in Configs, NEW o \in Objs, AddTarget(p, c, o)
    PROVE  SampleInv'
<1>1. PICK m \in {Sampled(d, c) : d \in Samples} \cup {Nil} :
          heap' = [heap EXCEPT ![o] = NewState(c, m)]
  BY DEF AddTarget
<1>2. CellOK(Nobody, NewState(c, m))
  BY NewCell
<1>3. loop' = loop /\ \A l \in Loops : loop[l].state # o
  BY DEF AddTarget, InUse
<1> SUFFICES ASSUME NEW k \in Objs, heap'[k] # Nil
             PROVE  /\ \A l \in Loops : Holds(l, k)' => CellOK(loop'[l], heap'[k])
                    /\ (\A l \in Loops : ~Holds(l, k)')
                         => CellOK(Nobody, heap'[k])
  BY DEF SampleInv, Nobody, Frame
<1>4. CASE k = o
  <2>1. heap'[k] = NewState(c, m)
    BY <1>1, <1>4 DEF TypeOK
  <2> QED
    BY <1>2, <1>3, <1>4, <2>1 DEF Holds
<1>5. CASE k # o
  <2>1. heap'[k] = heap[k]
    BY <1>1, <1>5 DEF TypeOK
  <2> QED
    BY <1>3, <2>1 DEF Holds, SampleInv
<1> QED
  BY <1>4, <1>5

\* An update replaces the configuration of a cell and nothing else in it.
LEMMA UpdateIsUntouched ==
    ASSUME TypeOK, NEW p \in PIDs, NEW c \in Configs, UpdateTarget(p, c)
    PROVE  \A o \in Objs : Untouched(o)
<1>1. heap[targets[p]] \in State /\ targets[p] \in Objs
  BY RegisteredCell DEF UpdateTarget
<1>2. heap' = [heap EXCEPT ![targets[p]] = [heap[targets[p]] EXCEPT !.target = c]]
  BY <1>1 DEF UpdateTarget, TypeOK
<1>3. heap[targets[p]] # Nil
  BY <1>1, NilAssumption
<1>4. SameSamples(heap[targets[p]], [heap[targets[p]] EXCEPT !.target = c])
  BY <1>1 DEF SameSamples, State
<1>5. \A o \in Objs : heap'[o] = IF o = targets[p]
                                 THEN [heap[targets[p]] EXCEPT !.target = c]
                                 ELSE heap[o]
  BY <1>1, <1>2 DEF TypeOK
<1> QED
  BY <1>3, <1>4, <1>5 DEF Untouched, SameSamples

\* The handlers, the goroutines that wait and the environment.
LEMMA SampleHandler ==
    ASSUME TypeOK, SampleInv, Handler
    PROVE  SampleInv'
<1>1. CASE \E p \in PIDs, c \in Configs, o \in Objs : AddTarget(p, c, o)
  BY <1>1, SampleAddTarget
<1>2. CASE (\E p \in PIDs : RemoveTarget(p)) \/ RemoveAllTargets
  <2>1. heap' = heap /\ loop' = loop
    BY <1>2 DEF RemoveTarget, RemoveAllTargets
  <2> QED
    BY <2>1, SampleFrame DEF Untouched, SameSamples
<1>3. CASE \E p \in PIDs, c \in Configs : UpdateTarget(p, c)
  <2>1. loop' = loop
    BY <1>3 DEF UpdateTarget
  <2> QED
    BY <1>3, <2>1, UpdateIsUntouched, SampleFrame
<1>4. CASE (\E l \in Loops : Start(l)) \/ Stop
  <2>1. heap' = heap
    BY <1>4 DEF Start, Stop
  <2>2. ASSUME NEW l \in Loops
        PROVE  \/ loop'[l] = loop[l]
               \/ loop[l].pc \in Idle /\ loop'[l].pc \in Idle
    <3>1. CASE \E k \in Loops : Start(k)
      BY <3>1 DEF Start, Frame, Idle, TypeOK
    <3>2. CASE Stop
      BY <3>2 DEF Stop, Frame, Idle
    <3> QED
      BY <1>4, <3>1, <3>2
  <2> QED
    BY <2>1, <2>2, SampleFrame DEF Untouched, SameSamples
<1> QED
  BY <1>1, <1>2, <1>3, <1>4 DEF Handler

LEMMA SampleWait ==
    ASSUME TypeOK, SampleInv, NEW l \in Loops,
           EnterSelect(l) \/ StopReceived(l) \/ TickerFires(l) \/ CollectAll(l)
    PROVE  SampleInv'
<1>1. heap' = heap
  BY DEF EnterSelect, StopReceived, TickerFires, CollectAll
<1>2. \A k \in Loops : \/ loop'[k] = loop[k]
                       \/ loop[k].pc \in Idle /\ loop'[k].pc \in Idle
  BY DEF EnterSelect, StopReceived, TickerFires, CollectAll, Frame, Idle, TypeOK
<1> QED
  BY <1>1, <1>2, SampleFrame DEF Untouched, SameSamples

LEMMA SampleOthers ==
    ASSUME TypeOK, SampleInv,
           (\E r \in restarting : RunRestart(r)) \/ Environment \/ UNCHANGED vars
    PROVE  SampleInv'
<1>1. heap' = heap /\ loop' = loop
  BY DEF RunRestart, Environment, ProcExits, ProcAppears, Clock, vars
<1> QED
  BY <1>1, SampleFrame DEF Untouched, SameSamples

\* A step of collectOne moves to frame g and stores t in the cell held.
LEMMA SampleStore ==
    ASSUME TypeOK, OneCollector, SampleInv,
           NEW l \in Loops, loop[l].pc \in Collecting,
           NEW g, loop' = [loop EXCEPT ![l] = g],
           g.pc \in Idle \/ (g.pc \in Collecting /\ g.state = loop[l].state),
           NEW t, heap' = [heap EXCEPT ![loop[l].state] = t],
           CellOK(loop[l], heap[loop[l].state]) => CellOK(g, t)
    PROVE  SampleInv'
<1>1. heap'[loop[l].state] = t
  BY HeldCell DEF TypeOK
<1>2. \A o \in Objs \ {loop[l].state} : Untouched(o)
  BY DEF TypeOK, Untouched, SameSamples
<1> QED
  BY <1>1, <1>2, SampleMove

\* A step of collectOne that leaves every cell alone.
LEMMA SampleGoto ==
    ASSUME TypeOK, OneCollector, SampleInv,
           NEW l \in Loops, loop[l].pc \in Collecting,
           NEW g, loop' = [loop EXCEPT ![l] = g],
           g.pc \in Idle \/ (g.pc \in Collecting /\ g.state = loop[l].state),
           heap' = heap,
           CellOK(loop[l], heap[loop[l].state])
               => CellOK(g, heap[loop[l].state])
    PROVE  SampleInv'
<1>1. \A o \in Objs : Untouched(o)
  BY DEF Untouched, SameSamples
<1> QED
  BY <1>1, SampleMove

------------------------------------------------------------------------------
\* What each step of collectOne makes of the cell held.

LEMMA ProbedCell ==
    ASSUME NEW f \in FrameType, NEW s, CellOK(f, s), f.pc = "probe",
           NEW m \in Metric, NEW pc,
           (pc = "alive" /\ m.alive) \/ (pc = "push" /\ ~m.alive)
    PROVE  CellOK([f EXCEPT !.metric = m, !.pc = pc], s)
<1> DEFINE g == [f EXCEPT !.metric = m, !.pc = pc]
<1>1. g.metric = m /\ g.pc = pc /\ g.res = f.res
  BY DEF FrameType
<1> HIDE DEF g
<1>2. f.res = "cpu" /\ LatestOK(g, s)
  BY <1>1 DEF CellOK, LatestOK
<1>3. LatchOK(g, s)
  BY <1>1 DEF CellOK, LatchOK, Idle
<1>4. \A r : ~Counted(f, r) /\ ~Counted(g, r)
  BY <1>1 DEF Counted
<1>5. CountOK(g, s)
  BY <1>1, <1>4 DEF CellOK, CountOK
<1> QED
  BY <1>1, <1>2, <1>3, <1>5 DEF CellOK, g

LEMMA MarkedCell ==
    ASSUME NEW f \in FrameType, NEW s \in State, CellOK(f, s), f.pc = "alive"
    PROVE  CellOK([f EXCEPT !.pc = "check"], [s EXCEPT !.exitReported = FALSE])
<1> DEFINE g == [f EXCEPT !.pc = "check"]
           t == [s EXCEPT !.exitReported = FALSE]
<1>1. /\ g.metric = f.metric /\ g.pc = "check" /\ g.res = f.res
      /\ t.metrics = s.metrics /\ t.lastMetric = s.lastMetric
      /\ t.exceedCnt = s.exceedCnt
  BY DEF FrameType, State
<1> HIDE DEF g, t
<1>2. f.res = "cpu" /\ LatestOK(g, t)
  BY <1>1 DEF CellOK, LatestOK
<1>3. LatchOK(g, t)
  BY <1>1 DEF CellOK, LatchOK, Idle
<1>4. \A r : ~Counted(f, r) /\ ~Counted(g, r)
  BY <1>1, <1>2 DEF Counted
<1>5. CountOK(g, t)
  BY <1>1, <1>4 DEF CellOK, CountOK
<1> QED
  BY <1>1, <1>2, <1>3, <1>5 DEF CellOK, g, t

\* The check of a resource counts the sample for it, or restarts its count.
LEMMA CountStep ==
    ASSUME NEW f \in FrameType, FrameOK(f), NEW s \in State,
           CellOK(f, s), f.pc \in {"check", "clear"}, NEW n \in Nat,
           \/ n = 0
           \/ f.pc = "check" /\ OverLimit(f) /\ n = s.exceedCnt[f.res] + 1,
           NEW g,
           \/ g = AfterResource(f)
           \/ /\ g = [f EXCEPT !.pc = "alarm"] /\ f.pc = "check"
              /\ n >= ExceedLimit(f.target, f.res)
    PROVE  CountOK(g, [s EXCEPT !.exceedCnt[f.res] = n])
<1> DEFINE t == [s EXCEPT !.exceedCnt[f.res] = n]
<1>1. /\ f.metric.alive /\ f.metric \in Metric /\ f.target \in Configs
      /\ f.res \in Resources
  BY DEF CellOK, LatchOK, FrameOK, FrameType, Collecting
<1>2. /\ t.metrics = s.metrics /\ s.metrics \in Seq(Metric)
      /\ s.exceedCnt \in [Resources -> Nat]
      /\ t.exceedCnt = [s.exceedCnt EXCEPT ![f.res] = n]
  BY DEF State
<1>3. /\ g.metric = f.metric /\ g.target = f.target
      /\ g.pc \in {"check", "push", "alarm"}
      /\ g.pc = "alarm" => /\ g.res = f.res /\ f.pc = "check"
                           /\ n >= ExceedLimit(f.target, f.res)
      /\ g.pc = "check" => g.res = "mem" /\ f.res = "cpu"
      /\ g.pc = "push" => f.res # "cpu"
  BY DEF AfterResource, FrameType
<1> HIDE DEF t
<1> SUFFICES ASSUME NEW r \in Resources
             PROVE  /\ \A i \in DOMAIN t.metrics :
                          t.metrics[i].alive /\ ~Exceeds(t.metrics[i], r) =>
                              t.exceedCnt[r] <=
                                  Cardinality(LiveAfter(t.metrics, i))
                                  + (IF Counted(g, r) THEN 1 ELSE 0)
                    /\ Counted(g, r) /\ ~Exceeds(g.metric, r) => t.exceedCnt[r] = 0
                    /\ g.pc = "alarm" /\ g.res = r =>
                          t.exceedCnt[r] >= ExceedLimit(g.target, r)
  BY DEF CountOK, t
<1>4. CountOK(f, s)
  BY DEF CellOK
<1>5. \A i : Cardinality(LiveAfter(s.metrics, i)) \in Nat
  BY <1>2, LiveAfterIsFinite
<1>6. CASE r = f.res
  <2>1. Counted(g, r) /\ t.exceedCnt[r] = n
    BY <1>1, <1>2, <1>3, <1>6 DEF Counted, Resources
  <2>2. CASE n = 0
    BY <1>2, <1>3, <1>5, <1>6, <2>1, <2>2
  <2>3. CASE f.pc = "check" /\ OverLimit(f) /\ n = s.exceedCnt[f.res] + 1
    <3>1. ~Counted(f, r)
      BY <1>6, <2>3 DEF Counted
    <3>2. Exceeds(g.metric, r)
      <4>1. f.metric.limit = f.target.Threshold
        BY <1>1, <2>3 DEF FrameOK, Collecting
      <4> QED
        BY <1>3, <1>6, <2>3, <4>1 DEF OverLimit, Exceeds
    <3>3. ASSUME NEW i \in DOMAIN s.metrics, s.metrics[i].alive,
                 ~Exceeds(s.metrics[i], r)
          PROVE  n <= Cardinality(LiveAfter(s.metrics, i)) + 1
      <4>1. s.exceedCnt[r] <= Cardinality(LiveAfter(s.metrics, i)) + 0
        BY <1>4, <3>1, <3>3 DEF CountOK
      <4>2. s.exceedCnt[r] \in Nat
        BY <1>2
      <4> QED
        BY <1>5, <1>6, <2>3, <4>1, <4>2
    <3> QED
      BY <1>2, <1>3, <1>6, <2>1, <3>2, <3>3
  <2> QED
    BY <2>2, <2>3
<1>7. CASE r # f.res
  <2>1. t.exceedCnt[r] = s.exceedCnt[r]
    BY <1>2, <1>7
  <2>2. Counted(g, r) <=> Counted(f, r)
    BY <1>1, <1>3, <1>7 DEF Counted, Resources
  <2> QED
    BY <1>2, <1>3, <1>4, <1>7, <2>1, <2>2 DEF CountOK
<1> QED
  BY <1>6, <1>7

LEMMA CheckedCell ==
    ASSUME NEW f \in FrameType, FrameOK(f), NEW s \in State,
           CellOK(f, s), f.pc \in {"check", "clear"}, NEW n \in Nat,
           \/ n = 0
           \/ f.pc = "check" /\ OverLimit(f) /\ n = s.exceedCnt[f.res] + 1,
           NEW g,
           \/ g = AfterResource(f)
           \/ /\ g = [f EXCEPT !.pc = "alarm"] /\ f.pc = "check"
              /\ n >= ExceedLimit(f.target, f.res)
    PROVE  CellOK(g, [s EXCEPT !.exceedCnt[f.res] = n])
<1> DEFINE t == [s EXCEPT !.exceedCnt[f.res] = n]
<1>1. /\ g.metric = f.metric /\ g.pc \in {"check", "push", "alarm"}
      /\ t.metrics = s.metrics /\ t.lastMetric = s.lastMetric
      /\ t.exitReported = s.exitReported
  BY DEF AfterResource, FrameType, State
<1>2. f.metric.alive
  BY DEF CellOK, LatchOK
<1>3. CountOK(g, t)
  BY CountStep
<1> HIDE DEF t
<1>4. LatestOK(g, t) /\ LatchOK(g, t)
  BY <1>1, <1>2 DEF CellOK, LatestOK, LatchOK, Idle
<1> QED
  BY <1>1, <1>3, <1>4 DEF CellOK, t

LEMMA AlarmedCell ==
    ASSUME NEW f \in FrameType, NEW s, CellOK(f, s), f.pc = "alarm",
           NEW pc \in {"restart", "clear"}
    PROVE  CellOK([f EXCEPT !.pc = pc], s)
<1> DEFINE g == [f EXCEPT !.pc = pc]
<1>1. /\ g.metric = f.metric /\ g.pc = pc /\ g.res = f.res
      /\ f.metric.alive
  BY DEF FrameType, CellOK, LatchOK
<1> HIDE DEF g
<1>2. LatestOK(g, s) /\ LatchOK(g, s)
  BY <1>1 DEF CellOK, LatestOK, LatchOK, Idle
<1>3. \A r : Counted(f, r) <=> Counted(g, r)
  BY <1>1 DEF Counted
<1>4. CountOK(g, s)
  BY <1>1, <1>3 DEF CellOK, CountOK
<1> QED
  BY <1>1, <1>2, <1>4 DEF CellOK, g

\* A push takes the sample in hand into the count of those stored.
LEMMA PushedCell ==
    ASSUME NEW f \in FrameType, FrameOK(f), NEW s \in State, CellOK(f, s),
           f.pc = "push"
    PROVE  CellOK([f EXCEPT !.pc = "latest"],
                  [s EXCEPT !.metrics =
                       PushRecent(s.metrics, f.metric, MetricsBufferLen)])
<1> DEFINE ring == s.metrics
           new == PushRecent(ring, f.metric, MetricsBufferLen)
           g == [f EXCEPT !.pc = "latest"]
           t == [s EXCEPT !.metrics = new]
           d == IF Len(ring) < MetricsBufferLen THEN 0 ELSE 1
<1>1. ring \in Seq(Metric) /\ f.metric \in Metric
  BY DEF State, FrameOK, Collecting
<1>2. new \in Seq(Metric) /\ Shifted(new, ring, f.metric, d)
  <2>1. new \in Seq(Metric)
    BY <1>1, PushRecentType, BoundAssumption
  <2>2. Shifted(new, ring, f.metric, d)
    BY <1>1, PushRecentItems, BoundAssumption
  <2> QED
    BY <2>1, <2>2
<1>3. /\ g.metric = f.metric /\ g.pc = "latest"
      /\ t.metrics = new /\ t.exitReported = s.exitReported
      /\ t.exceedCnt = s.exceedCnt /\ s.exceedCnt \in [Resources -> Nat]
  BY DEF FrameType, State
<1>4. d \in {0, 1}
  OBVIOUS
<1> HIDE DEF new, g, t, d
<1>5. LatestOK(g, t)
  BY <1>2, <1>3 DEF LatestOK, Last, Shifted
<1>6. LatchOK(g, t)
  <2>1. ASSUME ~f.metric.alive, Len(new) > 1, ~new[Len(new) - 1].alive
        PROVE  s.exitReported
    <3>1. Len(ring) > 0 /\ new[Len(new) - 1] = ring[Len(ring)]
      BY <1>1, <1>2, <1>4, <2>1 DEF Shifted
    <3>2. Latched(s)
      BY <2>1 DEF CellOK, LatchOK
    <3> QED
      BY <1>1, <2>1, <3>1, <3>2 DEF Latched, Last
  <2> QED
    BY <1>3, <2>1 DEF LatchOK, FirstDead, Idle
<1>7. CountOK(g, t)
  <2>1. CountOK(f, s)
    BY DEF CellOK
  <2>2. \A r : ~Counted(g, r) /\ (Counted(f, r) <=> f.metric.alive)
    BY <1>3 DEF Counted
  <2>3. \A i : /\ Cardinality(LiveAfter(ring, i)) \in Nat
               /\ Cardinality(LiveAfter(new, i)) \in Nat
    BY <1>1, <1>2, LiveAfterIsFinite
  <2>4. ASSUME NEW r \in Resources, NEW i \in DOMAIN new, new[i].alive,
               ~Exceeds(new[i], r)
        PROVE  s.exceedCnt[r] <= Cardinality(LiveAfter(new, i))
    <3>1. s.exceedCnt[r] \in Nat
      BY <1>3
    <3>2. CASE i = Len(new)
      <4>1. s.exceedCnt[r] = 0
        BY <1>2, <2>1, <2>2, <2>4, <3>2 DEF CountOK, Shifted
      <4> QED
        BY <2>3, <4>1
    <3>3. CASE i # Len(new)
      <4>1. i \in 1 .. Len(new) - 1 /\ i + d \in DOMAIN ring
            /\ new[i] = ring[i + d]
        <5>1. i \in 1 .. Len(new) - 1
          BY <1>2, <3>3
        <5>2. i + d \in 1 .. Len(ring) /\ new[i] = ring[i + d]
          BY <1>1, <1>2, <1>4, <5>1 DEF Shifted
        <5> QED
          BY <1>1, <5>1, <5>2
      <4>2. s.exceedCnt[r] <= Cardinality(LiveAfter(ring, i + d))
                              + (IF f.metric.alive THEN 1 ELSE 0)
        BY <2>1, <2>2, <2>4, <4>1 DEF CountOK
      <4>3. Cardinality(LiveAfter(ring, i + d))
              + (IF f.metric.alive THEN 1 ELSE 0)
              <= Cardinality(LiveAfter(new, i))
        BY <1>1, <1>2, <1>4, <4>1, LiveAfterPush
      <4> QED
        BY <2>3, <3>1, <4>2, <4>3
    <3> QED
      BY <3>2, <3>3
  <2>5. \A r \in Resources : s.exceedCnt[r] \in Nat
    BY <1>3
  <2> QED
    BY <1>3, <2>2, <2>3, <2>4, <2>5 DEF CountOK
<1> QED
  BY <1>3, <1>5, <1>6, <1>7 DEF CellOK, g, t, new

LEMMA StoredCell ==
    ASSUME NEW f \in FrameType, NEW s \in State, CellOK(f, s), f.pc = "latest",
           NEW g,
           IF ~f.metric.alive /\ ~s.exitReported
           THEN g = [f EXCEPT !.pc = "report"] ELSE g.pc \in Idle
    PROVE  CellOK(g, [s EXCEPT !.lastMetric = f.metric])
<1> DEFINE t == [s EXCEPT !.lastMetric = f.metric]
<1>1. /\ t.metrics = s.metrics /\ t.lastMetric = f.metric
      /\ t.exitReported = s.exitReported /\ t.exceedCnt = s.exceedCnt
  BY DEF State
<1> HIDE DEF t
<1>2. g.pc \in Idle \cup {"report"} /\ (g.pc = "report" => g.metric = f.metric)
  BY DEF FrameType, Idle
<1>3. g.pc \notin {"probe", "alive", "check", "alarm", "restart", "clear",
                   "push", "latest", "exit"}
  BY <1>2 DEF Idle
<1>4. s.metrics # <<>> /\ Last(s.metrics) = f.metric
  BY DEF CellOK, LatestOK
<1>5. LatestOK(g, t)
  BY <1>1, <1>3, <1>4 DEF LatestOK
<1>6. ~f.metric.alive => FirstDead(s.metrics) \/ s.exitReported
  BY DEF CellOK, LatchOK
<1>7. g.pc \in Idle => ~(~f.metric.alive /\ ~s.exitReported)
  BY DEF FrameType, Idle
<1>8. g.pc = "report" => ~f.metric.alive /\ ~s.exitReported
  BY DEF FrameType, Idle
<1>9. LatchOK(g, t)
  BY <1>1, <1>2, <1>3, <1>4, <1>6, <1>7, <1>8 DEF LatchOK, Latched
<1>10. \A r : ~Counted(f, r) /\ ~Counted(g, r)
  BY <1>3 DEF Counted
<1>11. CountOK(g, t)
  BY <1>1, <1>3, <1>10 DEF CellOK, CountOK
<1> QED
  BY <1>3, <1>5, <1>9, <1>11 DEF CellOK, t

LEMMA ReportedCell ==
    ASSUME NEW f \in FrameType, NEW s \in State, CellOK(f, s), f.pc = "report"
    PROVE  CellOK([f EXCEPT !.pc = "exit"], [s EXCEPT !.exitReported = TRUE])
<1> DEFINE g == [f EXCEPT !.pc = "exit"]
           t == [s EXCEPT !.exitReported = TRUE]
<1>1. /\ g.metric = f.metric /\ g.pc = "exit"
      /\ t.metrics = s.metrics /\ t.lastMetric = s.lastMetric
      /\ t.exceedCnt = s.exceedCnt /\ t.exitReported = TRUE
  BY DEF FrameType, State
<1> HIDE DEF g, t
<1>2. LatestOK(g, t) /\ LatchOK(g, t)
  BY <1>1 DEF CellOK, LatestOK, LatchOK, Idle
<1>3. \A r : ~Counted(f, r) /\ ~Counted(g, r)
  BY <1>1 DEF Counted
<1>4. CountOK(g, t)
  BY <1>1, <1>3 DEF CellOK, CountOK
<1> QED
  BY <1>1, <1>2, <1>4 DEF CellOK, g, t

\* After the exit event, and after a restart or none, the pushed sample is
\* settled, or the live one still to be pushed stays counted.
LEMMA ExitedCell ==
    ASSUME NEW f \in FrameType, NEW s, CellOK(f, s), f.pc = "exit",
           NEW g, g = [f EXCEPT !.pc = "restart"] \/ g.pc \in Idle
    PROVE  CellOK(g, s)
<1>1. ~f.metric.alive /\ s.exitReported
  BY DEF CellOK, LatchOK
<1>2. g.pc \in Idle \/ (g.pc = "restart" /\ g.metric = f.metric)
  BY DEF FrameType
<1>3. g.pc \notin {"probe", "alive", "check", "alarm", "clear", "push",
                   "latest", "report", "exit"}
  BY <1>2 DEF Idle
<1>4. LatestOK(g, s) /\ LatchOK(g, s)
  BY <1>1, <1>2, <1>3 DEF CellOK, LatestOK, LatchOK, Latched, Idle
<1>5. \A r : ~Counted(f, r) /\ ~Counted(g, r)
  BY <1>1, <1>2, <1>3 DEF Counted, Idle
<1>6. CountOK(g, s)
  BY <1>3, <1>5 DEF CellOK, CountOK
<1> QED
  BY <1>3, <1>4, <1>6 DEF CellOK

LEMMA RestartedCell ==
    ASSUME NEW f \in FrameType, NEW s, CellOK(f, s), f.pc = "restart",
           NEW g,
           IF f.metric.alive THEN g = [f EXCEPT !.pc = "clear"] ELSE g.pc \in Idle
    PROVE  CellOK(g, s)
<1>1. CASE f.metric.alive
  <2>1. g.pc = "clear" /\ g.metric = f.metric /\ g.res = f.res
    BY <1>1 DEF FrameType
  <2>2. LatestOK(g, s) /\ LatchOK(g, s)
    BY <1>1, <2>1 DEF CellOK, LatestOK, LatchOK, Idle
  <2>3. \A r : Counted(f, r) <=> Counted(g, r)
    BY <1>1, <2>1 DEF Counted
  <2>4. CountOK(g, s)
    BY <2>1, <2>3 DEF CellOK, CountOK
  <2> QED
    BY <2>1, <2>2, <2>4 DEF CellOK
<1>2. CASE ~f.metric.alive
  <2>1. g.pc \notin {"probe", "alive", "check", "alarm", "restart", "clear",
                     "push", "latest", "report", "exit"}
    BY <1>2 DEF Idle
  <2>2. LatestOK(g, s) /\ LatchOK(g, s)
    BY <1>2, <2>1 DEF CellOK, LatestOK, LatchOK, Latched
  <2>3. \A r : ~Counted(f, r) /\ ~Counted(g, r)
    BY <1>2, <2>1 DEF Counted
  <2>4. CountOK(g, s)
    BY <2>1, <2>3 DEF CellOK, CountOK
  <2> QED
    BY <2>1, <2>2, <2>4 DEF CellOK
<1> QED
  BY <1>1, <1>2

------------------------------------------------------------------------------
\* Each step of collectOne.

LEMMA StepPcs ==
    /\ {"probe", "alive", "check", "alarm", "restart", "clear", "push",
        "latest", "report", "exit"} \subseteq Collecting
    /\ \A f \in FrameType : \A pc : /\ [f EXCEPT !.pc = pc].pc = pc
                                     /\ [f EXCEPT !.pc = pc].state = f.state
    /\ \A l \in Loops : Done(l).pc \in Idle
  BY DEF Collecting, FrameType, Done, Frame, Idle

LEMMA SampleProbe ==
    ASSUME TypeOK, OneCollector, SampleInv, NEW l \in Loops, Probe(l)
    PROVE  SampleInv'
<1>1. loop[l].pc = "probe" /\ loop[l].pc \in Collecting /\ heap' = heap
  BY DEF Probe, Collecting
<1>2. PICK m \in Metric, pc \in {"alive", "push"} :
          /\ (pc = "alive" /\ m.alive) \/ (pc = "push" /\ ~m.alive)
          /\ loop' = [loop EXCEPT ![l] =
                         [loop[l] EXCEPT !.metric = m, !.pc = pc]]
  <2>1. CASE procAlive[loop[l].pid]
    <3>1. PICK m \in LiveMetrics(loop[l].target) :
              loop' = [loop EXCEPT ![l].metric = m, ![l].pc = "alive"]
      BY <2>1 DEF Probe
    <3>2. m \in Metric /\ m.alive
      BY <1>1, HeldCell, LiveMetricsType
    <3> QED
      BY <3>1, <3>2 DEF TypeOK
  <2>2. CASE ~procAlive[loop[l].pid]
    <3>1. loop' = [loop EXCEPT ![l].metric = DeadMetric, ![l].pc = "push"]
      BY <2>2 DEF Probe
    <3>2. DeadMetric \in Metric /\ ~DeadMetric.alive
      BY DeadMetricType
    <3> QED
      BY <3>1, <3>2 DEF TypeOK
  <2> QED
    BY <2>1, <2>2
<1> DEFINE g == [loop[l] EXCEPT !.metric = m, !.pc = pc]
<1>3. loop[l] \in FrameType
  BY DEF TypeOK
<1>4. g.pc \in Collecting /\ g.state = loop[l].state
  BY <1>2, <1>3 DEF FrameType, Collecting
<1>5. \A s : CellOK(loop[l], s) => CellOK(g, s)
  BY <1>1, <1>2, <1>3, ProbedCell
<1>6. loop' = [loop EXCEPT ![l] = g]
  BY <1>2
<1> HIDE DEF g
<1> QED
  BY <1>1, <1>4, <1>5, <1>6, SampleGoto

LEMMA SampleMarkReport ==
    ASSUME TypeOK, OneCollector, SampleInv, NEW l \in Loops,
           MarkAlive(l) \/ Report(l)
    PROVE  SampleInv'
<1> DEFINE f == loop[l]
           s == heap[loop[l].state]
<1>1. f.pc \in Collecting /\ f \in FrameType /\ s \in State
  BY HeldCell DEF MarkAlive, Report, Collecting
<1>2. CASE MarkAlive(l)
  <2> DEFINE g == [f EXCEPT !.pc = "check"]
             t == [s EXCEPT !.exitReported = FALSE]
  <2>1. loop' = [loop EXCEPT ![l] = g] /\ heap' = [heap EXCEPT ![f.state] = t]
    BY <1>2, <1>1, HeldCell DEF MarkAlive, Goto, TypeOK
  <2>2. CellOK(f, s) => CellOK(g, t)
    BY <1>1, <1>2, MarkedCell DEF MarkAlive
  <2>3. g.pc \in Collecting /\ g.state = f.state
    BY <1>1, StepPcs
  <2> HIDE DEF g, t
  <2> QED
    BY <1>1, <2>1, <2>2, <2>3, SampleStore
<1>3. CASE Report(l)
  <2> DEFINE g == [f EXCEPT !.pc = "exit"]
             t == [s EXCEPT !.exitReported = TRUE]
  <2>1. loop' = [loop EXCEPT ![l] = g] /\ heap' = [heap EXCEPT ![f.state] = t]
    BY <1>3, <1>1, HeldCell DEF Report, Goto, TypeOK
  <2>2. CellOK(f, s) => CellOK(g, t)
    BY <1>1, <1>3, ReportedCell DEF Report
  <2>3. g.pc \in Collecting /\ g.state = f.state
    BY <1>1, StepPcs
  <2> HIDE DEF g, t
  <2> QED
    BY <1>1, <2>1, <2>2, <2>3, SampleStore
<1> QED
  BY <1>2, <1>3

LEMMA SampleCheck ==
    ASSUME TypeOK, OneCollector, SampleInv, NEW l \in Loops,
           CheckOver(l) \/ CheckUnder(l) \/ ClearCount(l)
    PROVE  SampleInv'
<1> DEFINE f == loop[l]
           s == heap[loop[l].state]
<1>1. /\ f.pc \in {"check", "clear"} /\ f.pc \in Collecting
      /\ f \in FrameType /\ FrameOK(f) /\ s \in State
      /\ f.res \in Resources /\ s.exceedCnt[f.res] \in Nat
  BY HeldCell DEF CheckOver, CheckUnder, ClearCount, Collecting, State
<1> DEFINE Moves(n, g) ==
              /\ \/ n = 0
                 \/ f.pc = "check" /\ OverLimit(f) /\ n = s.exceedCnt[f.res] + 1
              /\ \/ g = AfterResource(f)
                 \/ /\ g = [f EXCEPT !.pc = "alarm"] /\ f.pc = "check"
                    /\ n >= ExceedLimit(f.target, f.res)
              /\ loop' = [loop EXCEPT ![l] = g]
              /\ heap' = [heap EXCEPT ![f.state].exceedCnt[f.res] = n]
<1>2. PICK n \in Nat : \E g : Moves(n, g)
  <2>1. CASE CheckOver(l)
    <3> DEFINE n == s.exceedCnt[f.res] + 1
               g == IF n >= ExceedLimit(f.target, f.res)
                    THEN [f EXCEPT !.pc = "alarm"] ELSE AfterResource(f)
    <3>1. n \in Nat /\ f.pc = "check" /\ OverLimit(f)
      BY <1>1, <2>1 DEF CheckOver
    <3>2. /\ loop' = [loop EXCEPT ![l] = g]
          /\ heap' = [heap EXCEPT ![f.state].exceedCnt[f.res] = n]
      BY <2>1 DEF CheckOver
    <3> QED
      BY <3>1, <3>2
  <2>2. CASE CheckUnder(l) \/ ClearCount(l)
    BY <2>2 DEF CheckUnder, ClearCount
  <2> QED
    BY <2>1, <2>2
<1>3. PICK g : Moves(n, g)
  BY <1>2
<1> DEFINE t == [s EXCEPT !.exceedCnt[f.res] = n]
<1>4. heap' = [heap EXCEPT ![f.state] = t]
  BY <1>1, <1>3, HeldCell DEF TypeOK
<1>5. CellOK(f, s) => CellOK(g, t)
  BY <1>1, <1>3, CheckedCell
<1>6. g.pc \in Collecting /\ g.state = f.state
  BY <1>1, <1>3 DEF AfterResource, FrameType, Collecting
<1> HIDE DEF t
<1> QED
  BY <1>1, <1>3, <1>4, <1>5, <1>6, SampleStore

LEMMA SamplePush ==
    ASSUME TypeOK, OneCollector, SampleInv, NEW l \in Loops,
           Push(l) \/ StoreLatest(l)
    PROVE  SampleInv'
<1> DEFINE f == loop[l]
           s == heap[loop[l].state]
<1>1. /\ f.pc \in Collecting /\ f \in FrameType /\ FrameOK(f) /\ s \in State
      /\ f.state \in Objs
  BY HeldCell DEF Push, StoreLatest, Collecting
<1>2. CASE Push(l)
  <2> DEFINE g == [f EXCEPT !.pc = "latest"]
             t == [s EXCEPT !.metrics =
                      PushRecent(s.metrics, f.metric, MetricsBufferLen)]
  <2>1. loop' = [loop EXCEPT ![l] = g] /\ heap' = [heap EXCEPT ![f.state] = t]
    BY <1>1, <1>2 DEF Push, Goto, TypeOK, State
  <2>2. CellOK(f, s) => CellOK(g, t)
    BY <1>1, <1>2, PushedCell DEF Push
  <2>3. g.pc \in Collecting /\ g.state = f.state
    BY <1>1, StepPcs
  <2> HIDE DEF g, t
  <2> QED
    BY <1>1, <2>1, <2>2, <2>3, SampleStore
<1>3. CASE StoreLatest(l)
  <2> DEFINE g == IF ~f.metric.alive /\ ~s.exitReported
                  THEN [f EXCEPT !.pc = "report"] ELSE Done(l)
             t == [s EXCEPT !.lastMetric = f.metric]
  <2>1. loop' = [loop EXCEPT ![l] = g] /\ heap' = [heap EXCEPT ![f.state] = t]
    BY <1>1, <1>3 DEF StoreLatest, TypeOK
  <2>2. CellOK(f, s) => CellOK(g, t)
    BY <1>1, <1>3, StepPcs, StoredCell DEF StoreLatest
  <2>3. g.pc \in Idle \/ (g.pc \in Collecting /\ g.state = f.state)
    BY <1>1, StepPcs
  <2> HIDE DEF g, t
  <2> QED
    BY <1>1, <2>1, <2>2, <2>3, SampleStore
<1> QED
  BY <1>2, <1>3

LEMMA SampleEvent ==
    ASSUME TypeOK, OneCollector, SampleInv, NEW l \in Loops,
           Alarm(l) \/ ExitEvent(l)
    PROVE  SampleInv'
<1> DEFINE f == loop[l]
<1>1. f.pc \in Collecting /\ f \in FrameType /\ heap' = heap
  BY HeldCell DEF Alarm, ExitEvent, Collecting
<1>2. CASE Alarm(l)
  <2>1. PICK pc \in {"restart", "clear"} : Goto(l, pc)
    BY <1>2 DEF Alarm
  <2> DEFINE g == [f EXCEPT !.pc = pc]
  <2>2. loop' = [loop EXCEPT ![l] = g]
    BY <2>1 DEF Goto, TypeOK
  <2>3. \A s : CellOK(f, s) => CellOK(g, s)
    BY <1>1, <1>2, AlarmedCell DEF Alarm
  <2>4. g.pc \in Collecting /\ g.state = f.state
    BY <1>1, StepPcs
  <2> HIDE DEF g
  <2> QED
    BY <1>1, <2>2, <2>3, <2>4, SampleGoto
<1>3. CASE ExitEvent(l)
  <2>1. PICK g : /\ g = [f EXCEPT !.pc = "restart"] \/ g = Done(l)
                 /\ loop' = [loop EXCEPT ![l] = g]
    BY <1>3 DEF ExitEvent
  <2>2. \A s : CellOK(f, s) => CellOK(g, s)
    BY <1>1, <1>3, <2>1, StepPcs, ExitedCell DEF ExitEvent
  <2>3. CASE g = [f EXCEPT !.pc = "restart"]
    <3>1. g.pc \in Collecting /\ g.state = f.state
      BY <1>1, <2>3, StepPcs
    <3> QED
      BY <1>1, <2>1, <2>2, <3>1, SampleGoto
  <2>4. CASE g = Done(l)
    <3>1. g.pc \in Idle
      BY <2>4, StepPcs
    <3> QED
      BY <1>1, <2>1, <2>2, <3>1, SampleGoto
  <2> QED
    BY <2>1, <2>3, <2>4
<1> QED
  BY <1>2, <1>3

\* tryRestart charges whatever cell is registered now, the one held or another,
\* and leaves the samples of all of them alone.
LEMMA SampleTryRestart ==
    ASSUME TypeOK, OneCollector, SampleInv, NEW l \in Loops, TryRestart(l)
    PROVE  SampleInv'
<1> DEFINE f == loop[l]
           g == AfterRestart(l)
<1>1. /\ f.pc = "restart" /\ f.pc \in Collecting /\ f \in FrameType
      /\ f.pid \in PIDs /\ f.state \in Objs
      /\ loop' = [loop EXCEPT ![l] = g]
  BY HeldCell DEF TryRestart, Collecting
<1>2. \A o \in Objs : SameSamples(heap[o], heap'[o]) /\ Untouched(o)
  <2> DEFINE o == targets[f.pid]
  <2>1. CASE ~MayRestart(f.pid)
    BY <2>1 DEF TryRestart, Untouched, SameSamples
  <2>2. CASE MayRestart(f.pid)
    <3>1. o \in Objs /\ heap[o] \in State /\ heap[o] # Nil
      BY <1>1, <2>2, RegisteredCell, NilAssumption DEF MayRestart
    <3> DEFINE t == [heap[o] EXCEPT !.lastRestart = now,
                                    !.restartCount = @ + 1]
    <3>2. heap' = [heap EXCEPT ![o] = t]
      BY <2>2, <3>1 DEF TryRestart, TypeOK
    <3>3. SameSamples(heap[o], t)
      BY <3>1 DEF SameSamples, State
    <3>4. \A k \in Objs : heap'[k] = IF k = o THEN t ELSE heap[k]
      BY <3>1, <3>2 DEF TypeOK
    <3> HIDE DEF t, o
    <3> QED
      BY <3>1, <3>3, <3>4 DEF Untouched, SameSamples
  <2> QED
    BY <2>1, <2>2
<1>3. \A s : CellOK(f, s) => CellOK(g, s)
  BY <1>1, StepPcs, RestartedCell DEF AfterRestart
<1>4. g.pc \in Idle \/ (g.pc \in Collecting /\ g.state = f.state)
  BY <1>1, StepPcs DEF AfterRestart
<1> HIDE DEF g
<1> QED
  BY <1>1, <1>2, <1>3, <1>4, SameCell, SampleMove

LEMMA SampleNext ==
    TypeOK /\ OneCollector /\ OneCollector' /\ SampleInv /\ [Next]_vars
    => SampleInv'
<1> SUFFICES ASSUME TypeOK, OneCollector, OneCollector', SampleInv, [Next]_vars
             PROVE  SampleInv'
  OBVIOUS
<1>1. CASE Handler
  BY <1>1, SampleHandler
<1>2. CASE \E l \in Loops : LoopStep(l)
  BY <1>2, SampleWait, SampleLookup, SampleProbe, SampleMarkReport, SampleCheck,
     SamplePush, SampleEvent, SampleTryRestart
  DEF LoopStep, CollectOne
<1>3. CASE (\E r \in restarting : RunRestart(r)) \/ Environment \/ UNCHANGED vars
  BY <1>3, SampleOthers
<1> QED
  BY <1>1, <1>2, <1>3 DEF Next

LEMMA SampleInit == Init => SampleInv
  BY DEF Init, SampleInv

\* The samples under one collector at a time: what the next three theorems
\* read off.
LEMMA AlwaysSampleInv ==
    Spec /\ []OneCollector => [](TypeOK /\ SampleInv)
  BY TypeCorrect, SampleInit, SampleNext, PTL DEF Spec

\* As long as no two goroutines are in collectOne at once, the exit of a
\* process is reported at its first dead sample, whatever is registered,
\* removed, updated, started, stopped or restarted between the critical
\* sections.
THEOREM ExitsAreFirstDetections ==
    Spec /\ []OneCollector => []FirstDetection
<1>1. TypeOK /\ SampleInv => FirstDetection
  <2> SUFFICES ASSUME TypeOK, SampleInv,
                      NEW l \in Loops, loop[l].pc \in {"report", "exit"}
               PROVE  FirstDead(heap[loop[l].state].metrics)
    BY DEF FirstDetection, FirstDead
  <2>1. loop[l].pc \in Collecting
    BY StepPcs
  <2>2. loop[l].state \in Objs /\ heap[loop[l].state] # Nil
    BY <2>1, HeldCell, NilAssumption
  <2>3. CellOK(loop[l], heap[loop[l].state])
    BY <2>1, <2>2 DEF SampleInv, Holds
  <2> QED
    BY <2>3 DEF CellOK, LatchOK
<1> QED
  BY <1>1, AlwaysSampleInv, PTL

\* As long as no two goroutines are in collectOne at once, the latest sample
\* the service answers is the newest of the stored ones.
THEOREM LatestIsStored ==
    Spec /\ []OneCollector => []LatestIsNewest
<1>1. TypeOK /\ SampleInv => LatestIsNewest
  <2> SUFFICES ASSUME TypeOK, SampleInv,
                      NEW p \in Registered, ~Storing(targets[p])
               PROVE  GetMetrics(p, 1) =
                          IF p \in DOMAIN GetAllLatestMetrics
                          THEN <<GetAllLatestMetrics[p]>> ELSE <<>>
    BY DEF LatestIsNewest
  <2> DEFINE o == targets[p]
             s == heap[o]
  <2>1. p \in PIDs /\ o # Nil /\ o \in Objs /\ s \in State /\ s # Nil
    BY RegisteredCell, NilAssumption DEF Registered
  <2>2. s.metrics \in Seq(Metric)
    BY <2>1 DEF State
  <2>3. IF s.metrics = <<>> THEN s.lastMetric = Nil
        ELSE s.lastMetric = Last(s.metrics)
    <3>1. PICK f : f.pc # "latest" /\ CellOK(f, s)
      <4>1. CASE \E l \in Loops : Holds(l, o)
        BY <2>1, <4>1 DEF SampleInv, Storing, Holds
      <4>2. CASE \A l \in Loops : ~Holds(l, o)
        BY <2>1, <4>2, NobodyIsIdle DEF SampleInv
      <4> QED
        BY <4>1, <4>2
    <3> QED
      BY <3>1 DEF CellOK, LatestOK
  <2>4. s.metrics # <<>> => Last(s.metrics) # Nil
    BY <2>2, NilAssumption DEF Last
  <2>5. p \in DOMAIN GetAllLatestMetrics <=> s.lastMetric # Nil
    BY <2>1 DEF GetAllLatestMetrics, Registered
  <2>6. s.lastMetric # Nil => GetAllLatestMetrics[p] = s.lastMetric
    BY <2>1 DEF GetAllLatestMetrics, Registered
  <2>7. GetMetrics(p, 1) = Newest(s.metrics, 1)
    BY <2>1 DEF GetMetrics
  <2>8. Newest(s.metrics, 1) = IF s.metrics = <<>> THEN <<>>
                               ELSE <<Last(s.metrics)>>
    BY <2>2, NewestOne DEF Last
  <2> HIDE DEF s
  <2> QED
    BY <2>3, <2>4, <2>5, <2>6, <2>7, <2>8
<1> QED
  BY <1>1, AlwaysSampleInv, PTL

\* As long as no two goroutines are in collectOne at once, an alarm has its
\* samples: updates of the configuration, its thresholds too, restarts and drops
\* from a full ring do not matter.
THEOREM AlarmsHaveSamples ==
    Spec /\ []OneCollector => []AlarmJustified
<1>1. TypeOK /\ SampleInv => AlarmJustified
  <2> SUFFICES ASSUME TypeOK, SampleInv, NEW l \in Loops, loop[l].pc = "alarm",
                      NEW i \in DOMAIN heap[loop[l].state].metrics,
                      heap[loop[l].state].metrics[i].alive,
                      ~Exceeds(heap[loop[l].state].metrics[i], loop[l].res)
               PROVE  Cardinality(LiveAfter(heap[loop[l].state].metrics, i))
                        >= ExceedLimit(loop[l].target, loop[l].res) - 1
    BY DEF AlarmJustified
  <2> DEFINE f == loop[l]
             s == heap[f.state]
             r == f.res
  <2>1. /\ f.pc \in Collecting /\ f \in FrameType /\ f.target \in Configs
        /\ r \in Resources /\ f.state \in Objs /\ s \in State /\ s # Nil
    BY HeldCell, NilAssumption DEF Collecting
  <2>2. s.metrics \in Seq(Metric) /\ s.exceedCnt \in [Resources -> Nat]
    BY <2>1 DEF State
  <2>3. CountOK(f, s)
    BY <2>1 DEF SampleInv, Holds, CellOK
  <2>4. ~Exceeds(s.metrics[i], r)
    OBVIOUS
  <2>5. Cardinality(LiveAfter(s.metrics, i)) \in Nat
    BY <2>2, LiveAfterIsFinite
  <2>6. ExceedLimit(f.target, r) \in Int
    BY <2>1, ConfigAssumption, BoundAssumption DEF ExceedLimit, Config
  <2>7. Counted(f, r)
    BY DEF Counted
  <2>8. s.exceedCnt[r] <= Cardinality(LiveAfter(s.metrics, i)) + 1
    BY <2>1, <2>3, <2>4, <2>7 DEF CountOK
  <2>9. s.exceedCnt[r] >= ExceedLimit(f.target, r)
    BY <2>1, <2>3 DEF CountOK
  <2>10. s.exceedCnt[r] \in Nat
    BY <2>1, <2>2
  <2> HIDE DEF s, f, r
  <2> QED
    BY <2>5, <2>6, <2>8, <2>9, <2>10 DEF s, f, r
<1> QED
  BY <1>1, AlwaysSampleInv, PTL

------------------------------------------------------------------------------
\* When there is one collector at a time.

StartsAlone == \A l \in Loops : Start(l) => \A k \in Loops : ~Sampling(k)
OneSampler == \A k, l \in Loops : Sampling(k) /\ Sampling(l) => k = l

\* A goroutine's own steps do not bring it back from its select for a stop.
LEMMA SamplersOnlyStart ==
    ASSUME TypeOK, [Next]_vars, \A l \in Loops : ~Start(l)
    PROVE  \A k \in Loops : Sampling(k)' => Sampling(k)
<1>1. CASE UNCHANGED loop
  BY <1>1 DEF Sampling
<1>2. CASE Stop
  BY <1>2 DEF Stop, Frame, Sampling
<1>3. ASSUME NEW l \in Loops, LoopStep(l)
      PROVE  \A k \in Loops : Sampling(k)' => Sampling(k)
  <2>1. CASE CollectAll(l) \/ CollectOne(l)
    BY <2>1, WorkGoesOn DEF Works, Sampling, TypeOK
  <2>2. CASE EnterSelect(l) \/ StopReceived(l) \/ TickerFires(l)
    BY <2>2 DEF EnterSelect, StopReceived, TickerFires, Frame, Sampling, TypeOK
  <2> QED
    BY <1>3, <2>1, <2>2 DEF LoopStep
<1>4. CASE Handler /\ ~Stop
  <2>1. UNCHANGED loop
    BY <1>4
    DEF Handler, AddTarget, RemoveTarget, RemoveAllTargets, UpdateTarget
  <2> QED
    BY <1>1, <2>1
<1>5. CASE Environment \/ (\E r \in restarting : RunRestart(r)) \/ UNCHANGED vars
  <2>1. UNCHANGED loop
    BY <1>5 DEF Environment, ProcExits, ProcAppears, Clock, RunRestart, vars
  <2> QED
    BY <1>1, <2>1
<1> QED
  BY <1>2, <1>3, <1>4, <1>5 DEF Next

LEMMA OneSamplerNext ==
    TypeOK /\ OneSampler /\ [Next]_vars /\ [StartsAlone]_vars => OneSampler'
<1> SUFFICES ASSUME TypeOK, OneSampler, [Next]_vars, [StartsAlone]_vars
             PROVE  OneSampler'
  OBVIOUS
<1>1. CASE UNCHANGED vars
  BY <1>1 DEF vars, OneSampler, Sampling
<1>2. CASE \E l \in Loops : StartsAlone /\ Start(l)
  <2>1. PICK l \in Loops : Start(l) /\ \A k \in Loops : ~Sampling(k)
    BY <1>2 DEF StartsAlone
  <2>2. \A k \in Loops : k # l => ~Sampling(k)'
    BY <2>1 DEF Start, Sampling, TypeOK
  <2> QED
    BY <2>2 DEF OneSampler
<1>3. CASE \A l \in Loops : ~Start(l)
  BY <1>3, SamplersOnlyStart DEF OneSampler
<1> QED
  BY <1>1, <1>2, <1>3

\* The condition of the theorems above, in terms of the callers: were Start
\* to wait until the goroutines of before have gone, which Stop does not, no
\* two goroutines would ever be in collectOne at once.
THEOREM StartingAloneSuffices ==
    Spec /\ [][StartsAlone]_vars => []OneCollector
<1>1. Init => OneSampler
  BY DEF Init, OneSampler, Sampling, Frame
<1>2. OneSampler => OneCollector
  BY DEF OneSampler, OneCollector, Sampling, Collecting
<1> QED
  BY <1>1, <1>2, TypeCorrect, OneSamplerNext, PTL DEF Spec

==============================================================================
