--------------------------- MODULE WebServiceProofs --------------------------
(***************************************************************************)
(* Proofs about WebService, for any number of PIDs, sampling goroutines    *)
(* and requests: no interleaving of the two-step add with other requests   *)
(* and the shutdown leaves a target unwatched, and a shutdown cuts nobody  *)
(* off before its timeout.                                                 *)
(***************************************************************************)
EXTENDS WebService, TLAPS

LEMMA CallTypes ==
    /\ NoRequest = [call |-> "idle", pid |-> Nil]
    /\ \A c \in Calls : c.call # "idle" /\ c.call # "added"
  BY DEF NoRequest, Request, Calls

Req == Calls \cup {NoRequest} \cup {Request("added", p) : p \in PIDs}

\* An add that is answered or goes on to its Start is still a request.
LEMMA AddBecomes ==
    ASSUME NEW q \in Req, q.call = "add"
    PROVE  /\ q.pid \in PIDs
           /\ [q EXCEPT !.call = "added"] = Request("added", q.pid)
<1>1. PICK p \in PIDs : q = Request("add", p)
  BY DEF Req, Calls, NoRequest, Request
<1> QED
  BY <1>1 DEF Request

------------------------------------------------------------------------------
\* Type correctness.

\* The conditions on the monitor's part, kept by each of its operations.
MonitorTypes ==
    /\ targets \subseteq PIDs
    /\ running \in BOOLEAN
    /\ sampler \in [Loops -> {"none", "waiting", "working", "woken"}]

LEMMA MonitorKeepsTypes ==
    ASSUME MonitorTypes,
           \/ \E p \in PIDs : MM!AddTarget(p) \/ MM!RemoveTargets({p})
           \/ MM!RemoveTargets(PIDs) \/ MM!Stop
           \/ \E l \in Loops : MM!Start(l) \/ MM!SamplerStep(l)
           \/ UNCHANGED <<targets, running, sampler>>
    PROVE  MonitorTypes'
  BY DEF MonitorTypes, MM!AddTarget, MM!RemoveTargets, MM!Stop, MM!Start,
         MM!SamplerStep, MM!Move

\* What TypeOK says of the rest.
ServiceTypes ==
    /\ phase \in Phases
    /\ listener \in {"none", "pending", "listening", "failed", "closed"}
    /\ timer \in 0 .. ShutdownTimeout
    /\ phase = "none" => /\ listener = "none" /\ timer = 0
                         /\ Active = {} /\ targets = {}

LEMMA TypeParts ==
    TypeOK <=> /\ MonitorTypes /\ ServiceTypes
               /\ stopped \in BOOLEAN
               /\ request \in [Requests -> Req]
  BY DEF TypeOK, MonitorTypes, ServiceTypes, Req

LEMMA TypeParts2 ==
    TypeOK' <=> /\ MonitorTypes' /\ ServiceTypes'
                /\ stopped' \in BOOLEAN
                /\ request' \in [Requests -> Req]
  BY DEF TypeOK, MonitorTypes, ServiceTypes, Req

LEMMA TypeInit == Init => TypeOK
<1> SUFFICES ASSUME Init PROVE TypeOK
  OBVIOUS
<1>1. MonitorTypes /\ stopped \in BOOLEAN
  BY DEF Init, MM!Init, MonitorTypes
<1>2. request \in [Requests -> Req]
  BY DEF Init, Req
<1>3. \A r \in Requests : request[r].call = "idle"
  BY CallTypes DEF Init
<1>4. ServiceTypes
  BY <1>3, WebAssumption DEF Init, MM!Init, ServiceTypes, Phases, Active
<1> QED
  BY <1>1, <1>2, <1>4, TypeParts

LEMMA TypeRequestStep ==
    ASSUME TypeOK, NEW r \in Requests, RequestStep(r)
    PROVE  TypeOK'
<1>1. /\ MonitorTypes /\ ServiceTypes /\ stopped \in BOOLEAN
      /\ request \in [Requests -> Req]
  BY TypeParts
<1>2. UNCHANGED serviceVars
  BY DEF RequestStep, Accept, AddTarget, StartMonitor, RemoveTarget,
         StopMonitor, Query
<1>3. phase # "none"
  <2>1. CASE \E c \in Calls : Accept(r, c)
    BY <1>1, <2>1 DEF Accept, ServiceTypes
  <2>2. CASE ~\E c \in Calls : Accept(r, c)
    <3>1. request[r].call # "idle"
      BY <2>2 DEF RequestStep, AddTarget, StartMonitor, RemoveTarget,
                  StopMonitor, Query
    <3> QED
      BY <1>1, <3>1 DEF ServiceTypes, Active
  <2> QED
    BY <2>1, <2>2
<1>4. ServiceTypes'
  BY <1>1, <1>2, <1>3 DEF ServiceTypes, serviceVars
<1>5. request' \in [Requests -> Req]
  <2>1. NoRequest \in Req
    BY DEF Req
  <2>2. CASE Answer(r)
    BY <1>1, <2>1, <2>2 DEF Answer
  <2>3. ASSUME NEW c \in Calls, Accept(r, c) PROVE request' \in [Requests -> Req]
    BY <1>1, <2>3 DEF Accept, Req
  <2>4. CASE /\ request[r].call = "add"
             /\ request' = [request EXCEPT ![r].call = "added"]
    <3>1. /\ request[r] \in Req
          /\ request' = [request EXCEPT ![r] =
                             [request[r] EXCEPT !.call = "added"]]
      BY <1>1, <2>4
    <3>2. [request[r] EXCEPT !.call = "added"] \in Req
      BY <2>4, <3>1, AddBecomes DEF Req
    <3> QED
      BY <1>1, <3>1, <3>2
  <2> QED
    BY <2>2, <2>3, <2>4
    DEF RequestStep, AddTarget, StartMonitor, RemoveTarget, StopMonitor, Query
<1>6. MonitorTypes' /\ stopped' \in BOOLEAN
  <2>1. request[r] \in Req
    BY <1>1
  <2>2. request[r].call = "remove" => request[r].pid \in PIDs
    BY <2>1 DEF Req, Calls, NoRequest, Request
  <2>3. request[r].call = "add" => request[r].pid \in PIDs
    BY <2>1, AddBecomes
  <2>4. CASE AddTarget(r)
    BY <1>1, <2>3, <2>4, MonitorKeepsTypes DEF AddTarget
  <2>5. CASE StartMonitor(r) \/ StopMonitor(r)
    BY <1>1, <2>5, MonitorKeepsTypes
    DEF StartMonitor, StopMonitor, HaltMonitor, monitorVars
  <2>6. CASE RemoveTarget(r)
    BY <1>1, <2>2, <2>6, MonitorKeepsTypes DEF RemoveTarget
  <2>7. CASE UNCHANGED monitorVars
    BY <1>1, <2>7, MonitorKeepsTypes DEF monitorVars
  <2> QED
    BY <2>4, <2>5, <2>6, <2>7 DEF RequestStep, Accept, Query
<1> QED
  BY <1>4, <1>5, <1>6, TypeParts2

LEMMA TypeGone == ASSUME Gone PROVE TypeOK'
<1>1. MonitorTypes' /\ stopped' \in BOOLEAN
  BY DEF Gone, MonitorTypes
<1>2. request' \in [Requests -> Req]
  BY DEF Gone, Req
<1>3. \A r \in Requests : request'[r].call = "idle"
  BY CallTypes DEF Gone
<1>4. ServiceTypes'
  BY <1>3, WebAssumption DEF Gone, ServiceTypes, Phases, Active
<1> QED
  BY <1>1, <1>2, <1>4, TypeParts2

LEMMA TypeMain ==
    ASSUME TypeOK,
           SamplerStep \/ ServiceStep \/ Launch \/ AskStop \/ TimerRuns
    PROVE  TypeOK'
<1>1. /\ MonitorTypes /\ ServiceTypes /\ stopped \in BOOLEAN
      /\ request \in [Requests -> Req]
  BY TypeParts
<1>2. UNCHANGED request
  BY DEF SamplerStep, ServiceStep, StartService, Listen, StopSampling,
         BeginShutdown, EndShutdown, Launch, AskStop, TimerRuns
<1>3. MonitorTypes' /\ stopped' \in BOOLEAN
  BY <1>1, MonitorKeepsTypes
  DEF SamplerStep, ServiceStep, StartService, Listen, StopSampling,
      BeginShutdown, EndShutdown, Launch, AskStop, TimerRuns, HaltMonitor,
      monitorVars
<1>4. ServiceTypes'
  <2>1. CASE SamplerStep
    BY <1>1, <1>2, <2>1
    DEF SamplerStep, MM!SamplerStep, ServiceTypes, serviceVars, Active
  <2>2. phase' = "none" => SamplerStep
    BY <1>1 DEF ServiceStep, StartService, Listen, StopSampling, BeginShutdown,
                EndShutdown, Launch, AskStop, TimerRuns, ServiceTypes, Phases
  <2>3. CASE ~SamplerStep
    BY <1>1, <2>2, <2>3, WebAssumption
    DEF ServiceStep, StartService, Listen, StopSampling, BeginShutdown,
        EndShutdown, Launch, AskStop, TimerRuns, ServiceTypes, Phases
  <2> QED
    BY <2>1, <2>3
<1> QED
  BY <1>1, <1>2, <1>3, <1>4, TypeParts2

LEMMA TypeNext == TypeOK /\ [Next]_webVars => TypeOK'
<1> SUFFICES ASSUME TypeOK, [Next]_webVars PROVE TypeOK'
  OBVIOUS
<1>1. CASE UNCHANGED webVars
  BY <1>1 DEF webVars, monitorVars, serviceVars, TypeOK, Active
<1> QED
  BY <1>1, TypeRequestStep, TypeMain, TypeGone DEF Next, Exit, Crash

\* Every variable keeps its type, and a process that has ended keeps nothing.
THEOREM TypeCorrect == Spec => []TypeOK
  BY TypeInit, TypeNext, PTL DEF Spec

------------------------------------------------------------------------------
\* Targets are watched.

SamplesIfRunning == running => \E l \in Loops : MM!Sampling(l)

StartsIfWatching ==
    targets # {} => \/ running \/ stopped
                    \/ \E r \in Requests : request[r].call = "added"

WatchInv == TypeOK /\ SamplesIfRunning /\ StartsIfWatching

LEMMA WatchInit == Init => SamplesIfRunning /\ StartsIfWatching
  BY DEF Init, MM!Init, SamplesIfRunning, StartsIfWatching

\* A goroutine that samples goes on until it is woken by a stop.
LEMMA SamplingGoesOn ==
    ASSUME TypeOK, SamplesIfRunning,
           \/ \E p \in PIDs : MM!AddTarget(p) \/ MM!RemoveTargets({p})
           \/ MM!RemoveTargets(PIDs) \/ MM!Stop
           \/ \E l \in Loops : MM!Start(l) \/ MM!SamplerStep(l)
           \/ UNCHANGED <<targets, running, sampler>>
    PROVE  SamplesIfRunning'
<1>1. ASSUME NEW l \in Loops, MM!Start(l) PROVE SamplesIfRunning'
  BY <1>1 DEF TypeOK, SamplesIfRunning, MM!Start, MM!Move, MM!Sampling
<1>2. ASSUME NEW l \in Loops, MM!SamplerStep(l) PROVE SamplesIfRunning'
  <2>1. running' = running
    BY <1>2 DEF MM!SamplerStep
  <2>2. ASSUME NEW k \in Loops, MM!Sampling(k) PROVE MM!Sampling(k)'
    BY <1>2, <2>2 DEF TypeOK, MM!SamplerStep, MM!Move, MM!Sampling
  <2> QED
    BY <2>1, <2>2 DEF SamplesIfRunning
<1>3. CASE MM!Stop
  BY <1>3 DEF MM!Stop, SamplesIfRunning
<1>4. CASE UNCHANGED <<running, sampler>>
  BY <1>4 DEF SamplesIfRunning, MM!Sampling
<1> QED
  BY <1>1, <1>2, <1>3, <1>4 DEF MM!AddTarget, MM!RemoveTargets

LEMMA WatchRequestStep ==
    ASSUME WatchInv, NEW r \in Requests, RequestStep(r)
    PROVE  SamplesIfRunning' /\ StartsIfWatching'
<1>1. /\ SamplesIfRunning /\ StartsIfWatching /\ TypeOK
      /\ request \in [Requests -> Req] /\ request[r] \in Req
  BY TypeParts DEF WatchInv
<1>2. \A k \in Requests \ {r} : request'[k] = request[k]
  BY <1>1 DEF RequestStep, Accept, AddTarget, StartMonitor, RemoveTarget,
              StopMonitor, Query, Answer
<1>3. CASE UNCHANGED monitorVars /\ request[r].call # "added"
  BY <1>1, <1>2, <1>3
  DEF monitorVars, SamplesIfRunning, StartsIfWatching, MM!Sampling
<1>4. CASE AddTarget(r)
  <2>1. request[r].pid \in PIDs
    BY <1>1, <1>4, AddBecomes DEF AddTarget
  <2>2. SamplesIfRunning'
    BY <1>1, <1>4, <2>1, SamplingGoesOn DEF AddTarget
  <2>3. CASE request' = [request EXCEPT ![r].call = "added"]
    <3>1. request'[r].call = "added"
      <4>1. request' = [request EXCEPT ![r] =
                            [request[r] EXCEPT !.call = "added"]]
        BY <1>1, <2>3
      <4>2. [request[r] EXCEPT !.call = "added"].call = "added"
        BY <1>1, <1>4, AddBecomes DEF AddTarget, Request
      <4> QED
        BY <1>1, <4>1, <4>2
    <3> QED
      BY <2>2, <3>1 DEF StartsIfWatching
  <2>4. CASE UNCHANGED <<targets, running, stopped>>
    BY <1>1, <1>2, <1>4, <2>2, <2>4 DEF AddTarget, StartsIfWatching
  <2> QED
    BY <1>4, <2>3, <2>4 DEF AddTarget
<1>5. CASE StartMonitor(r)
  <2>1. SamplesIfRunning'
    BY <1>1, <1>5, SamplingGoesOn DEF StartMonitor, monitorVars
  <2>2. running'
    BY <1>5 DEF StartMonitor, MM!Start, monitorVars
  <2> QED
    BY <2>1, <2>2 DEF StartsIfWatching
<1>6. CASE StopMonitor(r)
  <2>1. SamplesIfRunning'
    BY <1>1, <1>6, SamplingGoesOn DEF StopMonitor, HaltMonitor, monitorVars
  <2> QED
    BY <1>1, <1>2, <1>6, <2>1
    DEF StopMonitor, HaltMonitor, MM!Stop, monitorVars, StartsIfWatching
<1>7. CASE RemoveTarget(r)
  <2>1. UNCHANGED <<running, sampler, stopped>>
    BY <1>7 DEF RemoveTarget, MM!RemoveTargets
  <2>2. targets' \subseteq targets
    BY <1>7 DEF RemoveTarget, MM!RemoveTargets
  <2> QED
    BY <1>1, <1>2, <1>7, <2>1, <2>2
    DEF RemoveTarget, SamplesIfRunning, StartsIfWatching, MM!Sampling
<1> QED
  BY <1>1, <1>3, <1>4, <1>5, <1>6, <1>7, CallTypes
  DEF RequestStep, Accept, Query

LEMMA WatchNext == WatchInv /\ [Next]_webVars => WatchInv'
<1> SUFFICES ASSUME WatchInv, [Next]_webVars
             PROVE  SamplesIfRunning' /\ StartsIfWatching'
  BY TypeNext DEF WatchInv
<1>1. TypeOK /\ SamplesIfRunning /\ StartsIfWatching
  BY DEF WatchInv
<1>2. CASE Gone
  BY <1>2 DEF Gone, SamplesIfRunning, StartsIfWatching
<1>3. CASE SamplerStep
  <2>1. SamplesIfRunning'
    BY <1>1, <1>3, SamplingGoesOn DEF SamplerStep
  <2> QED
    BY <1>1, <1>3, <2>1
    DEF SamplerStep, MM!SamplerStep, StartsIfWatching
<1>4. CASE StopSampling
  <2>1. SamplesIfRunning'
    BY <1>1, <1>4, SamplingGoesOn DEF StopSampling, HaltMonitor, monitorVars
  <2> QED
    BY <1>1, <1>4, <2>1
    DEF StopSampling, HaltMonitor, MM!Stop, monitorVars, StartsIfWatching
<1>5. CASE UNCHANGED <<monitorVars, request>>
  BY <1>1, <1>5
  DEF monitorVars, SamplesIfRunning, StartsIfWatching, MM!Sampling
<1> QED
  BY <1>2, <1>3, <1>4, <1>5, WatchRequestStep
  DEF Next, ServiceStep, StartService, Listen, BeginShutdown, EndShutdown,
      Launch, AskStop, TimerRuns, Exit, Crash, webVars

LEMMA WatchImplies == WatchInv => AddedIsWatched
  BY DEF WatchInv, SamplesIfRunning, StartsIfWatching, AddedIsWatched

\* The two calls of an add leave no target unwatched, for any number of
\* requests that add, remove, start and stop at the same time.
THEOREM TargetsAreWatched == Spec => []AddedIsWatched
  BY TypeInit, WatchInit, WatchNext, WatchImplies, PTL DEF Spec, WatchInv

------------------------------------------------------------------------------
\* Graceful shutdown.

ShutdownInv ==
    /\ phase \in {"draining", "stopped"} => listener = "closed"
    /\ phase = "stopped" => Active = {} \/ timer = 0

LEMMA ShutdownNext == ShutdownInv /\ [Next]_webVars => ShutdownInv'
<1> SUFFICES ASSUME ShutdownInv, [Next]_webVars PROVE ShutdownInv'
  OBVIOUS
<1>1. ASSUME NEW r \in Requests, RequestStep(r) PROVE ShutdownInv'
  <2>1. UNCHANGED serviceVars
    BY <1>1 DEF RequestStep, Accept, AddTarget, StartMonitor, RemoveTarget,
                StopMonitor, Query
  <2>2. CASE \E c \in Calls : Accept(r, c)
    BY <2>1, <2>2 DEF Accept, ShutdownInv, serviceVars
  <2>3. CASE ~\E c \in Calls : Accept(r, c)
    <3>1. r \in Active
      BY <1>1, <2>3 DEF RequestStep, AddTarget, StartMonitor, RemoveTarget,
                        StopMonitor, Query, Active
    <3> QED
      BY <2>1, <3>1 DEF ShutdownInv, serviceVars
  <2> QED
    BY <2>2, <2>3
<1>2. CASE Gone
  BY <1>2 DEF Gone, ShutdownInv
<1>3. CASE SamplerStep \/ ServiceStep \/ Launch \/ AskStop \/ UNCHANGED webVars
  <2>1. Active' = Active
    BY <1>3 DEF SamplerStep, ServiceStep, StartService, Listen, StopSampling,
                BeginShutdown, EndShutdown, Launch, AskStop, webVars, Active
  <2> QED
    BY <1>3, <2>1
    DEF SamplerStep, ServiceStep, StartService, Listen, StopSampling,
        BeginShutdown, EndShutdown, Launch, AskStop, webVars, serviceVars,
        ShutdownInv
<1>4. CASE TimerRuns
  BY <1>4 DEF TimerRuns, ShutdownInv
<1> QED
  BY <1>1, <1>2, <1>3, <1>4 DEF Next, Exit, Crash

\* The monitor is stopped first and the listener closed after, and still no
\* request is cut off while the timeout of Shutdown runs.
THEOREM ShutdownIsGraceful == Spec => []CutOnlyAfterTimeout
<1>1. Init => ShutdownInv
  BY DEF Init, ShutdownInv
<1>2. ShutdownInv => CutOnlyAfterTimeout
  BY DEF ShutdownInv, CutOnlyAfterTimeout
<1> QED
  BY <1>1, <1>2, ShutdownNext, PTL DEF Spec

==============================================================================
