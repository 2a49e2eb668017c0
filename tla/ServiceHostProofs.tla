-------------------------- MODULE ServiceHostProofs --------------------------
(***************************************************************************)
(* Proofs about ServiceHost, for all its timeouts: whatever the manager    *)
(* and the administrator do, the process keeps the promises of WebService; *)
(* and the polls of an uninstall outlast every shutdown.                   *)
(***************************************************************************)
EXTENDS ServiceHost, WebServiceProofs

------------------------------------------------------------------------------
\* The host only restricts and observes the process.

LEMMA HostNextNext == [HostNext]_vars => [Next]_webVars
<1> SUFFICES ASSUME [HostNext]_vars PROVE [Next]_webVars
  OBVIOUS
<1>1. CASE Inside
  BY <1>1 DEF Inside, Next, ServiceStep
<1>2. CASE Command
  BY <1>2 DEF Command, Install, Reload, InstallFile, UninstallFile, StopCommand,
              PollStop, UninstallCommand, Uninstall, PollUninstall, Delete
<1>3. CASE Manager
  BY <1>3 DEF Manager, StartUnit, StartAtTerminal, Recover, RunUnit, Started,
              KillSignal, SystemctlStop, SystemctlStopEarly, TimeoutStop,
              ReceiveSignal, ExitReported, CrashNoticed, Next, ServiceStep
<1>4. CASE CrashNoticed \/ Tick \/ UNCHANGED vars
  BY <1>4 DEF CrashNoticed, Tick, vars, Next
<1> QED
  BY <1>1, <1>2, <1>3, <1>4 DEF HostNext

\* Under every manager the process behaves as WebService says, so that its
\* targets are watched and its requests are not cut off early there, too.
THEOREM HostRunsWebService == HostSpec => Spec
  BY HostNextNext, PTL DEF HostSpec, HostInit, Spec

------------------------------------------------------------------------------
\* Type correctness.

\* The type of admin.polls needs that an uninstall never polls in vain.
PollsLeft == admin.cmd = "uninstall" => admin.polls > 0

HostTypeInv == TypeOK /\ HostTypeOK /\ PollsLeft

AdminType == [cmd : {"none", "stop", "uninstall", "delete"},
              polls : 0 .. UninstallPolls,
              due : BOOLEAN, sent : BOOLEAN, failed : BOOLEAN]

LEMMA NoCommandType == NoCommand \in AdminType
  BY HostAssumption DEF NoCommand, AdminType

LEMMA HostTypeInit == HostInit => HostTypeInv
<1> SUFFICES ASSUME HostInit PROVE HostTypeInv
  OBVIOUS
<1>1. TypeOK
  BY TypeInit DEF HostInit
<1>2. admin \in AdminType
  BY NoCommandType DEF HostInit
<1>3. phase = "none"
  BY DEF HostInit, Init
<1>4. HostTypeOK
  BY <1>2, <1>3 DEF HostInit, HostTypeOK, AdminType
<1>5. PollsLeft
  BY DEF HostInit, NoCommand, PollsLeft
<1> QED
  BY <1>1, <1>4, <1>5 DEF HostTypeInv

LEMMA TypeInside == ASSUME HostTypeInv, Inside PROVE HostTypeOK'
<1>1. UNCHANGED hostVars
  BY DEF Inside
<1>2. phase' = "none" <=> phase = "none"
  <2>1. ASSUME NEW r \in Requests, RequestStep(r) PROVE phase' = phase
    BY <2>1 DEF RequestStep, Accept, AddTarget, StartMonitor, RemoveTarget,
                StopMonitor, Query, serviceVars
  <2> QED
    BY <2>1 DEF Inside, SamplerStep, Listen, StopSampling, BeginShutdown,
                EndShutdown, serviceVars
<1> QED
  BY <1>1, <1>2 DEF HostTypeInv, HostTypeOK, hostVars, unitVars

LEMMA TypeReaped ==
    ASSUME HostTypeInv, Gone, Reaped,
           recovery' \in {Nil, RecoveryDelay}, wanted' \in BOOLEAN
    PROVE  HostTypeOK'
<1>1. phase' = "none" /\ state' = "Stopped" /\ deletePending' = FALSE
  BY DEF Gone, Reaped
<1>2. signal' = "none" /\ UNCHANGED <<mode, file, admin>>
  BY DEF Reaped
<1>3. recovery' \in {Nil} \cup 0 .. RecoveryDelay
  BY HostAssumption
<1>4. unit' \in {Nil} \cup SUBSET {"-service", "-config"}
  BY DEF Reaped, HostTypeInv, HostTypeOK
<1> QED
  BY <1>1, <1>2, <1>3, <1>4 DEF HostTypeInv, HostTypeOK

LEMMA TypeEnded ==
    ASSUME HostTypeInv, Gone, NEW clean \in BOOLEAN, Ended(clean)
    PROVE  HostTypeOK'
<1>1. recovery' \in {Nil, RecoveryDelay}
  BY DEF Ended
<1>2. wanted' \in BOOLEAN
  BY DEF Ended, HostTypeInv, HostTypeOK
<1> QED
  BY <1>1, <1>2, TypeReaped DEF Ended

LEMMA TypeManager == ASSUME HostTypeInv, Manager PROVE HostTypeOK'
<1> USE DEF HostTypeInv
<1>1. CASE ExitReported \/ TimeoutStop
  BY <1>1, TypeEnded DEF ExitReported, TimeoutStop, CrashNoticed, Exit, Crash
<1>2. CASE StartUnit \/ Recover
  <2>1. UNCHANGED <<unitVars, signal, admin>> /\ recovery' = Nil
    BY <1>2 DEF StartUnit, Recover
  <2>2. wanted' \in BOOLEAN
    BY <1>2 DEF StartUnit, Recover, HostTypeOK
  <2>3. CASE UNCHANGED <<webVars, state>>
    <3>1. phase' = phase
      BY <2>3 DEF webVars, serviceVars
    <3> QED
      BY <2>1, <2>2, <2>3, <3>1 DEF HostTypeOK, unitVars
  <2>4. CASE Launch /\ state' \in {"StartPending", "Running"} /\ ~deletePending
    BY <2>1, <2>2, <2>4 DEF Launch, HostTypeOK, unitVars
  <2> QED
    BY <1>2, <2>3, <2>4 DEF StartUnit, Recover, RunUnit
<1>3. CASE StartAtTerminal \/ Started
  BY <1>3 DEF StartAtTerminal, Started, Launch, StartService, HostTypeOK,
              unitVars
<1>4. CASE KillSignal
  BY <1>4 DEF KillSignal, Notify, HostTypeOK, unitVars, webVars, serviceVars
<1>5. CASE SystemctlStop
  BY <1>5 DEF SystemctlStop, Notify, HostTypeOK, unitVars, webVars, serviceVars
<1>6. CASE ReceiveSignal
  BY <1>6 DEF ReceiveSignal, AskStop, HostTypeOK, unitVars, webVars, serviceVars
<1>7. CASE SystemctlStopEarly
  BY <1>7, TypeReaped DEF SystemctlStopEarly, Crash
<1> QED
  BY <1>1, <1>2, <1>3, <1>4, <1>5, <1>6, <1>7 DEF Manager

LEMMA TypeCommand == ASSUME HostTypeInv, Command PROVE HostTypeOK'
<1>1. /\ UNCHANGED <<webVars, mode, state, recovery>>
      /\ phase' = phase
  BY DEF Command, Install, Reload, InstallFile, UninstallFile, StopCommand,
         PollStop, UninstallCommand, Uninstall, PollUninstall, Delete, unitVars,
         webVars, serviceVars
<1>2. HostTypeOK /\ admin \in AdminType
  BY DEF HostTypeInv, HostTypeOK, AdminType
<1>3. NoCommand \in AdminType
  BY NoCommandType
<1>4. file' \in BOOLEAN /\ wanted' \in BOOLEAN
  BY <1>2 DEF Command, Install, Reload, InstallFile, UninstallFile, StopCommand,
              PollStop, UninstallCommand, Uninstall, PollUninstall, Delete,
              unitVars, HostTypeOK
<1>5. signal' \in {"none", "stop", "hup"}
  BY <1>2 DEF Command, Install, Reload, InstallFile, UninstallFile, StopCommand,
              PollStop, UninstallCommand, Uninstall, PollUninstall, Delete,
              Control, Notify, HostTypeOK
<1>6. unit' \in {Nil} \cup SUBSET {"-service", "-config"}
  BY <1>2, HostAssumption
  DEF Command, Install, Reload, InstallFile, UninstallFile, StopCommand,
      PollStop, UninstallCommand, Uninstall, PollUninstall, Delete,
      InstalledArgs, unitVars, HostTypeOK
<1>7. deletePending' \in BOOLEAN /\ (deletePending' => phase # "none")
  <2>1. CASE deletePending' = (state # "Stopped")
    BY <1>2, <2>1 DEF HostTypeOK
  <2>2. CASE UNCHANGED deletePending
    BY <1>2, <2>2 DEF HostTypeOK
  <2> QED
    BY <2>1, <2>2
    DEF Command, Install, Reload, InstallFile, UninstallFile, StopCommand,
        PollStop, UninstallCommand, Uninstall, PollUninstall, Delete, unitVars
<1>8. admin' \in AdminType
  <2>1. CASE StopCommand
    BY <1>3, <2>1 DEF StopCommand, AdminType
  <2>2. CASE PollStop
    BY <1>2, <1>3, <2>2 DEF PollStop, AdminType
  <2>3. CASE UninstallCommand
    <3>1. UninstallPolls \in 0 .. UninstallPolls
      BY HostAssumption
    <3>2. (state = "Running") \in BOOLEAN
      OBVIOUS
    <3> QED
      BY <1>3, <2>3, <3>1, <3>2 DEF UninstallCommand, Uninstall, AdminType
  <2>4. CASE PollUninstall
    <3>1. admin.polls - 1 \in 0 .. UninstallPolls
      BY <1>2, <2>4, HostAssumption
      DEF PollUninstall, AdminType, HostTypeInv, PollsLeft
    <3> QED
      BY <1>2, <2>4, <3>1 DEF PollUninstall, AdminType
  <2>5. CASE Install \/ Reload \/ InstallFile \/ UninstallFile \/ Delete
    BY <1>2, <1>3, <2>5 DEF Install, Reload, InstallFile, UninstallFile, Delete
  <2> QED
    BY <2>1, <2>2, <2>3, <2>4, <2>5 DEF Command
<1> QED
  BY <1>1, <1>2, <1>4, <1>5, <1>6, <1>7, <1>8 DEF HostTypeOK, AdminType

LEMMA TypeTick == ASSUME HostTypeInv, Tick PROVE HostTypeOK'
<1>1. phase' = phase
  BY DEF Tick, TimerRuns, webVars, serviceVars
<1>2. recovery' \in {Nil} \cup 0 .. RecoveryDelay
  BY HostAssumption DEF HostTypeInv, HostTypeOK, Tick, Urgent
<1>3. admin' \in [cmd : {"none", "stop", "uninstall", "delete"},
                  polls : 0 .. UninstallPolls,
                  due : BOOLEAN, sent : BOOLEAN, failed : BOOLEAN]
  <2>1. admin' = [admin EXCEPT !.due = Polling] /\ Polling \in BOOLEAN
    BY DEF Tick, Polling
  <2> QED
    BY <2>1 DEF HostTypeInv, HostTypeOK
<1> QED
  BY <1>1, <1>2, <1>3 DEF HostTypeInv, HostTypeOK, Tick, unitVars

LEMMA PollsLeftNext ==
    ASSUME HostTypeInv, [HostNext]_vars
    PROVE  PollsLeft'
<1>1. admin \in AdminType /\ PollsLeft
  BY DEF HostTypeInv, HostTypeOK, AdminType
<1>2. CASE admin' = admin \/ admin' = NoCommand
  BY <1>1, <1>2 DEF PollsLeft, NoCommand
<1>3. CASE StopCommand \/ PollStop \/ Delete
  <2>1. CASE admin' = [admin EXCEPT !.due = FALSE] /\ admin.cmd = "stop"
    BY <1>1, <2>1 DEF PollsLeft, AdminType
  <2>2. CASE admin' = [NoCommand EXCEPT !.cmd = "stop", !.sent = TRUE]
    BY <2>2 DEF PollsLeft, NoCommand
  <2> QED
    BY <1>2, <1>3, <2>1, <2>2 DEF StopCommand, PollStop, Delete
<1>4. CASE UninstallCommand
  <2>1. CASE admin' = [NoCommand EXCEPT !.cmd = "uninstall",
                                        !.polls = UninstallPolls,
                                        !.sent = (state = "Running")]
    <3>1. admin'.polls = UninstallPolls
      BY <2>1 DEF NoCommand
    <3> QED
      BY <3>1, HostAssumption, HostTiming, WebAssumption DEF PollsLeft
  <2>2. CASE admin'.cmd = "delete"
    BY <2>2 DEF PollsLeft
  <2> QED
    BY <1>4, <2>1, <2>2 DEF UninstallCommand, Uninstall, NoCommand
<1>5. CASE PollUninstall
  <2>1. CASE admin'.cmd = "delete"
    BY <2>1 DEF PollsLeft
  <2>2. CASE /\ admin.polls > 1
             /\ admin' = [admin EXCEPT !.polls = @ - 1, !.due = FALSE]
    BY <1>1, <2>2, HostAssumption DEF PollsLeft, AdminType
  <2> QED
    BY <1>1, <1>5, <2>1, <2>2 DEF PollUninstall, AdminType
<1>6. CASE Tick
  BY <1>1, <1>6 DEF Tick, PollsLeft, AdminType
<1>7. CASE Inside \/ Manager \/ CrashNoticed
  BY <1>2, <1>7
  DEF Inside, Manager, StartUnit, StartAtTerminal, Recover, Started, KillSignal,
      SystemctlStop, SystemctlStopEarly, TimeoutStop, ReceiveSignal,
      ExitReported, CrashNoticed, Ended, Reaped, hostVars
<1>8. CASE Install \/ Reload \/ InstallFile \/ UninstallFile \/ UNCHANGED vars
  BY <1>2, <1>8 DEF Install, Reload, InstallFile, UninstallFile, vars, hostVars
<1> QED
  BY <1>3, <1>4, <1>5, <1>6, <1>7, <1>8 DEF HostNext, Command

LEMMA HostTypeNext == HostTypeInv /\ [HostNext]_vars => HostTypeInv'
<1> SUFFICES ASSUME HostTypeInv, [HostNext]_vars PROVE HostTypeInv'
  OBVIOUS
<1>1. TypeOK'
  BY HostNextNext, TypeNext DEF HostTypeInv
<1>2. HostTypeOK'
  <2>1. CASE CrashNoticed
    BY <2>1, TypeEnded DEF CrashNoticed, Crash
  <2>2. CASE UNCHANGED vars
    BY <2>2 DEF vars, hostVars, unitVars, webVars, serviceVars, HostTypeInv,
                HostTypeOK
  <2> QED
    BY <2>1, <2>2, TypeInside, TypeManager, TypeCommand, TypeTick DEF HostNext
<1> QED
  BY <1>1, <1>2, PollsLeftNext DEF HostTypeInv

\* The variables keep their types, and a manager takes a service for stopped
\* exactly when it has no process.
THEOREM HostTypeCorrect == HostSpec => []HostTypeOK
  BY HostTypeInit, HostTypeNext, PTL DEF HostSpec, HostTypeInv

------------------------------------------------------------------------------
\* Uninstall outlasts the shutdown.

Used == UninstallPolls - admin.polls + (IF admin.due THEN 1 ELSE 0)

\* What only concerns the service control manager: it sends no SIGHUP, and
\* waits to restart a service only while that has no process.
ScmInv ==
    /\ admin.cmd \in {"uninstall", "delete"} => mode = "scm"
    /\ mode = "scm" => signal # "hup"
    /\ mode = "scm" /\ phase # "none" => recovery = Nil

\* While an uninstall waits for a service it told to stop, the polls used and
\* what is left of the timeout of Shutdown add up to no more than that timeout;
\* and when the process died instead, the manager will not restart it before
\* the next poll.
Waited ==
    \/ phase = "up" /\ signal = "stop" /\ Used = 0
    \/ phase \in {"stopping", "shutdown"} /\ Used = 0
    \/ phase = "draining" /\ timer + Used <= ShutdownTimeout
    \/ phase = "stopped" /\ Used <= ShutdownTimeout
    \/ /\ phase = "none"
       /\ recovery # Nil => recovery >= 1 /\ (~admin.due => recovery >= 2)

WaitInv == admin.cmd = "uninstall" /\ admin.sent => Waited

DeleteInv ==
    admin.cmd = "delete" /\ admin.sent /\ ~admin.failed =>
        state = "Stopped" /\ (recovery # Nil => recovery >= 1)

StopInv == HostTypeInv /\ ScmInv /\ WaitInv /\ DeleteInv

LEMMA ScmNext ==
    ASSUME HostTypeInv, ScmInv, [HostNext]_vars
    PROVE  ScmInv'
<1>1. mode' = mode
  BY DEF HostNext, Inside, Command, Manager, Install, Reload, InstallFile,
         UninstallFile, StopCommand, PollStop, UninstallCommand, Uninstall,
         PollUninstall, Delete, StartUnit, StartAtTerminal, Recover, Started,
         KillSignal, SystemctlStop, SystemctlStopEarly, TimeoutStop,
         ReceiveSignal, ExitReported, CrashNoticed, Ended, Reaped, Tick, vars,
         hostVars, unitVars
<1>2. admin \in AdminType
  BY DEF HostTypeInv, HostTypeOK, AdminType
<1>3. admin'.cmd \in {"uninstall", "delete"} => mode = "scm"
  <2>1. CASE admin' = admin \/ admin' = NoCommand \/ UninstallCommand
    BY <2>1 DEF ScmInv, NoCommand, UninstallCommand, Uninstall
  <2>2. CASE StopCommand
    BY <2>2 DEF StopCommand
  <2>3. CASE PollStop \/ PollUninstall \/ Tick
    BY <1>2, <2>3
    DEF PollStop, PollUninstall, Tick, ScmInv, NoCommand, AdminType
  <2> QED
    BY <2>1, <2>2, <2>3
    DEF HostNext, Inside, Command, Manager, Install, Reload, InstallFile,
        UninstallFile, Delete, StartUnit, StartAtTerminal, Recover, Started,
        KillSignal, SystemctlStop, SystemctlStopEarly, TimeoutStop,
        ReceiveSignal, ExitReported, CrashNoticed, Ended, Reaped, vars, hostVars
<1>4. mode = "scm" => signal' # "hup"
  BY DEF ScmInv, HostNext, Inside, Command, Manager, Install, Reload,
         InstallFile, UninstallFile, StopCommand, PollStop, UninstallCommand,
         Uninstall, PollUninstall, Delete, Control, Notify, StartUnit,
         StartAtTerminal, Recover, Started, KillSignal, SystemctlStop,
         SystemctlStopEarly, TimeoutStop, ReceiveSignal, ExitReported,
         CrashNoticed, Ended, Reaped, Tick, vars, hostVars
<1>5. mode = "scm" /\ phase' # "none" => recovery' = Nil
  <2>1. CASE CrashNoticed \/ ExitReported \/ TimeoutStop
    BY <2>1 DEF CrashNoticed, ExitReported, TimeoutStop, Crash, Exit, Gone
  <2>2. CASE StartUnit \/ Recover
    BY <2>2 DEF StartUnit, Recover
  <2>3. CASE \/ StartAtTerminal \/ KillSignal
             \/ SystemctlStop \/ SystemctlStopEarly
    BY <2>3
    DEF StartAtTerminal, KillSignal, SystemctlStop, SystemctlStopEarly
  <2>4. CASE Started \/ ReceiveSignal \/ Inside
    <3>1. UNCHANGED recovery
      BY <2>4 DEF Started, ReceiveSignal, Inside, hostVars
    <3>2. phase # "none" \/ UNCHANGED phase
      <4>1. ASSUME NEW r \in Requests, RequestStep(r) PROVE UNCHANGED phase
        BY <4>1 DEF RequestStep, Accept, AddTarget, StartMonitor, RemoveTarget,
                    StopMonitor, Query, serviceVars
      <4> QED
        BY <2>4, <4>1 DEF Started, StartService, ReceiveSignal, Inside,
                          SamplerStep, Listen, StopSampling, BeginShutdown,
                          EndShutdown, serviceVars
    <3> QED
      BY <3>1, <3>2 DEF ScmInv
  <2>5. CASE Command \/ UNCHANGED vars
    BY <2>5
    DEF ScmInv, Command, Install, Reload, InstallFile, UninstallFile,
        StopCommand, PollStop, UninstallCommand, Uninstall, PollUninstall,
        Delete, vars, hostVars, webVars, serviceVars
  <2>6. CASE Tick
    BY <2>6 DEF ScmInv, Tick, TimerRuns, webVars, serviceVars
  <2> QED
    BY <2>1, <2>2, <2>3, <2>4, <2>5, <2>6 DEF HostNext, Manager
<1> QED
  BY <1>1, <1>3, <1>4, <1>5 DEF ScmInv

\* The command waits and deletes as before: only the process moves.
LEMMA WaitInside ==
    ASSUME StopInv, Inside \/ ReceiveSignal
    PROVE  WaitInv' /\ DeleteInv'
<1>1. /\ UNCHANGED <<admin, recovery>> /\ Used' = Used
      /\ state' = state \/ phase # "none"
  BY DEF Inside, ReceiveSignal, AskStop, hostVars, Used
<1>2. DeleteInv'
  BY <1>1 DEF StopInv, DeleteInv, HostTypeInv, HostTypeOK
<1>3. Waited => Waited' \/ mode # "scm"
  <2>1. CASE ReceiveSignal
    BY <1>1, <2>1
    DEF ReceiveSignal, AskStop, webVars, serviceVars, Waited, StopInv, ScmInv
  <2>2. CASE Inside
    <3>1. ASSUME NEW r \in Requests, RequestStep(r) PROVE UNCHANGED serviceVars
      BY <3>1 DEF RequestStep, Accept, AddTarget, StartMonitor, RemoveTarget,
                  StopMonitor, Query
    <3>2. CASE UNCHANGED <<phase, timer>>
      BY <1>1, <2>2, <3>2 DEF Inside, hostVars, Waited
    <3>3. CASE StopSampling
      BY <1>1, <3>3 DEF StopSampling, Waited
    <3>4. CASE BeginShutdown
      BY <1>1, <3>4, WebAssumption DEF BeginShutdown, Waited
    <3>5. CASE EndShutdown
      <4>1. timer \in Nat /\ Used \in Int
        BY HostAssumption
        DEF StopInv, HostTypeInv, TypeOK, HostTypeOK, Used
      <4> QED
        BY <1>1, <3>5, <4>1, WebAssumption DEF EndShutdown, Waited
    <3> QED
      BY <2>2, <3>1, <3>2, <3>3, <3>4, <3>5
      DEF Inside, SamplerStep, Listen, serviceVars
  <2> QED
    BY <2>1, <2>2
<1>4. WaitInv'
  BY <1>1, <1>3 DEF StopInv, WaitInv, ScmInv
<1> QED
  BY <1>2, <1>4

LEMMA WaitEnded ==
    ASSUME StopInv, CrashNoticed \/ ExitReported \/ TimeoutStop
    PROVE  WaitInv' /\ DeleteInv'
<1>1. phase' = "none" /\ state' = "Stopped"
  BY DEF CrashNoticed, ExitReported, TimeoutStop, Crash, Exit, Gone, Ended,
         Reaped
<1>2. recovery' # Nil => recovery' >= 2
  BY HostTiming, HostAssumption
  DEF CrashNoticed, ExitReported, TimeoutStop, Ended, Reaped
<1>3. recovery' # Nil => recovery' >= 1
  <2>1. recovery' \in {Nil, RecoveryDelay}
    BY DEF CrashNoticed, ExitReported, TimeoutStop, Ended, Reaped
  <2> QED
    BY <2>1, HostTiming, HostAssumption
<1> QED
  BY <1>1, <1>2, <1>3 DEF WaitInv, DeleteInv, Waited

\* No process is started while a command waits.
LEMMA WaitStart ==
    ASSUME StopInv, StartUnit \/ StartAtTerminal \/ Recover \/ Started
    PROVE  WaitInv' /\ DeleteInv'
<1>1. UNCHANGED admin
  BY DEF StartUnit, StartAtTerminal, Recover, Started
<1>2. CASE StartUnit
  BY <1>1, <1>2 DEF StartUnit, NoCommand, WaitInv, DeleteInv
<1>3. CASE StartAtTerminal
  BY <1>1, <1>3 DEF StartAtTerminal, StopInv, ScmInv, WaitInv, DeleteInv
<1>4. CASE Recover
  <2>1. recovery = 0 /\ recovery # Nil
    BY <1>4, HostAssumption DEF Recover
  <2>2. mode = "scm" => phase = "none"
    BY <2>1 DEF StopInv, ScmInv
  <2>3. ~(admin.cmd = "uninstall" /\ admin.sent)
    BY <2>1, <2>2 DEF StopInv, ScmInv, WaitInv, Waited
  <2>4. ~(admin.cmd = "delete" /\ admin.sent /\ ~admin.failed)
    BY <2>1 DEF StopInv, DeleteInv
  <2> QED
    BY <1>1, <2>3, <2>4 DEF WaitInv, DeleteInv
<1>5. CASE Started
  <2>1. phase = "new"
    BY <1>5 DEF Started, StartService
  <2>2. ~(admin.cmd = "uninstall" /\ admin.sent)
    BY <2>1 DEF StopInv, WaitInv, Waited
  <2>3. ~(admin.cmd = "delete" /\ admin.sent /\ ~admin.failed)
    BY <2>1 DEF StopInv, DeleteInv, HostTypeInv, HostTypeOK
  <2> QED
    BY <1>1, <2>2, <2>3 DEF WaitInv, DeleteInv
<1> QED
  BY <1>2, <1>3, <1>4, <1>5

LEMMA WaitCommand ==
    ASSUME StopInv, Command
    PROVE  WaitInv' /\ DeleteInv'
<1>1. admin \in AdminType /\ UNCHANGED <<phase, timer, state, recovery>>
  BY DEF StopInv, HostTypeInv, HostTypeOK, AdminType, Command, Install, Reload,
         InstallFile, UninstallFile, StopCommand, PollStop, UninstallCommand,
         Uninstall, PollUninstall, Delete, webVars, serviceVars
<1>2. CASE Install \/ Reload \/ InstallFile \/ UninstallFile
  <2>1. UNCHANGED <<admin, signal>>
    BY <1>2 DEF Install, Reload, InstallFile, UninstallFile
  <2> QED
    BY <1>1, <2>1 DEF StopInv, WaitInv, DeleteInv, Waited, Used
<1>3. CASE StopCommand \/ PollStop \/ Delete
  <2>1. CASE admin' = NoCommand
    BY <2>1 DEF NoCommand, WaitInv, DeleteInv
  <2>2. CASE StopCommand
    <3>1. admin'.cmd = "stop"
      BY <2>2 DEF StopCommand, NoCommand
    <3> QED
      BY <3>1 DEF WaitInv, DeleteInv
  <2>3. CASE admin.cmd = "stop" /\ admin' = [admin EXCEPT !.due = FALSE]
    <3>1. admin'.cmd = "stop"
      BY <1>1, <2>3 DEF AdminType
    <3> QED
      BY <3>1 DEF WaitInv, DeleteInv
  <2> QED
    BY <1>3, <2>1, <2>2, <2>3 DEF PollStop, Delete
<1>4. CASE UninstallCommand
  <2>1. CASE admin'.cmd = "delete" /\ admin'.sent = FALSE
    BY <2>1 DEF WaitInv, DeleteInv
  <2>2. CASE /\ Control
             /\ admin' = [NoCommand EXCEPT !.cmd = "uninstall",
                                           !.polls = UninstallPolls,
                                           !.sent = (state = "Running")]
    <3>1. /\ admin'.cmd = "uninstall" /\ admin'.polls = UninstallPolls
          /\ admin'.due = FALSE /\ (admin'.sent => state = "Running")
      BY <2>2 DEF NoCommand
    <3>2. Used' = 0
      BY <3>1, HostAssumption DEF Used
    <3>3. state = "Running" => phase = "up" /\ signal' = "stop"
      BY <1>4, <2>2
      DEF Control, Notify, UninstallCommand, Uninstall, StopInv, ScmInv,
          HostTypeInv, HostTypeOK
    <3> QED
      BY <1>1, <3>1, <3>2, <3>3 DEF WaitInv, Waited, DeleteInv
  <2> QED
    BY <1>4, <2>1, <2>2 DEF UninstallCommand, Uninstall, NoCommand
<1>5. CASE PollUninstall
  <2>1. /\ admin.cmd = "uninstall" /\ admin.due = TRUE /\ signal' = signal
        /\ admin.polls \in 1 .. UninstallPolls
    BY <1>1, <1>5, HostAssumption
    DEF PollUninstall, AdminType, StopInv, HostTypeInv, PollsLeft
  <2>2. timer \in Nat
    BY DEF StopInv, HostTypeInv, TypeOK
  <2>3. CASE /\ state = "Stopped" \/ admin.polls = 1
             /\ admin' = [admin EXCEPT !.cmd = "delete", !.due = FALSE]
    <3>1. admin' = [admin EXCEPT !.cmd = "delete", !.due = FALSE]
      BY <2>3
    <3>2. admin'.cmd = "delete" /\ admin'.sent = admin.sent
      BY <1>1, <3>1 DEF AdminType
    <3>3. admin.sent => Waited
      BY <2>1 DEF StopInv, WaitInv
    <3>4. admin.sent => phase = "none"
      <4>1. CASE state = "Stopped"
        BY <4>1 DEF StopInv, HostTypeInv, HostTypeOK
      <4>2. CASE admin.polls = 1
        <5>1. Used = UninstallPolls
          BY <2>1, <4>2, HostAssumption DEF Used
        <5> QED
          BY <2>2, <3>3, <5>1, HostAssumption, HostTiming, WebAssumption
          DEF Waited
      <4> QED
        BY <2>3, <4>1, <4>2
    <3>5. admin.sent =>
              state = "Stopped" /\ (recovery # Nil => recovery >= 1)
      BY <3>3, <3>4 DEF Waited, StopInv, HostTypeInv, HostTypeOK
    <3> QED
      BY <1>1, <3>2, <3>5 DEF WaitInv, DeleteInv
  <2>4. CASE /\ state # "Stopped" /\ admin.polls > 1
             /\ admin' = [admin EXCEPT !.polls = @ - 1, !.due = FALSE]
    <3>1. admin' = [admin EXCEPT !.polls = admin.polls - 1, !.due = FALSE]
      BY <2>4
    <3>2. /\ admin'.cmd = "uninstall" /\ admin'.sent = admin.sent
          /\ admin'.polls = admin.polls - 1 /\ admin'.due = FALSE
      BY <1>1, <2>1, <3>1 DEF AdminType
    <3>3. Used' = Used
      BY <2>1, <3>2, HostAssumption DEF Used
    <3>4. phase # "none"
      BY <2>4 DEF StopInv, HostTypeInv, HostTypeOK
    <3> QED
      BY <1>1, <2>1, <3>2, <3>3, <3>4 DEF StopInv, WaitInv, Waited, DeleteInv
  <2>5. CASE admin' = [admin EXCEPT !.cmd = "delete", !.due = FALSE,
                                    !.failed = TRUE]
    <3>1. admin'.cmd = "delete" /\ admin'.failed = TRUE
      BY <1>1, <2>5 DEF AdminType
    <3> QED
      BY <3>1 DEF WaitInv, DeleteInv
  <2> QED
    BY <1>5, <2>3, <2>4, <2>5 DEF PollUninstall
<1> QED
  BY <1>2, <1>3, <1>4, <1>5 DEF Command

LEMMA WaitTick ==
    ASSUME StopInv, Tick
    PROVE  WaitInv' /\ DeleteInv'
<1>1. /\ admin \in AdminType /\ timer \in Nat
      /\ recovery \in {Nil} \cup Nat /\ admin.polls \in Int
  BY HostAssumption
  DEF StopInv, HostTypeInv, HostTypeOK, TypeOK, AdminType
<1>2. /\ admin' = [admin EXCEPT !.due = Polling]
      /\ UNCHANGED <<signal, phase>> /\ ~Urgent
  BY DEF Tick, TimerRuns, webVars, serviceVars
<1>3. admin'.cmd = admin.cmd /\ admin'.sent = admin.sent
      /\ admin'.polls = admin.polls /\ admin'.due = Polling
  BY <1>1, <1>2 DEF AdminType
<1>4. admin.cmd # "delete" /\ admin.due = FALSE
  BY <1>1, <1>2 DEF Urgent, AdminType
<1>5. DeleteInv'
  BY <1>3, <1>4 DEF DeleteInv
<1>6. ASSUME admin.cmd = "uninstall", admin.sent PROVE Waited'
  <2>1. Waited /\ admin'.due = TRUE
    BY <1>3, <1>6 DEF StopInv, WaitInv, Polling
  <2>2. Used' = Used + 1
    BY <1>1, <1>3, <1>4, <2>1, HostAssumption DEF Used
  <2>3. phase = "draining" \/ phase = "none"
    BY <1>2, <2>1 DEF Waited, Urgent
  <2>4. CASE phase = "draining"
    <3>1. timer' = timer - 1 /\ Used \in Int
      BY <1>1, <2>4, HostAssumption DEF Tick, TimerRuns, Used
    <3> QED
      BY <1>1, <1>2, <2>1, <2>2, <2>4, <3>1, WebAssumption DEF Waited
  <2>5. CASE phase = "none"
    <3>1. recovery # Nil => recovery >= 2 /\ recovery' = recovery - 1
      BY <1>4, <2>1, <2>5 DEF Waited, Tick
    <3>2. recovery = Nil => recovery' = Nil
      BY DEF Tick
    <3> QED
      BY <1>1, <1>2, <2>1, <2>5, <3>1, <3>2 DEF Waited
  <2> QED
    BY <2>3, <2>4, <2>5
<1> QED
  BY <1>3, <1>5, <1>6 DEF WaitInv

LEMMA StopNext == StopInv /\ [HostNext]_vars => StopInv'
<1> SUFFICES ASSUME StopInv, [HostNext]_vars
             PROVE  WaitInv' /\ DeleteInv'
  BY HostTypeNext, ScmNext DEF StopInv
<1>1. CASE KillSignal \/ SystemctlStop \/ SystemctlStopEarly
  <2>1. UNCHANGED admin /\ mode # "scm"
    BY <1>1 DEF KillSignal, SystemctlStop, SystemctlStopEarly, Reaped
  <2> QED
    BY <2>1 DEF StopInv, ScmInv, WaitInv, DeleteInv
<1>2. CASE UNCHANGED vars
  BY <1>2 DEF vars, hostVars, webVars, serviceVars, StopInv, WaitInv, DeleteInv,
              Waited, Used
<1> QED
  BY <1>1, <1>2, WaitInside, WaitEnded, WaitStart, WaitCommand, WaitTick
  DEF HostNext, Manager

LEMMA StopInit == HostInit => StopInv
<1> SUFFICES ASSUME HostInit PROVE StopInv
  OBVIOUS
<1>1. admin.cmd = "none" /\ signal = "none" /\ recovery = Nil
  BY DEF HostInit, NoCommand
<1> QED
  BY <1>1, HostTypeInit DEF StopInv, ScmInv, WaitInv, DeleteInv

\* For every timeout of Shutdown and every greater number of polls: a service
\* that an uninstall told to stop is stopped when it is deleted, unless a query
\* of its state failed and ended the polls.
THEOREM UninstallWaits == HostSpec => []DeletesStopped
<1>1. StopInv => DeletesStopped
  BY DEF StopInv, DeleteInv, DeletesStopped
<1> QED
  BY <1>1, StopInit, StopNext, PTL DEF HostSpec

==============================================================================
