----------------------------- MODULE ServiceHost -----------------------------
(***************************************************************************)
(* Who starts and stops the process of WebService: the Windows service     *)
(* control manager and the handler of service/service_windows.go, systemd  *)
(* and the signal loop of service/service_linux.go, or a user at a         *)
(* terminal (cmd/web/main.go).  One administrator at a time runs the       *)
(* program's own commands: install, uninstall, start, stop.                *)
(*                                                                         *)
(* The managers themselves are not part of the code: they are modelled by  *)
(* how the code uses them.  Time passes in seconds; statements that wait   *)
(* for nothing take no time.                                               *)
(***************************************************************************)
EXTENDS WebService

CONSTANTS
    Modes,              \* of "scm", "systemd", "terminal"
    UninstallPolls,     \* 10 in the code, one second apart
    RecoveryDelay,      \* the first recovery action and RestartSec: 5 s
    Repairs             \* arguments an administrator may register by hand

ASSUME HostAssumption ==
    /\ Repairs \subseteq SUBSET {"-service", "-config"}
    /\ UninstallPolls \in Nat /\ RecoveryDelay \in Nat
    /\ Nil \notin Nat

\* 5 < 10, and the manager does not restart a service at once.
ASSUME HostTiming == ShutdownTimeout < UninstallPolls /\ RecoveryDelay > 1

VARIABLES
    mode,           \* who runs the process; never changes
    unit,           \* the arguments the manager starts it with, or Nil
    file,           \* the unit file is on disk (systemd)
    state,          \* the state of the service, as the manager knows it
    deletePending,  \* DeleteService was called while the service ran (scm)
    recovery,       \* seconds to the automatic restart, or Nil
    signal,         \* in the channel the main goroutine receives from
    admin,          \* the command being run
    wanted          \* the operator wants it to run; not in the code

unitVars == <<mode, unit, file, deletePending>>
hostVars == <<unitVars, state, recovery, signal, admin, wanted>>
vars == <<webVars, hostVars>>

------------------------------------------------------------------------------
\* Starting the process.

\* The flags main defines, of those a service may be started with.
Flags == {"-service"}

\* The arguments InstallService registers.
InstalledArgs(m) ==
    IF m = "scm" THEN {"-service", "-config"} ELSE {"-service"}

\* flag.Parse ends the process when it meets a flag main does not define.
Parses(args) == args \subseteq Flags

\* sent: the service accepted the control request; failed: a query failed.
NoCommand == [cmd |-> "none", polls |-> 0, due |-> FALSE, sent |-> FALSE,
              failed |-> FALSE]

\* The manager starts the process, which may end at once.
RunUnit ==
    /\ unit # Nil /\ ~deletePending
    /\ state = "Stopped"
    /\ IF Parses(unit)
       THEN /\ Launch
            /\ state' = IF mode = "scm" THEN "StartPending" ELSE "Running"
       ELSE UNCHANGED <<webVars, state>>

\* -start, systemctl start, or the boot.
StartUnit ==
    /\ admin = NoCommand
    /\ RunUnit
    /\ recovery' = Nil
    /\ wanted' = TRUE
    /\ UNCHANGED <<unitVars, signal, admin>>

StartAtTerminal ==
    /\ mode = "terminal"
    /\ Launch
    /\ state' = "Running"
    /\ UNCHANGED <<unitVars, recovery, signal, admin, wanted>>

\* Faulty: the restart is forgotten when it is due.
RecoverNever ==
    /\ recovery = 0
    /\ recovery' = Nil
    /\ UNCHANGED <<webVars, unitVars, state, signal, admin, wanted>>

Recover ==
    /\ recovery = 0
    /\ recovery' = Nil
    /\ \/ RunUnit
       \/ /\ unit = Nil \/ deletePending \/ state # "Stopped"
          /\ UNCHANGED <<webVars, state>>
    /\ UNCHANGED <<unitVars, signal, admin, wanted>>

\* Service.Start has returned: Execute reports Running, or the signals are
\* registered.
Started ==
    /\ StartService
    /\ state' = "Running"
    /\ UNCHANGED <<unitVars, recovery, signal, admin, wanted>>

------------------------------------------------------------------------------
\* Stopping it.

\* A signal or a control request; a full channel loses it.
Notify(s) ==
    /\ phase = "up"
    /\ signal' = IF signal = "none" THEN s ELSE signal

\* Faulty: Execute reports Stopped before it stops.
ReceiveAndReport ==
    /\ phase = "up"
    /\ signal # "none"
    /\ signal' = "none"
    /\ \/ /\ signal = "stop"
          /\ AskStop
          /\ state' = IF mode = "scm" THEN "Stopped" ELSE state
       \/ /\ signal = "hup"
          /\ UNCHANGED <<webVars, state>>
    /\ UNCHANGED <<unitVars, recovery, admin, wanted>>

\* Execute reports StopPending; SIGHUP is only logged.
ReceiveSignal ==
    /\ phase = "up"
    /\ signal # "none"
    /\ signal' = "none"
    /\ \/ /\ signal = "stop"
          /\ AskStop
          /\ state' = IF mode = "scm" THEN "StopPending" ELSE state
       \/ /\ signal = "hup"
          /\ UNCHANGED <<webVars, state>>
    /\ UNCHANGED <<unitVars, recovery, admin, wanted>>

\* The process is gone; a deletion that waited for that is carried out.
Reaped ==
    /\ state' = "Stopped"
    /\ signal' = "none"
    /\ unit' = IF deletePending THEN Nil ELSE unit
    /\ deletePending' = FALSE
    /\ UNCHANGED <<mode, file, admin>>

\* The manager notices the end of the process.  systemd restarts it unless it
\* asked for the stop; the SCM unless Execute reported Stopped.
Ended(clean) ==
    /\ Reaped
    /\ wanted' = wanted
    /\ recovery' = IF \/ mode = "systemd" /\ state # "StopPending"
                      \/ mode = "scm" /\ ~clean
                   THEN RecoveryDelay ELSE Nil

ExitReported == Exit /\ Ended(TRUE)
CrashNoticed == Crash /\ Ended(FALSE)

\* kill -HUP or kill -TERM.  Before the signals are registered, and for
\* SIGHUP at a terminal, the process dies of it, as in CrashNoticed.
KillSignal ==
    /\ mode # "scm"
    /\ \/ Notify("stop")
       \/ mode = "systemd" /\ Notify("hup")
    /\ UNCHANGED <<webVars, unitVars, state, recovery, admin, wanted>>

\* A SIGTERM for a process that stops already stays in the channel.
SystemctlStop ==
    /\ mode = "systemd"
    /\ wanted' = FALSE
    /\ \/ /\ state = "Running" /\ phase # "new"
          /\ state' = "StopPending"
          /\ IF phase = "up" THEN Notify("stop") ELSE UNCHANGED signal
          /\ UNCHANGED recovery
       \/ /\ state = "Stopped"
          /\ recovery' = Nil
          /\ UNCHANGED <<state, signal>>
    /\ UNCHANGED <<webVars, unitVars, admin>>

\* systemctl stop before the signals are registered: SIGTERM ends the process.
SystemctlStopEarly ==
    /\ mode = "systemd"
    /\ phase = "new"
    /\ Crash /\ Reaped
    /\ recovery' = Nil
    /\ wanted' = FALSE

\* systemd kills what has not stopped after 90 s: a service that is stopping
\* is faster, so its SIGTERM was lost.
TimeoutStop ==
    /\ mode = "systemd"
    /\ state = "StopPending"
    /\ phase = "up" /\ signal = "none"
    /\ CrashNoticed

------------------------------------------------------------------------------
\* The commands of the program.  Only install and uninstall do anything under
\* systemd.

Install ==
    /\ mode = "scm" /\ unit = Nil
    /\ admin = NoCommand
    /\ unit' = InstalledArgs(mode)
    /\ UNCHANGED <<webVars, mode, file, state, deletePending, recovery, signal,
                   admin, wanted>>

\* Under systemd a file is written, which nobody reads yet.
InstallFile ==
    /\ mode = "systemd"
    /\ admin = NoCommand
    /\ file' = TRUE
    /\ UNCHANGED <<webVars, mode, unit, state, deletePending, recovery, signal,
                   admin, wanted>>

\* systemctl daemon-reload; sc config.  A service that could not be started
\* before has to be started again.
Reload ==
    /\ \/ /\ mode = "systemd"
          /\ unit' = IF file THEN InstalledArgs(mode) ELSE Nil
       \/ /\ mode = "scm" /\ unit # Nil
          /\ unit' \in Repairs
    /\ wanted' = (wanted /\ unit # Nil /\ Parses(unit))
    /\ UNCHANGED <<webVars, mode, file, state, deletePending, recovery, signal,
                   admin>>

UninstallFile ==
    /\ mode = "systemd"
    /\ file' = FALSE
    /\ UNCHANGED <<webVars, mode, unit, state, deletePending, recovery, signal,
                   admin, wanted>>

\* s.Control(svc.Stop) is accepted by a running service only.
Control ==
    IF state = "Running" THEN Notify("stop") ELSE UNCHANGED signal

StopCommand ==
    /\ mode = "scm" /\ unit # Nil
    /\ admin = NoCommand
    /\ state = "Running"
    /\ Control
    /\ admin' = [NoCommand EXCEPT !.cmd = "stop", !.sent = TRUE]
    /\ wanted' = FALSE
    /\ UNCHANGED <<webVars, unitVars, state, recovery>>

\* The command polls until the service is stopped or cannot be queried.
PollStop ==
    /\ admin.cmd = "stop" /\ admin.due
    /\ \/ admin' = NoCommand
       \/ state # "Stopped" /\ admin' = [admin EXCEPT !.due = FALSE]
    /\ UNCHANGED <<webVars, unitVars, state, recovery, signal, wanted>>

\* A first query that fails skips the stop; that the control request was
\* refused is not noticed.
Uninstall(polls) ==
    /\ mode = "scm" /\ unit # Nil /\ ~deletePending
    /\ admin = NoCommand
    /\ \/ /\ state # "Stopped"
          /\ Control
          /\ admin' = [NoCommand EXCEPT !.cmd = "uninstall", !.polls = polls,
                                        !.sent = (state = "Running")]
       \/ /\ state = "Stopped"
          /\ admin' = [NoCommand EXCEPT !.cmd = "delete"]
          /\ UNCHANGED signal
       \/ /\ admin' = [NoCommand EXCEPT !.cmd = "delete", !.failed = TRUE]
          /\ UNCHANGED signal
    /\ wanted' = FALSE
    /\ UNCHANGED <<webVars, unitVars, state, recovery>>

\* Faulty: half as many polls as the shutdown may need.
UninstallHurried == Uninstall(UninstallPolls \div 2)

UninstallCommand == Uninstall(UninstallPolls)

\* The loop ends early when the service is stopped, or a query fails.
PollUninstall ==
    /\ admin.cmd = "uninstall" /\ admin.due
    /\ \/ /\ state = "Stopped" \/ admin.polls = 1
          /\ admin' = [admin EXCEPT !.cmd = "delete", !.due = FALSE]
       \/ /\ state # "Stopped" /\ admin.polls > 1
          /\ admin' = [admin EXCEPT !.polls = @ - 1, !.due = FALSE]
       \/ admin' = [admin EXCEPT !.cmd = "delete", !.due = FALSE,
                                 !.failed = TRUE]
    /\ UNCHANGED <<webVars, unitVars, state, recovery, signal, wanted>>

\* DeleteService, which may fail: a service that runs is deleted when it ends.
Delete ==
    /\ admin.cmd = "delete"
    /\ admin' = NoCommand
    /\ \/ /\ unit' = IF state = "Stopped" THEN Nil ELSE unit
          /\ deletePending' = (state # "Stopped")
       \/ UNCHANGED <<unit, deletePending>>
    /\ UNCHANGED <<webVars, mode, file, state, recovery, signal, wanted>>

------------------------------------------------------------------------------
\* One second.  What waits for nothing happens before it is over.

Polling == admin.cmd \in {"stop", "uninstall"}
Urgent ==
    \/ phase \in {"new", "stopping", "shutdown", "stopped"}
    \/ phase = "draining" /\ (Active = {} \/ timer = 0)
    \/ signal # "none" \/ recovery = 0
    \/ admin.due \/ admin.cmd = "delete"

Tick ==
    /\ ~Urgent
    /\ phase = "draining" \/ recovery # Nil \/ Polling
    /\ IF phase = "draining" THEN TimerRuns ELSE UNCHANGED webVars
    /\ recovery' = IF recovery = Nil THEN Nil ELSE recovery - 1
    /\ admin' = [admin EXCEPT !.due = Polling]
    /\ UNCHANGED <<unitVars, state, signal, wanted>>

------------------------------------------------------------------------------
HostInit ==
    /\ Init
    /\ mode \in Modes
    /\ unit = Nil /\ file = FALSE
    /\ state = "Stopped"
    /\ deletePending = FALSE
    /\ recovery = Nil
    /\ signal = "none"
    /\ admin = NoCommand
    /\ wanted = FALSE

\* Steps of the process the host has no part in.
Inside ==
    /\ \/ \E r \in Requests : RequestStep(r)
       \/ SamplerStep
       \/ Listen \/ StopSampling \/ BeginShutdown \/ EndShutdown
    /\ UNCHANGED hostVars

Command ==
    \/ Install \/ InstallFile \/ Reload \/ UninstallFile
    \/ StopCommand \/ PollStop
    \/ UninstallCommand \/ PollUninstall \/ Delete

Manager ==
    \/ StartUnit \/ StartAtTerminal \/ Recover \/ Started
    \/ KillSignal \/ SystemctlStop \/ SystemctlStopEarly \/ TimeoutStop
    \/ ReceiveSignal \/ ExitReported

HostNext == Inside \/ Command \/ Manager \/ CrashNoticed \/ Tick

HostSpec == HostInit /\ [][HostNext]_vars

\* The main goroutine, the manager and the clock go on; handlers need not.  A
\* service does not crash for ever while it starts, 90 s are over sometime, and
\* no endless row of commands fits into one second.
HostFairness ==
    /\ SF_vars(Started)
    /\ WF_vars(ReceiveSignal)
    /\ WF_vars(StopSampling /\ UNCHANGED hostVars)
    /\ WF_vars(BeginShutdown /\ UNCHANGED hostVars)
    /\ WF_vars(EndShutdown /\ UNCHANGED hostVars)
    /\ WF_vars(ExitReported)
    /\ SF_vars(TimeoutStop)
    /\ WF_vars(Recover)
    /\ WF_vars(PollStop)
    /\ WF_vars(PollUninstall)
    /\ WF_vars(Delete)
    /\ SF_vars(Tick)

HostFairSpec == HostSpec /\ HostFairness

------------------------------------------------------------------------------
\* Properties.

HostTypeOK ==
    /\ mode \in Modes
    /\ unit \in {Nil} \cup SUBSET {"-service", "-config"}
    /\ file \in BOOLEAN
    /\ state \in {"Stopped", "StartPending", "Running", "StopPending"}
    /\ deletePending \in BOOLEAN
    /\ recovery \in {Nil} \cup 0 .. RecoveryDelay
    /\ signal \in {"none", "stop", "hup"}
    /\ admin \in [cmd : {"none", "stop", "uninstall", "delete"},
                  polls : 0 .. UninstallPolls,
                  due : BOOLEAN, sent : BOOLEAN, failed : BOOLEAN]
    /\ wanted \in BOOLEAN
    \* the manager's view: a service is stopped exactly when it has no process
    /\ state = "Stopped" <=> phase = "none"
    /\ deletePending => phase # "none"

\* The ten polls of -uninstall outlast the timeout of Shutdown: a service that
\* was told to stop, and whose state could be queried every time, has stopped by
\* the time it is deleted, however its requests hang, and no recovery action has
\* restarted it.  (After a query that failed it may be deleted while it stops.)
DeletesStopped ==
    admin.cmd = "delete" /\ admin.sent /\ ~admin.failed => state = "Stopped"

\* A stop the manager asked for ends the process, although requests hang and
\* a second signal may find the channel full.
StopEndsProcess == (state = "StopPending") ~> (phase = "none")

\* Crash recovery: a service its operator wants to run, and whose command line
\* it understands, is up again after every crash.
Startable == wanted /\ unit # Nil /\ unit \subseteq Flags
WantedServiceRuns == Startable ~> (phase = "up" \/ ~Startable)

------------------------------------------------------------------------------
\* What the documentation says and the code does not do.

\* "Start the service ... Service status: running": an installed service that
\* is started runs.
StartedServiceRuns == wanted ~> (phase = "up" \/ ~wanted)
==============================================================================
