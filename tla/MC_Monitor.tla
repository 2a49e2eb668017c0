----------------------------- MODULE MC_Monitor ------------------------------
\* Values of the constants of Monitor for the model checker.
EXTENDS Monitor, TLC

Cfg(pid, byName, cmd, cnt) ==
    [PID |-> pid, ByName |-> byName, RestartCmd |-> cmd, CPUExceedCount |-> cnt]

\* By name, by PID, by both, and without a restart command.
CONSTANT p1
AnyConfig == {Cfg(NoPid, TRUE, TRUE, 2), Cfg(p1, FALSE, TRUE, 2),
              Cfg(p1, TRUE, TRUE, 1), Cfg(NoPid, TRUE, FALSE, 2)}
ByName == {Cfg(NoPid, TRUE, TRUE, 2)}

\* No action reads the samples stored or the events.
Decisions == <<ctlVars, targetPID, cpuExceedCnt, cooldown, waitingRestart, loop,
               refind, proc>>
==============================================================================
