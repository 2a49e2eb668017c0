--------------------------- MODULE MC_MultiMonitor ---------------------------
\* Values of the constants of MultiMonitor for the model checker.  A few units
\* of load and thresholds of 1, 2 or none tell apart "over", "over the lower
\* threshold only", "not over" and "not checked".
EXTENDS MultiMonitor, TLC

Load(c, m) == [cpu |-> c, mem |-> m]
Both(n) == Load(n, n)
Cfg(auto, cmd, thr, cnt, cool) ==
    [AutoRestart |-> auto, RestartCmd |-> cmd, Threshold |-> thr,
     ExceedCount |-> cnt, RestartCooldown |-> cool]

\* Both resources watched, alarms after 2 samples over one threshold and after
\* the default number over a higher one.
Counting == {Cfg(FALSE, NoCmd, Both(1), Both(2), 1),
             Cfg(FALSE, NoCmd, Both(2), Both(0), 1)}

\* Alarms after the default number of samples over the CPU limit, no restart.
CountCpu == {Cfg(FALSE, NoCmd, Load(1, 0), Both(0), 1)}

\* A restart at every exit and every sample over the limit, the default
\* cooldown apart; and one at every exit, with a longer cooldown.
JustHeal == {Cfg(TRUE, "run", Load(1, 0), Both(1), 0)}
SlowHeal == {Cfg(TRUE, "run", Load(0, 0), Both(1), 2)}

JustReport == {Cfg(FALSE, NoCmd, Both(0), Both(1), 1)}

CpuHigh == {Load(2, 0)}
Low == {Both(0)}
\* Over both thresholds, and over the lower one alone.
HighOrMiddle == {Load(3, 2), Load(2, 3)}

\* Two states that differ in cells nothing points to behave alike.
Live(cells) == [o \in Objs |-> IF o \in InUse THEN cells[o] ELSE Nil]
Reachable ==
    <<targets, Live(heap), eventsBuffer, running, logOpen, loop, restarting,
      procAlive, now>>

\* No action reads the stored samples or the log handle, and none reads the
\* events: states that differ only there take the same decisions.  For runs
\* whose properties do not look at what is left out.
Unsampled(state) ==
    IF state = Nil THEN Nil
    ELSE [state EXCEPT !.lastMetric = Nil, !.metrics = <<>>]
Decisions ==
    <<targets, Live([o \in Objs |-> Unsampled(heap[o])]), running, loop,
      restarting, procAlive, now>>
Announcements == <<Decisions, eventsBuffer>>

Symmetry == Permutations(Objs) \cup Permutations(Loops)
==============================================================================
