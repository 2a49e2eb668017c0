-------------------------------- MODULE Watch --------------------------------
(***************************************************************************)
(* What a MultiMonitor (monitor/multi_monitor.go) promises to those who    *)
(* call it: a set of registered PIDs, a flag that says whether sampling    *)
(* runs, and the goroutines that sample.  A stop reaches the goroutines    *)
(* that wait for their ticker, not those at work.                          *)
(*                                                                         *)
(* MultiMonitor implements this specification; WebService is built on it.  *)
(***************************************************************************)
CONSTANTS PIDs, Loops

VARIABLES
    targets,    \* the registered PIDs
    running,    \* IsRunning()
    sampler     \* what each sampling goroutine does

vars == <<targets, running, sampler>>

Init ==
    /\ targets = {}
    /\ running = FALSE
    /\ sampler = [l \in Loops |-> "none"]

Move(l, from, to) ==
    /\ sampler[l] = from
    /\ sampler' = [sampler EXCEPT ![l] = to]

AddTarget(p) ==
    /\ p \notin targets
    /\ targets' = targets \cup {p}
    /\ UNCHANGED <<running, sampler>>

RemoveTargets(S) ==
    /\ targets' = targets \ S
    /\ UNCHANGED <<running, sampler>>

Start(l) ==
    /\ ~running
    /\ running' = TRUE
    /\ Move(l, "none", "working")
    /\ UNCHANGED targets

Stop ==
    /\ running
    /\ running' = FALSE
    /\ sampler' = [l \in Loops |->
                      IF sampler[l] = "waiting" THEN "woken" ELSE sampler[l]]
    /\ UNCHANGED targets

\* A goroutine waits for its ticker, samples, and ends once woken by a stop.
SamplerStep(l) ==
    /\ \/ Move(l, "working", "waiting")
       \/ Move(l, "waiting", "working")
       \/ Move(l, "woken", "none")
    /\ UNCHANGED <<targets, running>>

Next ==
    \/ \E p \in PIDs : AddTarget(p) \/ RemoveTargets({p})
    \/ RemoveTargets(PIDs)
    \/ Stop
    \/ \E l \in Loops : Start(l) \/ SamplerStep(l)

Spec == Init /\ [][Next]_vars

Sampling(l) == sampler[l] \in {"waiting", "working"}
==============================================================================
