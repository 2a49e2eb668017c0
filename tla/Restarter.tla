------------------------------ MODULE Restarter ------------------------------
(***************************************************************************)
(* What a Monitor (monitor/monitor.go) promises to whom runs it: alarms    *)
(* are raised, and each is either dropped, because of the cooldown or for  *)
(* want of a command, or answered by one restart of the target; a restart  *)
(* that was announced is followed by one search, the only thing that gives *)
(* the monitor another target; and nothing is raised meanwhile.            *)
(*                                                                         *)
(* Monitor implements this specification.                                  *)
(***************************************************************************)
EXTENDS RecentSeq

CONSTANTS PIDs, NoPid, Configs, EventsBufferLen, RestartCooldown

VARIABLES
    config,
    life,           \* not started yet, running or stopped
    targetPID,
    phase,          \* off, watching, alarmed, restarting, announced,
                    \* searching, settling; blind: monitored by PID and
                    \* restarted, nothing is raised any more
    cooldown, eventsBuffer

vars == <<config, life, targetPID, phase, cooldown, eventsBuffer>>

Init ==
    /\ config \in Configs
    /\ life = "new" /\ phase = "off"
    /\ targetPID = NoPid
    /\ cooldown = 0
    /\ eventsBuffer = <<>>

Enter(from, to) == phase = from /\ phase' = to

AddEvent(type, p) ==
    eventsBuffer' = PushRecent(eventsBuffer, [type |-> type, pid |-> p],
                               EventsBufferLen)

Start(p) ==
    /\ life = "new" /\ life' = "running"
    /\ config.PID # NoPid => p = config.PID
    /\ targetPID' = p
    /\ Enter("off", "watching")
    /\ UNCHANGED <<config, cooldown, eventsBuffer>>

Stop ==
    /\ life = "running" /\ life' = "stopped"
    /\ UNCHANGED <<config, targetPID, phase, cooldown, eventsBuffer>>

\* The goroutine sees that it was stopped.
End ==
    /\ life = "stopped"
    /\ Enter("watching", "off")
    /\ UNCHANGED <<config, life, targetPID, cooldown, eventsBuffer>>

\* The sample that raises the alarm may be of an earlier target.
Alarm(type, p) ==
    /\ Enter("watching", "alarmed")
    /\ AddEvent(type, p)
    /\ UNCHANGED <<config, life, targetPID, cooldown>>

Drop ==
    /\ ~config.RestartCmd \/ cooldown > 0
    /\ Enter("alarmed", "watching")
    /\ UNCHANGED <<config, life, targetPID, cooldown, eventsBuffer>>

Restart ==
    /\ config.RestartCmd /\ cooldown = 0
    /\ cooldown' = RestartCooldown
    /\ Enter("alarmed", "restarting")
    /\ UNCHANGED <<config, life, targetPID, eventsBuffer>>

RestartFails ==
    /\ Enter("restarting", "watching")
    /\ UNCHANGED <<config, life, targetPID, cooldown, eventsBuffer>>

Announce ==
    /\ Enter("restarting", "announced")
    /\ AddEvent("restart", targetPID)
    /\ UNCHANGED <<config, life, targetPID, cooldown>>

Search ==
    /\ Enter("announced", IF config.ByName THEN "searching" ELSE "blind")
    /\ UNCHANGED <<config, life, targetPID, cooldown, eventsBuffer>>

\* The search ends, with a new target or without.
SearchEnds ==
    /\ Enter("searching", "settling")
    /\ targetPID' \in PIDs \cup {targetPID}
    /\ UNCHANGED <<config, life, cooldown, eventsBuffer>>

\* The rules are on again, if there is still a goroutine that checks them.
Settle ==
    /\ \/ Enter("settling", "watching")
       \/ life = "stopped" /\ Enter("settling", "off")
    /\ UNCHANGED <<config, life, targetPID, cooldown, eventsBuffer>>

Second ==
    /\ cooldown > 0
    /\ cooldown' = cooldown - 1
    /\ UNCHANGED <<config, life, targetPID, phase, eventsBuffer>>

Next ==
    \/ \E p \in PIDs : Start(p) \/ Alarm("exit", p) \/ Alarm("cpu", p)
    \/ Stop \/ End
    \/ Drop \/ Restart \/ RestartFails \/ Announce
    \/ Search \/ SearchEnds \/ Settle
    \/ Second

Spec == Init /\ [][Next]_vars
==============================================================================
