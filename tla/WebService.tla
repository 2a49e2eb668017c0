----------------------------- MODULE WebService ------------------------------
(***************************************************************************)
(* The process of cmd/web: the handlers of server/web_server.go, one       *)
(* goroutine per request, and the Service of service/service.go that       *)
(* starts the HTTP server and stops everything, on top of a MultiMonitor.  *)
(* The requests are those the session check let through (see Sessions).    *)
(*                                                                         *)
(* A handler makes one or two calls of the monitor, each of them atomic.   *)
(* When the process ends, everything it kept is lost: saveTargets and      *)
(* loadSavedTargets do nothing.                                            *)
(***************************************************************************)
EXTENDS Integers, FiniteSets

CONSTANTS
    PIDs,
    Loops,
    Requests,           \* the connections of the HTTP server
    ShutdownTimeout,    \* 5 s in the code
    Nil

ASSUME WebAssumption ==
    /\ ShutdownTimeout \in Nat
    /\ Nil \notin PIDs

VARIABLES
    targets, running, sampler,  \* the MultiMonitor
    stopped,    \* sampling was stopped and not started since; not in the code
    request,    \* what each connection is busy with
    phase,      \* how far the main goroutine of the process is
    listener,   \* the goroutine in ListenAndServe
    timer       \* what is left of the timeout of Shutdown

MM == INSTANCE Watch

monitorVars == <<targets, running, sampler, stopped>>
serviceVars == <<phase, listener, timer>>
webVars == <<monitorVars, request, serviceVars>>

------------------------------------------------------------------------------
\* Requests.  An add has two parts: "add", and "added" before its Start.

Request(call, pid) == [call |-> call, pid |-> pid]
NoRequest == Request("idle", Nil)
Calls == {Request(c, p) : c \in {"add", "remove"}, p \in PIDs}
         \cup {Request(c, Nil) : c \in {"removeAll", "start", "stop", "query"}}

Active == {r \in Requests : request[r].call # "idle"}

Answer(r) == request' = [request EXCEPT ![r] = NoRequest]

Accept(r, c) ==
    /\ listener = "listening"
    /\ request[r] = NoRequest
    /\ request' = [request EXCEPT ![r] = c]
    /\ UNCHANGED <<monitorVars, serviceVars>>

\* Faulty: the monitor is not started after the target was added.
AddTargetOnly(r) ==
    /\ request[r].call = "add"
    /\ \/ MM!AddTarget(request[r].pid)
       \/ UNCHANGED <<targets, running, sampler>>
    /\ Answer(r)
    /\ UNCHANGED <<stopped, serviceVars>>

\* A PID monitored already, or without a process, is refused.
AddTarget(r) ==
    /\ request[r].call = "add"
    /\ \/ /\ MM!AddTarget(request[r].pid)
          /\ request' = [request EXCEPT ![r].call = "added"]
       \/ /\ Answer(r)
          /\ UNCHANGED <<targets, running, sampler>>
    /\ UNCHANGED <<stopped, serviceVars>>

\* handleStart, and the second part of handleAddTarget.
StartMonitor(r) ==
    /\ request[r].call \in {"start", "added"}
    /\ \/ running /\ UNCHANGED monitorVars
       \/ /\ \E l \in Loops : MM!Start(l)
          /\ stopped' = FALSE
    /\ Answer(r)
    /\ UNCHANGED serviceVars

RemoveTarget(r) ==
    /\ \/ /\ request[r].call = "remove"
          /\ MM!RemoveTargets({request[r].pid})
       \/ /\ request[r].call = "removeAll"
          /\ MM!RemoveTargets(PIDs)
    /\ Answer(r)
    /\ UNCHANGED <<stopped, serviceVars>>

HaltMonitor ==
    \/ /\ MM!Stop
       /\ stopped' = TRUE
    \/ /\ ~running
       /\ UNCHANGED monitorVars

StopMonitor(r) ==
    /\ request[r].call = "stop"
    /\ HaltMonitor
    /\ Answer(r)
    /\ UNCHANGED serviceVars

\* The handlers that only read, and the update of a configuration.  A listing
\* of all processes may take long.
Query(r) ==
    /\ request[r].call = "query"
    /\ Answer(r)
    /\ UNCHANGED <<monitorVars, serviceVars>>

RequestStep(r) ==
    \/ \E c \in Calls : Accept(r, c)
    \/ AddTarget(r) \/ StartMonitor(r) \/ RemoveTarget(r) \/ StopMonitor(r)
    \/ Query(r)

SamplerStep ==
    /\ \E l \in Loops : MM!SamplerStep(l)
    /\ UNCHANGED <<stopped, request, serviceVars>>

------------------------------------------------------------------------------
\* The main goroutine.

\* main: flags, and service.New.
Launch ==
    /\ phase = "none"
    /\ phase' = "new"
    /\ UNCHANGED <<monitorVars, request, listener, timer>>

\* Service.Start does not wait for the goroutine that listens, and
\* loadSavedTargets finds nothing.
StartService ==
    /\ phase = "new"
    /\ phase' = "up"
    /\ listener' = "pending"
    /\ UNCHANGED <<monitorVars, request, timer>>

\* ListenAndServe; an address in use is logged and the service goes on.
Listen ==
    /\ listener = "pending"
    /\ listener' \in {"listening", "failed"}
    /\ UNCHANGED <<monitorVars, request, phase, timer>>

\* A signal, or a control request of the service manager, was received.
AskStop ==
    /\ phase = "up"
    /\ phase' = "stopping"
    /\ UNCHANGED <<monitorVars, request, listener, timer>>

\* Service.Stop: the monitor first.
StopSampling ==
    /\ phase = "stopping"
    /\ HaltMonitor
    /\ phase' = "shutdown"
    /\ UNCHANGED <<request, listener, timer>>

\* Faulty: Shutdown leaves the listener open while it waits.
ShutdownKeepsListening ==
    /\ phase = "shutdown"
    /\ phase' = "draining"
    /\ timer' = ShutdownTimeout
    /\ UNCHANGED <<monitorVars, request, listener>>

\* Shutdown closes the listener, also one that is not there yet.
BeginShutdown ==
    /\ phase = "shutdown"
    /\ phase' = "draining"
    /\ listener' = "closed"
    /\ timer' = ShutdownTimeout
    /\ UNCHANGED <<monitorVars, request>>

\* Faulty: Shutdown without a deadline.
WaitForAll ==
    /\ phase = "draining"
    /\ Active = {}
    /\ phase' = "stopped"
    /\ UNCHANGED <<monitorVars, request, listener, timer>>

\* Shutdown returns when no request is active, or at its deadline.
EndShutdown ==
    /\ phase = "draining"
    /\ Active = {} \/ timer = 0
    /\ phase' = "stopped"
    /\ UNCHANGED <<monitorVars, request, listener, timer>>

\* Faulty: the targets are saved and loaded, and nothing starts to sample.
GoneButSaved ==
    /\ UNCHANGED targets
    /\ running' = FALSE
    /\ sampler' = [l \in Loops |-> "none"]
    /\ stopped' = FALSE
    /\ request' = [r \in Requests |-> NoRequest]
    /\ phase' = "none"
    /\ listener' = "none"
    /\ timer' = 0

\* The process ends, and with it all its goroutines.
Gone ==
    /\ targets' = {}
    /\ running' = FALSE
    /\ sampler' = [l \in Loops |-> "none"]
    /\ stopped' = FALSE
    /\ request' = [r \in Requests |-> NoRequest]
    /\ phase' = "none"
    /\ listener' = "none"
    /\ timer' = 0

Exit == phase = "stopped" /\ Gone

\* Nothing recovers a panic outside of the HTTP handlers.
Crash == phase # "none" /\ Gone

TimerRuns ==
    /\ phase = "draining"
    /\ timer > 0
    /\ timer' = timer - 1
    /\ UNCHANGED <<monitorVars, request, phase, listener>>

ServiceStep ==
    \/ StartService \/ Listen \/ StopSampling \/ BeginShutdown \/ EndShutdown

------------------------------------------------------------------------------
Init ==
    /\ MM!Init
    /\ stopped = FALSE
    /\ request = [r \in Requests |-> NoRequest]
    /\ phase = "none"
    /\ listener = "none"
    /\ timer = 0

Next ==
    \/ \E r \in Requests : RequestStep(r)
    \/ SamplerStep
    \/ ServiceStep
    \/ Launch \/ AskStop \/ Exit \/ Crash \/ TimerRuns

Spec == Init /\ [][Next]_webVars

------------------------------------------------------------------------------
\* Properties.

Phases == {"none", "new", "up", "stopping", "shutdown", "draining", "stopped"}

TypeOK ==
    /\ targets \subseteq PIDs
    /\ running \in BOOLEAN
    /\ sampler \in [Loops -> {"none", "waiting", "working", "woken"}]
    /\ stopped \in BOOLEAN
    /\ request \in [Requests ->
           Calls \cup {NoRequest} \cup {Request("added", p) : p \in PIDs}]
    /\ phase \in Phases
    /\ listener \in {"none", "pending", "listening", "failed", "closed"}
    /\ timer \in 0 .. ShutdownTimeout
    \* a process that is not there keeps nothing
    /\ phase = "none" => /\ listener = "none" /\ timer = 0
                         /\ Active = {} /\ targets = {}

\* No target is left unwatched by the two calls of an add, whatever other
\* requests and the shutdown do in between: with a target registered, some
\* goroutine samples, or sampling was stopped since it was last started, or
\* an add is about to start it.
AddedIsWatched ==
    targets # {} => \/ \E l \in Loops : MM!Sampling(l)
                    \/ stopped
                    \/ \E r \in Requests : request[r].call = "added"

\* Graceful shutdown: a service that stops cuts a request off only after the
\* whole timeout, although it stops the monitor and takes requests until its
\* listener is closed.
CutOnlyAfterTimeout ==
    phase = "stopped" /\ Active # {} => timer = 0
==============================================================================
