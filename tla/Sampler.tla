------------------------------- MODULE Sampler -------------------------------
(***************************************************************************)
(* The disk rates of provider/provider_common.go: ListAllProcesses and     *)
(* calcDiskIO, called by one goroutine per GET /api/processes.  A rate is  *)
(* what a counter grew by since the sample stored before, divided by the   *)
(* time between; only the growth is modelled, as only it can be wrong.     *)
(*                                                                         *)
(* The four counters of a process are read, stored and subtracted          *)
(* together: one stands for all.  Counters are uint64: a subtraction wraps *)
(* at Word.  Time is in tenths of a second, the least time after which     *)
(* calcDiskIO takes a new sample.                                          *)
(***************************************************************************)
EXTENDS Integers, FiniteSets

CONSTANTS
    PIDs,
    Listers,        \* goroutines that run ListAllProcesses
    PidReuse,       \* a PID may be given to another process
    Word,           \* 2^64
    MaxCount,       \* bound on the counters
    MaxTime,        \* bound on the clock
    Nil

ASSUME SamplerAssumption ==
    /\ PidReuse \in BOOLEAN
    /\ Word \in Nat /\ MaxCount \in Nat /\ MaxTime \in Nat
    /\ MaxCount < Word
    /\ Nil \notin PIDs /\ Nil \notin Int

VARIABLES
    ioSamples,  \* p.ioSamples
    lister,     \* the stack frame of each ListAllProcesses
    counter,    \* the disk counter of the process under each PID, or Nil
    now,
    overlapped, \* history: the listers another one ran beside
    owned,      \* history: the PIDs some process has had
    reused      \* history: the PIDs given to a second process

history == <<overlapped, owned, reused>>
vars == <<ioSamples, lister, counter, now, history>>

Alive == {p \in PIDs : counter[p] # Nil}
Minus(a, b) == (a - b) % Word

\* alive is the set alivePids, todo the part of procs still to come.
Frame(pc, alive, todo) ==
    [pc |-> pc, alive |-> alive, todo |-> todo, pid |-> Nil, count |-> 0,
     time |-> 0, rate |-> 0]

------------------------------------------------------------------------------
\* ListAllProcesses().

Processes(l) ==
    /\ lister[l].pc = "idle"
    /\ lister' = [lister EXCEPT ![l] = Frame("next", Alive, Alive)]
    /\ LET others == {k \in Listers \ {l} : lister[k].pc # "idle"}
       IN  overlapped' = (overlapped \ {l}) \cup others
                         \cup (IF others = {} THEN {} ELSE {l})
    /\ UNCHANGED <<ioSamples, counter, now, owned, reused>>

\* Faulty: the counters are used although they could not be read.
IOCountersUnchecked(l, p) ==
    /\ lister[l].pc = "next"
    /\ p \in lister[l].todo
    /\ lister' = [lister EXCEPT ![l] =
           [Frame("time", lister[l].alive, lister[l].todo \ {p})
               EXCEPT !.pid = p, !.count = counter[p]]]
    /\ UNCHANGED <<ioSamples, counter, now, history>>

\* The counters of a process cannot always be read, and not at all once it is
\* gone: there is no rate for it then.
IOCounters(l, p) ==
    /\ lister[l].pc = "next"
    /\ p \in lister[l].todo
    /\ LET f == Frame("next", lister[l].alive, lister[l].todo \ {p})
       IN  \/ lister' = [lister EXCEPT ![l] = f]
           \/ /\ p \in Alive
              /\ lister' = [lister EXCEPT ![l] =
                     [f EXCEPT !.pc = "time", !.pid = p, !.count = counter[p]]]
    /\ UNCHANGED <<ioSamples, counter, now, history>>

\* calcDiskIO looks at the clock before it takes the lock.
TakeTime(l) ==
    /\ lister[l].pc = "time"
    /\ lister' = [lister EXCEPT ![l].pc = "calc", ![l].time = now]
    /\ UNCHANGED <<ioSamples, counter, now, history>>

\* Faulty: the operands are swapped.
Shrinkage(f, s) == Minus(s.count, f.count)

Growth(f, s) == Minus(f.count, s.count)

\* Faulty: only a division by zero is avoided.
DueOnceMoved(f, s) == f.time # s.time

Due(f, s) == f.time - s.time >= 1

CalcDiskIO(l) ==
    LET f == lister[l]
        s == ioSamples[f.pid]
        \* the rate returned and the sample kept
        Returns(rate, sample) ==
            /\ ioSamples' = [ioSamples EXCEPT ![f.pid] = sample]
            /\ lister' = [lister EXCEPT ![l].pc = "rate", ![l].rate = rate]
        Sample(rate) == [count |-> f.count, time |-> f.time, rate |-> rate]
    IN  /\ f.pc = "calc"
        /\ \/ s = Nil /\ Returns(0, Sample(0))
           \/ s # Nil /\ ~Due(f, s) /\ Returns(s.rate, s)
           \/ /\ s # Nil /\ Due(f, s)
              /\ Returns(Growth(f, s), Sample(Growth(f, s)))
        /\ UNCHANGED <<counter, now, history>>

\* The rate goes into the result and the next process follows.
NextProcess(l) ==
    /\ lister[l].pc = "rate"
    /\ lister' = [lister EXCEPT ![l] =
                     Frame("next", lister[l].alive, lister[l].todo)]
    /\ UNCHANGED <<ioSamples, counter, now, history>>

\* Faulty: the samples are kept for ever.
NoCleanUp(l) ==
    /\ lister[l].pc = "next" /\ lister[l].todo = {}
    /\ lister' = [lister EXCEPT ![l] = Frame("idle", {}, {})]
    /\ UNCHANGED <<ioSamples, counter, now, history>>

\* The samples of processes that were not listed are dropped.
CleanUp(l) ==
    /\ lister[l].pc = "next" /\ lister[l].todo = {}
    /\ ioSamples' = [p \in PIDs |->
                        IF p \in lister[l].alive THEN ioSamples[p] ELSE Nil]
    /\ lister' = [lister EXCEPT ![l] = Frame("idle", {}, {})]
    /\ UNCHANGED <<counter, now, history>>

------------------------------------------------------------------------------
\* The environment.

Reads(p) ==
    /\ p \in Alive /\ counter[p] < MaxCount
    /\ counter' = [counter EXCEPT ![p] = @ + 1]
    /\ UNCHANGED <<ioSamples, lister, now, history>>

ProcExits(p) ==
    /\ p \in Alive
    /\ counter' = [counter EXCEPT ![p] = Nil]
    /\ UNCHANGED <<ioSamples, lister, now, history>>

ProcAppears(p) ==
    /\ p \notin Alive
    /\ p \in owned => PidReuse
    /\ counter' = [counter EXCEPT ![p] = 0]
    /\ owned' = owned \cup {p}
    /\ reused' = reused \cup ({p} \cap owned)
    /\ UNCHANGED <<ioSamples, lister, now, overlapped>>

Clock ==
    /\ now < MaxTime
    /\ now' = now + 1
    /\ UNCHANGED <<ioSamples, lister, counter, history>>

------------------------------------------------------------------------------
Init ==
    /\ ioSamples = [p \in PIDs |-> Nil]
    /\ lister = [l \in Listers |-> Frame("idle", {}, {})]
    /\ counter \in [PIDs -> {0, Nil}]
    /\ now = 0
    /\ overlapped = {} /\ owned = Alive /\ reused = {}

ListStep(l) ==
    \/ Processes(l)
    \/ \E p \in lister[l].todo : IOCounters(l, p)
    \/ TakeTime(l) \/ CalcDiskIO(l) \/ NextProcess(l) \/ CleanUp(l)

Environment ==
    \/ \E p \in PIDs : Reads(p) \/ ProcExits(p) \/ ProcAppears(p)
    \/ Clock

Next ==
    \/ \E l \in Listers : ListStep(l)
    \/ Environment

Spec == Init /\ [][Next]_vars

\* The dashboard asks for the processes every few seconds.
Fairness == \A l \in Listers : WF_vars(ListStep(l))

FairSpec == Spec /\ Fairness

------------------------------------------------------------------------------
\* Properties.

Count == 0 .. MaxCount
Sample == [count : Count, time : 0 .. MaxTime, rate : 0 .. Word - 1]
TypeOK ==
    /\ ioSamples \in [PIDs -> Sample \cup {Nil}]
    /\ lister \in [Listers ->
           [pc : {"idle", "next", "time", "calc", "rate"},
            alive : SUBSET PIDs, todo : SUBSET PIDs, pid : PIDs \cup {Nil},
            count : Count, time : 0 .. MaxTime, rate : 0 .. Word - 1]]
    /\ counter \in [PIDs -> Count \cup {Nil}]
    /\ now \in 0 .. MaxTime
    /\ overlapped \subseteq Listers
    /\ reused \subseteq owned /\ owned \subseteq PIDs

\* The sample of a process that exited does not stay, although a lister that
\* is late may store it again after another one dropped it.
SamplesAreDropped ==
    \A p \in PIDs : <>[](p \notin Alive) => <>[](ioSamples[p] = Nil)

\* A sample is replaced by a later one only: a request that took the time first
\* and gets the lock last neither moves the sample back nor divides by the
\* negative time between.
SamplesAdvance ==
    [][\A p \in PIDs :
          ioSamples[p] # Nil /\ ioSamples'[p] \notin {Nil, ioSamples[p]}
          => ioSamples'[p].time > ioSamples[p].time]_vars

\* The subtraction is unsigned, and yet no rate exceeds all the process has ever
\* read, if no other request listed the processes while it was computed and the
\* PID was not given a second time.  Both do break it; the former not for
\* longer than the next listing that is alone.
RateIsGrowth ==
    [][\A l \in Listers \ overlapped :
          /\ lister[l].pc = "calc" /\ lister[l].pid \notin reused
          /\ ioSamples'[lister[l].pid] # ioSamples[lister[l].pid]
          => lister'[l].rate <= lister[l].count]_vars

==============================================================================
