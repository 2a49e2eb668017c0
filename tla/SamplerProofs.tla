---------------------------- MODULE SamplerProofs ----------------------------
(***************************************************************************)
(* Theorems about Sampler for any number of processes and listings, any    *)
(* word and any bound: type correctness, samples that only advance, and    *)
(* rates that are what the process has read.                               *)
(***************************************************************************)
EXTENDS Sampler, TLAPS

------------------------------------------------------------------------------
\* Type correctness.

Busy == {"time", "calc", "rate"}
FrameType ==
    [pc : {"idle", "next"} \cup Busy, alive : SUBSET PIDs, todo : SUBSET PIDs,
     pid : PIDs \cup {Nil}, count : Count, time : 0 .. MaxTime,
     rate : 0 .. Word - 1]

\* A listing that computes a rate computes the rate of a process.
PidOK == \A l \in Listers : lister[l].pc \in Busy => lister[l].pid \in PIDs

TypeInv == TypeOK /\ PidOK

\* A difference of words is a word, and exact when it does not wrap.
LEMMA MinusType ==
    ASSUME NEW a \in Int, NEW b \in Int
    PROVE  Minus(a, b) \in 0 .. Word - 1
<1>1. Word \in Nat /\ Word > 0
  BY SamplerAssumption
<1> QED
  BY <1>1 DEF Minus

LEMMA MinusExact ==
    ASSUME NEW a \in Count, NEW b \in Count, b <= a
    PROVE  Minus(a, b) = a - b
<1>1. Word \in Nat /\ a - b \in 0 .. Word - 1
  BY SamplerAssumption DEF Count
<1> QED
  BY <1>1 DEF Minus

\* A frame outside calcDiskIO is well formed.
LEMMA FrameOfType ==
    ASSUME NEW pc \in {"idle", "next"}, NEW alive \in SUBSET PIDs,
           NEW todo \in SUBSET PIDs
    PROVE  Frame(pc, alive, todo) \in FrameType
  BY SamplerAssumption DEF Frame, FrameType, Count

LEMMA TypeInit == Init => TypeInv
<1> SUFFICES ASSUME Init PROVE TypeInv
  OBVIOUS
<1> USE DEF Init
<1>1. Frame("idle", {}, {}) \in FrameType
  BY FrameOfType
<1>2. \A l \in Listers : lister[l].pc = "idle"
  BY DEF Frame
<1>3. counter \in [PIDs -> Count \cup {Nil}] /\ now \in 0 .. MaxTime
  BY SamplerAssumption DEF Count
<1>4. reused \subseteq owned /\ owned \subseteq PIDs
  BY DEF Alive
<1> QED
  BY <1>1, <1>2, <1>3, <1>4 DEF TypeInv, TypeOK, FrameType, PidOK, Busy

\* A listing that moves to a well-formed frame.
LEMMA TypeMove ==
    ASSUME TypeInv, NEW l \in Listers, NEW f \in FrameType,
           f.pc \in Busy => f.pid \in PIDs,
           lister' = [lister EXCEPT ![l] = f],
           ioSamples' \in [PIDs -> Sample \cup {Nil}],
           overlapped' \subseteq Listers,
           UNCHANGED <<counter, now, owned, reused>>
    PROVE  TypeInv'
  BY DEF TypeInv, TypeOK, PidOK, FrameType, Busy

\* A listing that moves to a frame outside calcDiskIO.
LEMMA TypeListing ==
    ASSUME TypeInv, NEW l \in Listers,
           \/ Processes(l) \/ (\E p \in lister[l].todo : IOCounters(l, p))
           \/ TakeTime(l) \/ NextProcess(l) \/ CleanUp(l)
    PROVE  TypeInv'
<1>1. lister[l] \in FrameType
  BY DEF TypeInv, TypeOK, FrameType, Busy
<1>2. ioSamples \in [PIDs -> Sample \cup {Nil}] /\ overlapped \subseteq Listers
  BY DEF TypeInv, TypeOK
<1>3. CASE Processes(l)
  <2>1. Frame("next", Alive, Alive) \in FrameType
    BY FrameOfType DEF Alive
  <2> QED
    BY <1>2, <1>3, <2>1, TypeMove DEF Processes, Frame, Busy
<1>4. ASSUME NEW p \in lister[l].todo, IOCounters(l, p)
      PROVE  TypeInv'
  <2> DEFINE f == Frame("next", lister[l].alive, lister[l].todo \ {p})
             g == [f EXCEPT !.pc = "time", !.pid = p, !.count = counter[p]]
  <2>1. p \in PIDs /\ f \in FrameType /\ f.pc = "next"
    BY <1>1, FrameOfType DEF FrameType, Frame
  <2>2. CASE lister' = [lister EXCEPT ![l] = f]
    BY <1>2, <1>4, <2>1, <2>2, TypeMove DEF IOCounters, history, Busy
  <2>3. CASE p \in Alive /\ lister' = [lister EXCEPT ![l] = g]
    <3>1. counter[p] \in Count
      BY <2>1, <2>3 DEF Alive, TypeInv, TypeOK
    <3> HIDE DEF f
    <3>2. g \in FrameType /\ g.pid = p
      BY <2>1, <3>1 DEF FrameType, Busy
    <3> QED
      BY <1>2, <1>4, <2>1, <2>3, <3>2, TypeMove DEF IOCounters, history
  <2> QED
    BY <1>4, <2>2, <2>3 DEF IOCounters
<1>5. CASE TakeTime(l)
  <2> DEFINE f == [lister[l] EXCEPT !.pc = "calc", !.time = now]
  <2>1. f \in FrameType /\ f.pid = lister[l].pid
    BY <1>1 DEF FrameType, Busy, TypeInv, TypeOK
  <2>2. lister' = [lister EXCEPT ![l] = f]
    BY <1>5 DEF TakeTime, TypeInv, TypeOK
  <2>3. lister[l].pid \in PIDs
    BY <1>5 DEF TakeTime, TypeInv, PidOK, Busy
  <2> HIDE DEF f
  <2> QED
    BY <1>2, <1>5, <2>1, <2>2, <2>3, TypeMove DEF TakeTime, history
<1>6. CASE NextProcess(l)
  <2>1. Frame("next", lister[l].alive, lister[l].todo) \in FrameType
    BY <1>1, FrameOfType DEF FrameType
  <2> QED
    BY <1>2, <1>6, <2>1, TypeMove DEF NextProcess, Frame, Busy, history
<1>7. CASE CleanUp(l)
  <2>1. Frame("idle", {}, {}) \in FrameType
    BY FrameOfType
  <2>2. ioSamples' \in [PIDs -> Sample \cup {Nil}]
    BY <1>2, <1>7 DEF CleanUp
  <2> QED
    BY <1>2, <1>7, <2>1, <2>2, TypeMove DEF CleanUp, Frame, Busy, history
<1> QED
  BY <1>3, <1>4, <1>5, <1>6, <1>7

\* What calcDiskIO returns and keeps: the sample it found, or one of the
\* counters and the time of the listing.
LEMMA CalcStep ==
    ASSUME TypeInv, NEW l \in Listers, CalcDiskIO(l)
    PROVE  LET f == lister[l]
               s == ioSamples[f.pid]
           IN  /\ f \in FrameType /\ f.pid \in PIDs
               /\ s \in Sample \cup {Nil}
               /\ \E rate \in 0 .. Word - 1, sample \in Sample :
                     /\ ioSamples' = [ioSamples EXCEPT ![f.pid] = sample]
                     /\ lister' = [lister EXCEPT ![l] =
                           [f EXCEPT !.pc = "rate", !.rate = rate]]
                     /\ \/ s # Nil /\ sample = s
                        \/ /\ sample.count = f.count /\ sample.time = f.time
                           /\ \/ s = Nil /\ rate = 0
                              \/ /\ s # Nil /\ Due(f, s)
                                 /\ rate = Growth(f, s)
<1> DEFINE f == lister[l]
           s == ioSamples[f.pid]
           Kept(rate) == [count |-> f.count, time |-> f.time, rate |-> rate]
           Returns(rate, sample) ==
               /\ ioSamples' = [ioSamples EXCEPT ![f.pid] = sample]
               /\ lister' = [lister EXCEPT ![l] =
                                [f EXCEPT !.pc = "rate", !.rate = rate]]
<1>1. f \in FrameType /\ f.pid \in PIDs
  BY DEF CalcDiskIO, TypeInv, TypeOK, PidOK, FrameType, Busy
<1>2. s \in Sample \cup {Nil}
  BY <1>1 DEF TypeInv, TypeOK
<1>3. \A rate \in 0 .. Word - 1 :
          Kept(rate) \in Sample /\ Kept(rate).count = f.count
                                /\ Kept(rate).time = f.time
  BY <1>1 DEF FrameType, Sample
<1>4. \/ s = Nil /\ Returns(0, Kept(0))
      \/ s # Nil /\ ~Due(f, s) /\ Returns(s.rate, s)
      \/ s # Nil /\ Due(f, s) /\ Returns(Growth(f, s), Kept(Growth(f, s)))
  BY DEF CalcDiskIO, TypeInv, TypeOK
<1>5. CASE s = Nil /\ Returns(0, Kept(0))
  <2>1. 0 \in 0 .. Word - 1
    BY SamplerAssumption
  <2> HIDE DEF Kept
  <2> QED
    BY <1>1, <1>2, <1>3, <1>5, <2>1
<1>6. CASE s # Nil /\ ~Due(f, s) /\ Returns(s.rate, s)
  <2>1. s \in Sample /\ s.rate \in 0 .. Word - 1
    BY <1>2, <1>6 DEF Sample
  <2> QED
    BY <1>1, <1>2, <1>6, <2>1
<1>7. CASE s # Nil /\ Due(f, s) /\ Returns(Growth(f, s), Kept(Growth(f, s)))
  <2>1. Growth(f, s) \in 0 .. Word - 1
    <3>1. f.count \in Int /\ s.count \in Int
      BY <1>1, <1>2, <1>7, SamplerAssumption DEF FrameType, Sample, Count
    <3> QED
      BY <3>1, MinusType DEF Growth
  <2> HIDE DEF Kept
  <2> QED
    BY <1>1, <1>2, <1>3, <1>7, <2>1
<1> QED
  BY <1>4, <1>5, <1>6, <1>7

LEMMA TypeCalc ==
    ASSUME TypeInv, NEW l \in Listers, CalcDiskIO(l)
    PROVE  TypeInv'
<1> DEFINE f == lister[l]
<1>1. f \in FrameType /\ f.pid \in PIDs
  BY CalcStep
<1>2. PICK rate \in 0 .. Word - 1, sample \in Sample :
         /\ ioSamples' = [ioSamples EXCEPT ![f.pid] = sample]
         /\ lister' = [lister EXCEPT ![l] = [f EXCEPT !.pc = "rate", !.rate = rate]]
  BY CalcStep
<1> DEFINE g == [f EXCEPT !.pc = "rate", !.rate = rate]
<1>3. g \in FrameType /\ g.pid = f.pid
  BY <1>1 DEF FrameType, Busy
<1>4. ioSamples' \in [PIDs -> Sample \cup {Nil}] /\ overlapped' \subseteq Listers
  BY <1>2 DEF CalcDiskIO, history, TypeInv, TypeOK
<1> HIDE DEF g
<1> QED
  BY <1>1, <1>2, <1>3, <1>4, TypeMove DEF g, CalcDiskIO, history

LEMMA TypeEnvironment ==
    ASSUME TypeInv, Environment \/ UNCHANGED vars
    PROVE  TypeInv'
<1>1. UNCHANGED <<ioSamples, lister, overlapped>>
  BY DEF Environment, Reads, ProcExits, ProcAppears, Clock, vars, history
<1>2. /\ counter' \in [PIDs -> Count \cup {Nil}]
      /\ reused' \subseteq owned' /\ owned' \subseteq PIDs
      /\ now' \in 0 .. MaxTime
  <2>1. ASSUME NEW p \in PIDs, Reads(p) PROVE <1>2!:
    <3>1. counter[p] \in Count /\ counter[p] + 1 \in Count
      BY <2>1, SamplerAssumption DEF Reads, Alive, Count, TypeInv, TypeOK
    <3> QED
      BY <2>1, <3>1 DEF Reads, history, TypeInv, TypeOK
  <2>2. ASSUME NEW p \in PIDs, ProcExits(p) \/ ProcAppears(p) PROVE <1>2!:
    <3>1. 0 \in Count
      BY SamplerAssumption DEF Count
    <3> QED
      BY <2>2, <3>1 DEF ProcExits, ProcAppears, history, TypeInv, TypeOK
  <2>3. CASE Clock
    BY <2>3, SamplerAssumption DEF Clock, history, TypeInv, TypeOK
  <2>4. CASE UNCHANGED vars
    BY <2>4 DEF vars, history, TypeInv, TypeOK
  <2> QED
    BY <2>1, <2>2, <2>3, <2>4 DEF Environment
<1> QED
  BY <1>1, <1>2 DEF TypeInv, TypeOK, PidOK

LEMMA TypeNext == TypeInv /\ [Next]_vars => TypeInv'
  BY TypeListing, TypeCalc, TypeEnvironment DEF Next, ListStep

LEMMA TypeInvCorrect == Spec => []TypeInv
  BY TypeInit, TypeNext, PTL DEF Spec

\* Counters stay below the word and samples hold a counter, a time and a rate
\* that some listing has seen; a listing that computes has a process.
THEOREM TypeCorrect == Spec => []TypeOK
<1>1. TypeInv => TypeOK
  BY DEF TypeInv
<1> QED
  BY <1>1, TypeInvCorrect, PTL

------------------------------------------------------------------------------
\* Samples only advance.

LEMMA AdvanceNext ==
    ASSUME TypeInv, [Next]_vars,
           NEW p \in PIDs, ioSamples[p] # Nil, ioSamples'[p] # Nil,
           ioSamples'[p] # ioSamples[p]
    PROVE  ioSamples'[p].time > ioSamples[p].time
<1>1. PICK l \in Listers : CalcDiskIO(l)
  <2>1. ASSUME NEW l \in Listers, CleanUp(l) PROVE FALSE
    BY <2>1 DEF CleanUp
  <2>2. ASSUME UNCHANGED ioSamples PROVE FALSE
    BY <2>2
  <2>3. \E l \in Listers : CalcDiskIO(l)
    BY <2>1, <2>2
    DEF Next, ListStep, Processes, IOCounters, TakeTime, NextProcess,
        Environment, Reads, ProcExits, ProcAppears, Clock, vars
  <2> QED
    BY <2>3
<1> DEFINE f == lister[l]
           s == ioSamples[f.pid]
<1>2. PICK sample \in Sample :
         /\ ioSamples' = [ioSamples EXCEPT ![f.pid] = sample]
         /\ \/ s # Nil /\ sample = s
            \/ sample.time = f.time /\ (s = Nil \/ Due(f, s))
  BY <1>1, CalcStep
<1>3. p = f.pid
  BY <1>2 DEF TypeInv, TypeOK
<1>4. sample.time = f.time /\ Due(f, s) /\ ioSamples'[p] = sample
  BY <1>2, <1>3 DEF TypeInv, TypeOK
<1>5. f \in FrameType /\ s \in Sample
  BY <1>1, <1>3, CalcStep
<1>6. f.time \in Int /\ s.time \in Int
  BY <1>5, SamplerAssumption DEF FrameType, Sample
<1> QED
  BY <1>3, <1>4, <1>6 DEF Due

\* A request that took the time first and gets the lock last never moves a
\* sample back in time, however many requests list the processes at once.
THEOREM SamplesMoveForward == Spec => SamplesAdvance
<1>1. TypeInv /\ [Next]_vars =>
        [\A p \in PIDs :
           ioSamples[p] # Nil /\ ioSamples'[p] \notin {Nil, ioSamples[p]}
           => ioSamples'[p].time > ioSamples[p].time]_vars
  BY AdvanceNext
<1> QED
  BY <1>1, TypeInvCorrect, PTL DEF Spec, SamplesAdvance

------------------------------------------------------------------------------
\* Rates are what the process has read.

Counting == {"time", "calc"}

\* A listing nobody else ran beside is the only one.
AloneIsOnly ==
    \A l \in Listers \ overlapped : lister[l].pc # "idle" =>
        \A k \in Listers \ {l} : lister[k].pc = "idle"

\* While a PID keeps its process, the counter of the process is at least what
\* was stored of it and what any listing has read of it.
CountersGrow ==
    \A p \in PIDs \ reused : counter[p] # Nil =>
        /\ ioSamples[p] # Nil => ioSamples[p].count <= counter[p]
        /\ \A l \in Listers : lister[l].pc \in Counting /\ lister[l].pid = p
                              => lister[l].count <= counter[p]

\* What a listing that is alone has read is at least what is stored.
ReadIsNewest ==
    \A l \in Listers \ overlapped :
        LET f == lister[l]
        IN  /\ f.pc \in Counting /\ f.pid \notin reused
            /\ ioSamples[f.pid] # Nil
            => ioSamples[f.pid].count <= f.count

\* Nothing is known of a PID that no process has had.
UnownedIsNew ==
    \A p \in PIDs \ owned :
        /\ counter[p] = Nil /\ ioSamples[p] = Nil
        /\ \A l \in Listers : lister[l].pc \in Counting => lister[l].pid # p

RateInv == AloneIsOnly /\ CountersGrow /\ ReadIsNewest /\ UnownedIsNew

LEMMA RateInit == Init => RateInv
  BY DEF Init, Alive, Frame, RateInv, AloneIsOnly, CountersGrow, ReadIsNewest,
         UnownedIsNew, Counting

\* Moving a listing leaves the others where they are.
LEMMA OthersStay ==
    ASSUME TypeInv, NEW l \in Listers, NEW f, lister' = [lister EXCEPT ![l] = f]
    PROVE  \A k \in Listers : lister'[k] = IF k = l THEN f ELSE lister[k]
  BY DEF TypeInv, TypeOK

\* What the frames and the counters hold are integers.
LEMMA CountsAreInts ==
    ASSUME TypeInv
    PROVE  /\ \A p \in PIDs : counter[p] # Nil => counter[p] \in Int
           /\ \A p \in PIDs : ioSamples[p] # Nil => ioSamples[p].count \in Int
           /\ \A l \in Listers : lister[l].count \in Int
  BY SamplerAssumption DEF TypeInv, TypeOK, Sample, Count

\* A listing that moves to a frame that counts nothing, or stays where it was
\* with the same count, and drops no more than samples.
LEMMA RateMove ==
    ASSUME TypeInv, RateInv, NEW l \in Listers, lister[l].pc # "idle", NEW f,
           f.pc \in Counting => /\ lister[l].pc \in Counting
                                /\ f.pid = lister[l].pid
                                /\ f.count = lister[l].count,
           lister' = [lister EXCEPT ![l] = f],
           \A p \in PIDs : ioSamples'[p] \in {ioSamples[p], Nil},
           UNCHANGED <<counter, history>>
    PROVE  RateInv'
<1>1. \A k \in Listers : lister'[k] = IF k = l THEN f ELSE lister[k]
  BY OthersStay
<1>2. AloneIsOnly'
  BY <1>1 DEF RateInv, AloneIsOnly, history
<1>3. CountersGrow'
  BY <1>1 DEF RateInv, CountersGrow, history
<1>4. \A k \in Listers : lister[k].pc \in Counting => lister[k].pid \in PIDs
  BY DEF TypeInv, PidOK, Busy, Counting
<1>5. ReadIsNewest'
  BY <1>1, <1>4 DEF RateInv, ReadIsNewest, history
<1>6. UnownedIsNew'
  BY <1>1 DEF RateInv, UnownedIsNew, history
<1> QED
  BY <1>2, <1>3, <1>5, <1>6 DEF RateInv

LEMMA RateProcesses ==
    ASSUME TypeInv, RateInv, NEW l \in Listers, Processes(l)
    PROVE  RateInv'
<1>1. lister'[l].pc = "next" /\ \A k \in Listers \ {l} : lister'[k] = lister[k]
  BY DEF Processes, Frame, TypeInv, TypeOK
<1> DEFINE others == {k \in Listers \ {l} : lister[k].pc # "idle"}
<1>2. overlapped' = (overlapped \ {l}) \cup others
                    \cup (IF others = {} THEN {} ELSE {l})
      /\ UNCHANGED <<ioSamples, counter, owned, reused>>
  BY DEF Processes
<1>3. AloneIsOnly'
  BY <1>1, <1>2 DEF RateInv, AloneIsOnly
<1>4. CountersGrow'
  BY <1>1, <1>2 DEF RateInv, CountersGrow, Counting
<1>5. ReadIsNewest'
  BY <1>1, <1>2 DEF RateInv, ReadIsNewest, Counting
<1>6. UnownedIsNew'
  BY <1>1, <1>2 DEF RateInv, UnownedIsNew, Counting
<1> QED
  BY <1>3, <1>4, <1>5, <1>6 DEF RateInv

LEMMA RateIOCounters ==
    ASSUME TypeInv, RateInv, NEW l \in Listers, NEW p \in lister[l].todo,
           IOCounters(l, p)
    PROVE  RateInv'
<1> DEFINE f == Frame("next", lister[l].alive, lister[l].todo \ {p})
           g == [f EXCEPT !.pc = "time", !.pid = p, !.count = counter[p]]
<1>1. p \in PIDs /\ f.pc = "next" /\ lister[l].pc # "idle"
  BY DEF TypeInv, TypeOK, Frame, IOCounters
<1>2. UNCHANGED <<ioSamples, counter, now, history>>
  BY DEF IOCounters
<1>3. CASE lister' = [lister EXCEPT ![l] = f]
  BY <1>1, <1>2, <1>3, RateMove DEF Counting
<1>4. CASE p \in Alive /\ lister' = [lister EXCEPT ![l] = g]
  <2>1. counter[p] # Nil
    BY <1>4 DEF Alive
  <2>2. g.pc = "time" /\ g.pid = p /\ g.count = counter[p]
    BY DEF Frame
  <2> HIDE DEF f, g
  <2>3. \A k \in Listers : lister'[k] = IF k = l THEN g ELSE lister[k]
    BY <1>4, OthersStay
  <2>4. AloneIsOnly'
    BY <1>1, <1>2, <2>2, <2>3 DEF RateInv, AloneIsOnly, history
  <2>5. counter[p] <= counter[p]
    BY <1>1, <2>1, CountsAreInts
  <2>6. CountersGrow'
    BY <1>2, <2>2, <2>3, <2>5 DEF RateInv, CountersGrow, history
  <2>7. ReadIsNewest'
    BY <1>1, <1>2, <2>1, <2>2, <2>3
    DEF RateInv, ReadIsNewest, CountersGrow, history
  <2>8. UnownedIsNew'
    BY <1>1, <1>2, <2>1, <2>2, <2>3 DEF RateInv, UnownedIsNew, history
  <2> QED
    BY <2>4, <2>6, <2>7, <2>8 DEF RateInv
<1> QED
  BY <1>3, <1>4 DEF IOCounters

\* A new sample is what the listing has read; the others, if any, do not count
\* as alone any more.
LEMMA RateCalc ==
    ASSUME TypeInv, RateInv, NEW l \in Listers, CalcDiskIO(l)
    PROVE  RateInv'
<1> DEFINE f == lister[l]
           s == ioSamples[f.pid]
<1>1. PICK rate \in 0 .. Word - 1, sample \in Sample :
         /\ ioSamples' = [ioSamples EXCEPT ![f.pid] = sample]
         /\ lister' = [lister EXCEPT ![l] = [f EXCEPT !.pc = "rate", !.rate = rate]]
         /\ \/ s # Nil /\ sample = s
            \/ sample.count = f.count
  BY CalcStep
<1>2. f.pc = "calc" /\ f.pid \in PIDs /\ UNCHANGED <<counter, now, history>>
  BY CalcStep DEF CalcDiskIO
<1> DEFINE g == [f EXCEPT !.pc = "rate", !.rate = rate]
<1>3. \A k \in Listers : lister'[k] = IF k = l THEN g ELSE lister[k]
  BY <1>1, OthersStay
<1>4. g.pc = "rate"
  BY CalcStep DEF FrameType
<1>5. \A p \in PIDs : ioSamples'[p] = IF p = f.pid THEN sample ELSE ioSamples[p]
  BY <1>1 DEF TypeInv, TypeOK
<1> HIDE DEF g
<1>6. AloneIsOnly'
  BY <1>2, <1>3, <1>4 DEF RateInv, AloneIsOnly, history
<1>7. CountersGrow'
  <2> SUFFICES ASSUME NEW p \in PIDs \ reused, counter[p] # Nil
               PROVE  /\ ioSamples'[p] # Nil => ioSamples'[p].count <= counter[p]
                      /\ \A k \in Listers :
                            lister'[k].pc \in Counting /\ lister'[k].pid = p
                            => lister'[k].count <= counter[p]
    BY <1>2 DEF CountersGrow, history
  <2>1. CASE p = f.pid
    BY <1>1, <1>2, <1>3, <1>4, <1>5, <2>1 DEF RateInv, CountersGrow, Counting
  <2>2. CASE p # f.pid
    BY <1>3, <1>4, <1>5, <2>2 DEF RateInv, CountersGrow, Counting
  <2> QED
    BY <2>1, <2>2
<1>8. ReadIsNewest'
  <2> SUFFICES ASSUME NEW k \in Listers \ overlapped, lister'[k].pc \in Counting
               PROVE  FALSE
    BY <1>2 DEF ReadIsNewest, history
  <2>1. k # l /\ lister[k].pc # "idle"
    BY <1>3, <1>4 DEF Counting
  <2> QED
    BY <1>2, <2>1 DEF RateInv, AloneIsOnly
<1>9. UnownedIsNew'
  BY <1>2, <1>3, <1>4, <1>5 DEF RateInv, UnownedIsNew, Counting, history
<1> QED
  BY <1>6, <1>7, <1>8, <1>9 DEF RateInv

LEMMA RateEnvironment ==
    ASSUME TypeInv, RateInv, Environment \/ UNCHANGED vars
    PROVE  RateInv'
<1>1. /\ UNCHANGED <<ioSamples, lister, overlapped>>
      /\ reused \subseteq reused'
  BY DEF Environment, Reads, ProcExits, ProcAppears, Clock, vars, history
<1>2. \A p \in PIDs \ reused' : counter'[p] # Nil =>
          \/ p \notin owned
          \/ counter[p] # Nil /\ counter'[p] \in {counter[p], counter[p] + 1}
  BY DEF Environment, Reads, ProcExits, ProcAppears, Clock, vars, history,
         Alive, TypeInv, TypeOK, RateInv, UnownedIsNew
<1>3. AloneIsOnly'
  BY <1>1 DEF RateInv, AloneIsOnly
<1>4. CountersGrow'
  BY <1>1, <1>2, CountsAreInts DEF RateInv, CountersGrow, UnownedIsNew
<1>5. ReadIsNewest'
  BY <1>1 DEF RateInv, ReadIsNewest
<1>6. UnownedIsNew'
  <2>1. owned \subseteq owned' /\ \A p \in PIDs \ owned' : counter'[p] = counter[p]
    BY DEF Environment, Reads, ProcExits, ProcAppears, Clock, vars, history,
           Alive, TypeInv, TypeOK, RateInv, UnownedIsNew
  <2> QED
    BY <1>1, <2>1 DEF RateInv, UnownedIsNew
<1> QED
  BY <1>3, <1>4, <1>5, <1>6 DEF RateInv

LEMMA RateNext == TypeInv /\ RateInv /\ [Next]_vars => RateInv'
<1> SUFFICES ASSUME TypeInv, RateInv, [Next]_vars PROVE RateInv'
  OBVIOUS
<1>1. CASE Environment \/ UNCHANGED vars
  BY <1>1, RateEnvironment
<1>2. ASSUME NEW l \in Listers, TakeTime(l) PROVE RateInv'
  <2> DEFINE f == [lister[l] EXCEPT !.pc = "calc", !.time = now]
  <2>1. lister' = [lister EXCEPT ![l] = f]
    BY <1>2 DEF TakeTime, TypeInv, TypeOK
  <2>2. f.pid = lister[l].pid /\ f.count = lister[l].count
    BY DEF TypeInv, TypeOK
  <2> HIDE DEF f
  <2> QED
    BY <1>2, <2>1, <2>2, RateMove DEF TakeTime, Counting
<1>3. ASSUME NEW l \in Listers, NextProcess(l) \/ CleanUp(l) PROVE RateInv'
  <2>1. \E f : f.pc \notin Counting /\ lister' = [lister EXCEPT ![l] = f]
    BY <1>3 DEF NextProcess, CleanUp, Frame, Counting
  <2>2. \A p \in PIDs : ioSamples'[p] \in {ioSamples[p], Nil}
    BY <1>3 DEF NextProcess, CleanUp
  <2> QED
    BY <1>3, <2>1, <2>2, RateMove DEF NextProcess, CleanUp
<1> QED
  BY <1>1, <1>2, <1>3, RateProcesses, RateIOCounters, RateCalc DEF Next, ListStep

\* The rate of a step that stores a new sample.
LEMMA RateStep ==
    ASSUME TypeInv, RateInv, [Next]_vars, NEW l \in Listers \ overlapped,
           lister[l].pc = "calc", lister[l].pid \notin reused,
           ioSamples'[lister[l].pid] # ioSamples[lister[l].pid]
    PROVE  lister'[l].rate <= lister[l].count
<1> DEFINE f == lister[l]
           s == ioSamples[f.pid]
<1>1. f.pid \in PIDs /\ f \in FrameType /\ s \in Sample \cup {Nil}
  BY DEF TypeInv, TypeOK, PidOK, FrameType, Busy
<1>2. CalcDiskIO(l)
  <2>1. \A k \in Listers \ {l} : lister[k].pc = "idle"
    BY DEF RateInv, AloneIsOnly
  <2>2. ASSUME UNCHANGED ioSamples PROVE FALSE
    BY <2>2
  <2>3. \E k \in Listers : CalcDiskIO(k) \/ CleanUp(k)
    BY <2>2
    DEF Next, ListStep, Processes, IOCounters, TakeTime, NextProcess,
        Environment, Reads, ProcExits, ProcAppears, Clock, vars
  <2> QED
    BY <2>1, <2>3 DEF CalcDiskIO, CleanUp
<1>3. PICK rate \in 0 .. Word - 1, sample \in Sample :
         /\ ioSamples' = [ioSamples EXCEPT ![f.pid] = sample]
         /\ lister' = [lister EXCEPT ![l] = [f EXCEPT !.pc = "rate", !.rate = rate]]
         /\ \/ s # Nil /\ sample = s
            \/ /\ sample.count = f.count /\ sample.time = f.time
               /\ \/ s = Nil /\ rate = 0
                  \/ s # Nil /\ Due(f, s) /\ rate = Growth(f, s)
  BY <1>2, CalcStep
<1>4. lister'[l].rate = rate
  BY <1>1, <1>3 DEF FrameType, TypeInv, TypeOK
<1>5. f.count \in Count /\ f.count >= 0
  BY <1>1, SamplerAssumption DEF FrameType, Count
<1>6. CASE s = Nil /\ rate = 0
  BY <1>4, <1>5, <1>6
<1>7. CASE s # Nil /\ rate = Growth(f, s)
  <2>1. s.count \in Count /\ s.count <= f.count
    BY <1>1, <1>7 DEF Sample, RateInv, ReadIsNewest, Counting
  <2>2. rate = f.count - s.count
    BY <1>5, <1>7, <2>1, MinusExact DEF Growth
  <2> QED
    BY <1>4, <1>5, <2>1, <2>2, SamplerAssumption DEF Count
<1>8. CASE s # Nil /\ sample = s
  BY <1>1, <1>3, <1>8 DEF TypeInv, TypeOK
<1> QED
  BY <1>3, <1>6, <1>7, <1>8

\* The unsigned subtraction never wraps, however large the word, for a listing
\* that ran alone and a PID that had one process: the growth is at most the
\* counter itself.
THEOREM RatesAreGrowth == Spec => RateIsGrowth
<1>1. TypeInv /\ RateInv /\ [Next]_vars =>
        [\A l \in Listers \ overlapped :
           /\ lister[l].pc = "calc" /\ lister[l].pid \notin reused
           /\ ioSamples'[lister[l].pid] # ioSamples[lister[l].pid]
           => lister'[l].rate <= lister[l].count]_vars
  BY RateStep
<1> QED
  BY <1>1, RateInit, RateNext, TypeInvCorrect, PTL DEF Spec, RateIsGrowth

==============================================================================
