---------------------------- MODULE EventLogProofs ---------------------------
(***************************************************************************)
(* RingBuffer, for every size and every set of items: its invariants, and  *)
(* that it implements BoundedLog.  Then EventLog: the file beside the ring *)
(* does not disturb the ring, and the two reads of m.logFile without a     *)
(* lock make no line miss the open file while the monitor runs.            *)
(***************************************************************************)
EXTENDS EventLog, TLAPS

------------------------------------------------------------------------------
\* Arithmetic of the indices.

\* An index less than one turn beyond the slice wraps to one of its slots.
LEMMA Wrap ==
    ASSUME NEW s \in Nat \ {0}, NEW a \in Nat, a < 2 * s
    PROVE  a % s = IF a < s THEN a ELSE a - s
<1>1. CASE a < s
  BY <1>1
<1>2. CASE a >= s
  BY <1>2
<1> QED
  BY <1>1, <1>2

------------------------------------------------------------------------------
\* The invariants.

LEMMA Types ==
    ASSUME TypeOK
    PROVE  /\ size \in Nat \ {0} /\ head \in Nat /\ head < size
           /\ count \in Nat /\ count <= size
           /\ data \in [0 .. size - 1 -> Items \cup {Zero}]
  BY SizesArePositive DEF TypeOK, Slots

LEMMA HeadWraps ==
    ASSUME NEW s \in Nat \ {0}, NEW h \in 0 .. s - 1
    PROVE  (h + 1) % s = IF h + 1 < s THEN h + 1 ELSE 0
<1> DEFINE a == h + 1
<1>1. a \in Nat /\ a <= s /\ a < 2 * s
  OBVIOUS
<1> HIDE DEF a
<1>2. a % s = IF a < s THEN a ELSE a - s
  BY <1>1, Wrap
<1>3. a % s = IF a < s THEN a ELSE 0
  BY <1>1, <1>2
<1> QED
  BY <1>3 DEF a

LEMMA InvInit == Init => TypeOK /\ HeadMatchesCount
  BY SizesArePositive DEF Init, TypeOK, HeadMatchesCount, Slots

LEMMA InvPush ==
    ASSUME TypeOK, HeadMatchesCount, NEW item \in Items, Push(item)
    PROVE  TypeOK' /\ HeadMatchesCount'
<1>1. /\ size \in Nat \ {0} /\ head \in Nat /\ head < size
      /\ count \in Nat /\ count <= size
      /\ data \in [0 .. size - 1 -> Items \cup {Zero}]
  BY Types
<1>2. head' = IF head + 1 < size THEN head + 1 ELSE 0
  <2>1. head \in 0 .. size - 1
    BY <1>1
  <2>2. (head + 1) % size = IF head + 1 < size THEN head + 1 ELSE 0
    BY <1>1, <2>1, HeadWraps
  <2> QED
    BY <2>2 DEF Push
<1>3. /\ size' = size
      /\ data' = [data EXCEPT ![head] = item]
      /\ count' = IF count < size THEN count + 1 ELSE count
  BY DEF Push
<1>4. TypeOK'
  BY <1>1, <1>2, <1>3 DEF TypeOK, Slots
<1>5. HeadMatchesCount'
  BY <1>1, <1>2, <1>3 DEF HeadMatchesCount
<1> QED
  BY <1>4, <1>5

LEMMA InvNext ==
    TypeOK /\ HeadMatchesCount /\ [Next]_vars => TypeOK' /\ HeadMatchesCount'
<1> SUFFICES ASSUME TypeOK, HeadMatchesCount, [Next]_vars
             PROVE  TypeOK' /\ HeadMatchesCount'
  OBVIOUS
<1>1. CASE Next
  BY <1>1, InvPush DEF Next
<1>2. CASE UNCHANGED vars
  BY <1>2 DEF vars, TypeOK, HeadMatchesCount, Slots
<1> QED
  BY <1>1, <1>2

\* The head stays inside the slice and count never exceeds its size.
THEOREM RingTypeCorrect == Spec => []TypeOK
  BY InvInit, InvNext, PTL DEF Spec

\* Until the slice is full, head is the first unused slot.
THEOREM HeadFollowsCount == Spec => []HeadMatchesCount
  BY InvInit, InvNext, PTL DEF Spec

------------------------------------------------------------------------------
\* What GetAll reads.

\* The slot of the i-th oldest item.
SlotNumber(i) ==
    IF count < size THEN i - 1
    ELSE IF head + i - 1 < size THEN head + i - 1
    ELSE head + i - 1 - size

SlotsRead == \A i \in 1 .. count : GetAll[i] = data[SlotNumber(i)]
LEMMA SlotOf == TypeOK => SlotsRead
<1> SUFFICES ASSUME TypeOK, NEW i \in 1 .. count
             PROVE  GetAll[i] = data[SlotNumber(i)]
  BY DEF SlotsRead
<1>1. /\ size \in Nat \ {0} /\ head \in Nat /\ head < size
      /\ count \in Nat /\ count <= size
  BY Types
<1> DEFINE start == IF count = size THEN head ELSE 0
           a == start + i - 1
<1>2. GetAll[i] = data[a % size]
  BY DEF GetAll, ReadFrom
<1>3. a \in Nat /\ a < 2 * size
  BY <1>1
<1>4. SlotNumber(i) = IF a < size THEN a ELSE a - size
  BY <1>1 DEF SlotNumber
<1> HIDE DEF a
<1>5. a % size = IF a < size THEN a ELSE a - size
  BY <1>1, <1>3, Wrap
<1> QED
  BY <1>2, <1>4, <1>5

AllTyped == GetAll \in Seq(Items \cup {Zero}) /\ Len(GetAll) = count
LEMMA AllType == TypeOK => AllTyped
<1> SUFFICES ASSUME TypeOK
             PROVE  GetAll \in Seq(Items \cup {Zero}) /\ Len(GetAll) = count
  BY DEF AllTyped
<1>1. /\ size \in Nat \ {0} /\ head \in Nat /\ head < size
      /\ count \in Nat /\ count <= size
      /\ data \in [0 .. size - 1 -> Items \cup {Zero}]
  BY Types
<1>2. ASSUME NEW i \in 1 .. count PROVE GetAll[i] \in Items \cup {Zero}
  <2>1. SlotNumber(i) \in 0 .. size - 1
    BY <1>1 DEF SlotNumber
  <2> QED
    BY <1>1, <2>1, SlotOf DEF SlotsRead
<1>3. GetAll = [i \in 1 .. count |-> GetAll[i]]
  BY DEF GetAll, ReadFrom
<1> HIDE DEF GetAll
<1> QED
  BY <1>1, <1>2, <1>3

LEMMA ReadNext == TypeOK' => SlotsRead' /\ AllTyped'
  BY SlotOf, AllType, PTL

------------------------------------------------------------------------------
\* GetRecent and GetAll agree.

\* The i-th item GetRecent returns, of m, is the i-th of the last m items.
LEMMA RecentSlot ==
    ASSUME TypeOK, HeadMatchesCount, NEW m \in 0 .. count, NEW i \in 1 .. m
    PROVE  ReadFrom((head - m + size) % size, m)[i] = GetAll[count - m + i]
<1>1. /\ size \in Nat \ {0} /\ head \in Nat /\ head < size
      /\ count \in Nat /\ count <= size
  BY Types
<1> DEFINE a == head - m + size
           start == IF head < m THEN head - m + size ELSE head - m
           b == start + i - 1
           j == count - m + i
<1>2. a \in Nat /\ a < 2 * size /\ start \in 0 .. size - 1
  BY <1>1
<1>3. start = IF a < size THEN a ELSE a - size
  BY <1>1
<1> HIDE DEF a
<1>4. a % size = start
  BY <1>1, <1>2, <1>3, Wrap
<1>5. ReadFrom(a % size, m)[i] = data[b % size]
  BY <1>4 DEF ReadFrom
<1>6. b \in Nat /\ b < 2 * size
  BY <1>1, <1>2
<1>7. SlotNumber(j) = IF b < size THEN b ELSE b - size
  BY <1>1 DEF SlotNumber, HeadMatchesCount
<1> HIDE DEF b
<1>8. b % size = IF b < size THEN b ELSE b - size
  BY <1>1, <1>6, Wrap
<1>9. j \in 1 .. count
  BY <1>1
<1>10. GetAll[j] = data[SlotNumber(j)]
  BY <1>9, SlotOf DEF SlotsRead
<1> QED
  BY <1>5, <1>7, <1>8, <1>10 DEF a

LEMMA RecentInv == TypeOK /\ HeadMatchesCount => RecentIsSuffixOfAll
<1> SUFFICES ASSUME TypeOK, HeadMatchesCount, NEW n \in 0 .. size + 1
             PROVE  GetRecent(n) = Newest(GetAll, n)
  BY DEF RecentIsSuffixOfAll
<1>1. size \in Nat \ {0} /\ count \in Nat /\ n \in Nat
  BY Types
<1> DEFINE all == GetAll
           m == IF n > count THEN count ELSE n
           recent == ReadFrom((head - m + size) % size, m)
<1>2. all \in Seq(Items \cup {Zero}) /\ Len(all) = count
  BY AllType DEF AllTyped
<1>3. m \in 0 .. count
  BY <1>1
<1>4. \A i \in 1 .. m : recent[i] = all[count - m + i]
  BY <1>3, RecentSlot
<1>5. recent = [i \in 1 .. m |-> recent[i]]
  BY DEF ReadFrom
<1>6. GetRecent(n) = recent
  BY DEF GetRecent
<1> HIDE DEF all, recent
<1>7. recent = Newest(all, n)
  <2>1. CASE n >= count
    <3>1. m = count
      BY <1>1, <2>1
    <3> HIDE DEF m
    <3>2. recent = [i \in 1 .. count |-> all[i]]
      <4>1. \A i \in 1 .. count : count - m + i = i
        BY <1>1, <3>1
      <4>2. \A i \in 1 .. count : recent[i] = all[i]
        BY <1>4, <3>1, <4>1
      <4> QED
        BY <1>5, <3>1, <4>2
    <3>3. all = [i \in 1 .. count |-> all[i]]
      BY <1>2
    <3> QED
      BY <1>1, <1>2, <2>1, <3>2, <3>3 DEF Newest
  <2>2. CASE n < count
    <3>1. m = n
      BY <1>1, <2>2
    <3>2. recent = [i \in 1 .. n |-> all[count - n + i]]
      BY <1>4, <1>5, <3>1
    <3>3. SubSeq(all, count - n + 1, count)
            = [i \in 1 .. n |-> all[count - n + i]]
      BY <1>1, <1>2, <2>2
    <3> QED
      BY <1>1, <1>2, <2>2, <3>2, <3>3 DEF Newest
  <2> QED
    BY <1>1, <2>1, <2>2
<1> QED
  BY <1>6, <1>7 DEF all

\* GetRecent(n) is the tail of what GetAll returns, for every n.
THEOREM RecentIsSuffix == Spec => []RecentIsSuffixOfAll
  BY InvInit, InvNext, RecentInv, PTL DEF Spec

------------------------------------------------------------------------------
\* The refinement.

\* One Push of the ring is one Push of the log.
LEMMA PushRefines ==
    ASSUME TypeOK, HeadMatchesCount, NEW item \in Items, Push(item)
    PROVE  Log!Push(item)
<1>1. /\ size \in Nat \ {0} /\ head \in Nat /\ head < size
      /\ count \in Nat /\ count <= size
      /\ data \in [0 .. size - 1 -> Items \cup {Zero}]
  BY Types
<1>2. TypeOK'
  BY InvPush
<1>3. /\ size' = size
      /\ data' = [data EXCEPT ![head] = item]
      /\ count' = IF count < size THEN count + 1 ELSE count
      /\ head' = (head + 1) % size
  BY DEF Push
<1>4. head' = IF head + 1 < size THEN head + 1 ELSE 0
  <2>1. head \in 0 .. size - 1
    BY <1>1
  <2>2. (head + 1) % size = IF head + 1 < size THEN head + 1 ELSE 0
    BY <1>1, <2>1, HeadWraps
  <2> QED
    BY <1>3, <2>2
<1>5. \A j \in 0 .. size - 1 : data'[j] = IF j = head THEN item ELSE data[j]
  BY <1>1, <1>3
<1> DEFINE all == GetAll
           next == GetAll'
<1>6. /\ all \in Seq(Items \cup {Zero}) /\ Len(all) = count
      /\ next \in Seq(Items \cup {Zero}) /\ Len(next) = count'
  BY <1>2, AllType, ReadNext DEF AllTyped
<1>7. \A i \in 1 .. count :
         all[i] = data[IF count < size THEN i - 1
                       ELSE IF head + i - 1 < size THEN head + i - 1
                            ELSE head + i - 1 - size]
  BY SlotOf DEF SlotsRead, SlotNumber
<1>8. \A i \in 1 .. count' :
         next[i] = data'[IF count' < size THEN i - 1
                         ELSE IF head' + i - 1 < size THEN head' + i - 1
                              ELSE head' + i - 1 - size]
  BY <1>2, <1>3, ReadNext DEF SlotsRead, SlotNumber
<1> HIDE DEF all, next
<1>9. next = Log!PushRecent(all, item, size)
  <2>1. CASE count < size
    <3>1. head = count /\ count' = count + 1
      BY <1>1, <1>3, <2>1 DEF HeadMatchesCount
    <3>2. ASSUME NEW i \in 1 .. count + 1
          PROVE  next[i] = IF i = count + 1 THEN item ELSE all[i]
      BY <1>1, <1>4, <1>5, <1>7, <1>8, <2>1, <3>1
    <3>3. next = Append(all, item)
      BY <1>1, <1>6, <3>1, <3>2
    <3> QED
      BY <1>6, <2>1, <3>3 DEF Log!PushRecent
  <2>2. CASE count = size
    <3>1. count' = size /\ ~(Len(all) < size) /\ all # <<>>
      BY <1>1, <1>3, <1>6, <2>2
    <3>2. ASSUME NEW i \in 1 .. size
          PROVE  next[i] = IF i = size THEN item ELSE all[i + 1]
      <4> DEFINE j == IF head' + i - 1 < size THEN head' + i - 1
                      ELSE head' + i - 1 - size
      <4>1. next[i] = data'[j] /\ j \in 0 .. size - 1
        BY <1>1, <1>4, <1>8, <3>1
      <4>2. j = head <=> i = size
        BY <1>1, <1>4
      <4>3. CASE i = size
        BY <1>5, <4>1, <4>2, <4>3
      <4>4. CASE i < size
        <5>1. j = IF head + i < size THEN head + i ELSE head + i - size
          BY <1>1, <1>4, <4>4
        <5>2. i + 1 \in 1 .. count
          BY <1>1, <2>2, <4>4
        <5>3. all[i + 1] = data[j]
          BY <1>1, <1>7, <2>2, <5>1, <5>2
        <5> QED
          BY <1>5, <4>1, <4>2, <4>4, <5>3
      <4> QED
        BY <1>1, <4>3, <4>4
    <3>3. Tail(all) \in Seq(Items \cup {Zero}) /\ Len(Tail(all)) = size - 1
      BY <1>1, <1>6, <2>2, <3>1
    <3>4. \A i \in 1 .. size - 1 : Tail(all)[i] = all[i + 1]
      BY <1>1, <1>6, <2>2, <3>1
    <3>5. next = Append(Tail(all), item)
      BY <1>1, <1>6, <2>2, <3>1, <3>2, <3>3, <3>4
    <3> QED
      BY <3>1, <3>5 DEF Log!PushRecent
  <2> QED
    BY <1>1, <2>1, <2>2
<1> QED
  BY <1>3, <1>9 DEF Log!Push, all, next

LEMMA InitRefines == Init => Log!Init
<1> SUFFICES ASSUME Init PROVE Log!Init
  OBVIOUS
<1>1. GetAll = <<>>
  <2>1. TypeOK /\ count = 0
    BY InvInit DEF Init
  <2>2. GetAll \in Seq(Items \cup {Zero}) /\ Len(GetAll) = 0
    BY <2>1, AllType DEF AllTyped
  <2> QED
    BY <2>2
<1> QED
  BY <1>1 DEF Init, Log!Init

\* The slots, head and count of the ring implement a log that forgets its
\* oldest item when it is full: what GetAll returns after any number of pushes
\* is what a BoundedLog of that capacity holds.
THEOREM RingImplementsLog == Spec => ImplementsBoundedLog
<1>1. TypeOK /\ HeadMatchesCount /\ [Next]_vars
      => [Log!Next]_<<GetAll, size>>
  <2> SUFFICES ASSUME TypeOK, HeadMatchesCount, [Next]_vars
               PROVE  [Log!Next]_<<GetAll, size>>
    OBVIOUS
  <2>1. CASE Next
    BY <2>1, PushRefines DEF Next, Log!Next
  <2>2. CASE UNCHANGED vars
    BY <2>2 DEF vars, GetAll, ReadFrom
  <2> QED
    BY <2>1, <2>2
<1> QED
  BY <1>1, InitRefines, InvInit, InvNext, PTL
  DEF Spec, ImplementsBoundedLog, Log!Spec

------------------------------------------------------------------------------
\* The file.

FileTypes ==
    /\ kind \in {"multi", "single"}
    /\ running \in BOOLEAN
    /\ logFile \in Handles \cup {Nil}
    /\ open \subseteq Handles
    /\ noFile \in BOOLEAN
    /\ writer \in [Writers ->
           [pc : {"idle", "test", "load", "write"} \cup Ended,
            file : Handles \cup {Nil}, throughout : BOOLEAN]]

\* A monitor that runs has its file open, unless none could be opened, and so
\* has a MultiMonitor whenever m.logFile is set.
FileIsOpen ==
    /\ kind = "multi" /\ logFile # Nil => logFile \in open
    /\ running /\ ~noFile => logFile \in open

\* A call that no Stop interrupted works on the file that is open.
CallsHoldFile ==
    \A w \in Writers :
        writer[w].throughout =>
            /\ running /\ ~noFile
            /\ writer[w].pc = "write" => writer[w].file = logFile

LogInv ==
    /\ FileTypes
    /\ OneHandle
    /\ FileIsOpen
    /\ CallsHoldFile
    /\ DroppedOnlyAroundStop

LEMMA LogInvInit == LogInit => LogInv
<1> USE NilIsNoHandle
<1> SUFFICES ASSUME LogInit PROVE LogInv
  OBVIOUS
<1>1. FileTypes
  BY DEF LogInit, FileTypes, Frame, Ended
<1>2. OneHandle /\ FileIsOpen
  BY DEF LogInit, OneHandle, FileIsOpen
<1>3. CallsHoldFile /\ DroppedOnlyAroundStop
  BY DEF LogInit, CallsHoldFile, DroppedOnlyAroundStop, Frame
<1> QED
  BY <1>1, <1>2, <1>3 DEF LogInv

\* Starting changes the file only while nobody's call counts on it.
LEMMA StartKeeps ==
    ASSUME LogInv, StartMulti \/ StartSingle
    PROVE  LogInv'
<1> USE NilIsNoHandle DEF LogInv
<1>1. ~running /\ running' = TRUE /\ UNCHANGED <<kind, writer>>
  BY DEF StartMulti, StartSingle
<1>2. /\ logFile' \in Handles \cup {Nil} /\ open' \subseteq Handles
      /\ noFile' \in BOOLEAN
  BY DEF FileTypes, StartMulti, StartSingle, Opens
<1>3. FileTypes'
  BY <1>1, <1>2 DEF FileTypes
<1>4. OneHandle' /\ FileIsOpen'
  BY <1>1 DEF FileTypes, OneHandle, FileIsOpen, StartMulti, StartSingle, Opens
<1>5. CallsHoldFile' /\ DroppedOnlyAroundStop'
  BY <1>1 DEF CallsHoldFile, DroppedOnlyAroundStop
<1> QED
  BY <1>3, <1>4, <1>5

\* After a stop no call counts on the file.
LEMMA StopKeeps ==
    ASSUME LogInv, StopMulti \/ StopSingle
    PROVE  LogInv'
<1> USE NilIsNoHandle DEF LogInv
<1>1. /\ running' = FALSE /\ open' = open \ {logFile}
      /\ UNCHANGED <<kind, noFile>> /\ writer' = Interrupted
      /\ kind = "multi" => logFile' = Nil
      /\ kind = "single" => logFile' = logFile
  BY DEF StopMulti, StopSingle
<1>2. \A w \in Writers : ~writer'[w].throughout
  BY <1>1 DEF FileTypes, Interrupted
<1>3. FileTypes'
  BY <1>1 DEF FileTypes, Interrupted
<1>4. OneHandle' /\ FileIsOpen'
  BY <1>1 DEF FileTypes, OneHandle, FileIsOpen
<1>5. CallsHoldFile' /\ DroppedOnlyAroundStop'
  BY <1>2 DEF CallsHoldFile, DroppedOnlyAroundStop
<1> QED
  BY <1>3, <1>4, <1>5

LEMMA WriterKeeps ==
    ASSUME LogInv, NEW w \in Writers, WriterStep(w)
    PROVE  LogInv'
<1> USE NilIsNoHandle DEF LogInv, Ended
<1>1. UNCHANGED fileVars
  BY DEF WriterStep, AddEvent, WriteMetric, TestFile, LoadFile, WriteLine
<1>2. OneHandle' /\ FileIsOpen'
  BY <1>1 DEF fileVars, OneHandle, FileIsOpen
<1>3. CASE Begin(w)
  <2>1. writer' = [writer EXCEPT ![w] = Frame("test", running /\ ~noFile)]
    BY <1>3 DEF Begin
  <2>2. FileTypes'
    BY <1>1, <2>1 DEF fileVars, FileTypes, Frame
  <2>3. CallsHoldFile' /\ DroppedOnlyAroundStop'
    BY <1>1, <2>1
    DEF fileVars, FileTypes, CallsHoldFile, DroppedOnlyAroundStop, Frame
  <2> QED
    BY <1>2, <2>2, <2>3
<1>4. CASE TestFile(w)
  <2>1. FileTypes'
    BY <1>1, <1>4 DEF TestFile, Goto, fileVars, FileTypes
  <2>2. writer[w].throughout => logFile # Nil
    BY DEF FileTypes, FileIsOpen, CallsHoldFile
  <2>3. CallsHoldFile' /\ DroppedOnlyAroundStop'
    BY <1>1, <1>4, <2>2
    DEF TestFile, Goto, fileVars, FileTypes, CallsHoldFile, DroppedOnlyAroundStop
  <2> QED
    BY <1>2, <2>1, <2>3
<1>5. CASE LoadFile(w)
  <2>1. FileTypes'
    BY <1>1, <1>5 DEF LoadFile, fileVars, FileTypes
  <2>2. CallsHoldFile' /\ DroppedOnlyAroundStop'
    BY <1>1, <1>5
    DEF LoadFile, fileVars, FileTypes, CallsHoldFile, DroppedOnlyAroundStop
  <2> QED
    BY <1>2, <2>1, <2>2
<1>6. CASE WriteLine(w)
  <2>1. FileTypes'
    BY <1>1, <1>6 DEF WriteLine, Goto, fileVars, FileTypes
  <2>2. writer[w].throughout => writer[w].file \in open
    BY <1>6 DEF WriteLine, FileIsOpen, CallsHoldFile
  <2>3. CallsHoldFile' /\ DroppedOnlyAroundStop'
    BY <1>1, <1>6, <2>2
    DEF WriteLine, Goto, fileVars, FileTypes, CallsHoldFile, DroppedOnlyAroundStop
  <2> QED
    BY <1>2, <2>1, <2>3
<1> QED
  BY <1>3, <1>4, <1>5, <1>6 DEF WriterStep, AddEvent, WriteMetric

LEMMA LogInvNext == LogInv /\ [LogNext]_logVars => LogInv'
<1> SUFFICES ASSUME LogInv, [LogNext]_logVars PROVE LogInv'
  OBVIOUS
<1>1. CASE UNCHANGED logVars
  BY <1>1 DEF logVars, fileVars, LogInv, FileTypes, OneHandle, FileIsOpen,
              CallsHoldFile, DroppedOnlyAroundStop
<1> QED
  BY <1>1, StartKeeps, StopKeeps, WriterKeeps DEF LogNext

LEMMA AlwaysLogInv == LogSpec => []LogInv
  BY LogInvInit, LogInvNext, PTL DEF LogSpec

\* Whatever starts and stops race with the writers, and whichever writes fail, a
\* line misses the file only if a Stop came during its call or no file could be
\* opened.
THEOREM LinesReachTheFile == LogSpec => []DroppedOnlyAroundStop
  BY AlwaysLogInv, PTL DEF LogInv

\* No sequence of starts and stops leaks a file handle.
THEOREM HandlesAreClosed == LogSpec => []OneHandle
  BY AlwaysLogInv, PTL DEF LogInv

\* The file beside it does not disturb the ring: what the theorems
\* above show of RingBuffer holds of the ring of an EventLog.
THEOREM LogImplementsRing == LogSpec => Spec
<1>1. LogInit => Init
  BY DEF LogInit
<1>2. [LogNext]_logVars => [Next]_vars
  BY DEF LogNext, logVars, Next, StartMulti, StartSingle, StopMulti, StopSingle,
         WriterStep, AddEvent, WriteMetric, TestFile, LoadFile, WriteLine
<1> QED
  BY <1>1, <1>2, PTL DEF LogSpec, Spec

==============================================================================
