----------------------------- MODULE RingBuffer ------------------------------
(***************************************************************************)
(* RingBuffer[T] of buffer/ring.go: a slice of size slots, the index head  *)
(* of the slot written next and the number count of slots in use.  Every   *)
(* method holds the buffer's RWMutex from its first line to its last, so   *)
(* one action (or one state function, for the methods that only read) is   *)
(* one method call.                                                        *)
(*                                                                         *)
(* The size is at least 1: NewMultiMonitor replaces lengths <= 0 by        *)
(* defaults, and main.go passes 60 and 100.                                *)
(***************************************************************************)
EXTENDS RecentSeq

CONSTANTS Items,    \* the values of type T that are pushed
          Zero,     \* the zero value of T, what make([]T, size) fills in
          Sizes     \* the sizes NewRingBuffer is called with

ASSUME SizesArePositive == Sizes \subseteq Nat \ {0}

VARIABLES data, size, head, count

vars == <<data, size, head, count>>

Slots == 0 .. size - 1

\* NewRingBuffer(size)
Init == /\ size \in Sizes
        /\ data = [i \in Slots |-> Zero]
        /\ head = 0
        /\ count = 0

\* Faulty: the head does not wrap.
PushPastEnd(item) ==
    /\ data' = [data EXCEPT ![head] = item]
    /\ head' = head + 1
    /\ count' = IF count < size THEN count + 1 ELSE count
    /\ UNCHANGED size

\* Faulty: the last slot is never counted.
PushOneShort(item) ==
    /\ data' = [data EXCEPT ![head] = item]
    /\ head' = (head + 1) % size
    /\ count' = IF count + 1 < size THEN count + 1 ELSE count
    /\ UNCHANGED size

Push(item) ==
    /\ data' = [data EXCEPT ![head] = item]
    /\ head' = (head + 1) % size
    /\ count' = IF count < size THEN count + 1 ELSE count
    /\ UNCHANGED size

\* The n slots from start on, wrapping around at the end of the slice.
ReadFrom(start, n) == [i \in 1 .. n |-> data[(start + i - 1) % size]]

\* Faulty: a full ring is read from its first slot.
GetAllFromZero == ReadFrom(0, count)

GetAll == ReadFrom(IF count = size THEN head ELSE 0, count)

\* Faulty: n is not capped at the number of items held.
GetRecentUncapped(n) == ReadFrom((head - n + size) % size, n)

GetRecent(n) ==
    LET m == IF n > count THEN count ELSE n
    IN  ReadFrom((head - m + size) % size, m)

Next == \E item \in Items : Push(item)

Spec == Init /\ [][Next]_vars

------------------------------------------------------------------------------
\* Type invariant.
TypeOK == /\ size \in Sizes
          /\ data \in [Slots -> Items \cup {Zero}]
          /\ head \in Slots
          /\ count \in 0 .. size

\* Until the slice is full, head is where the next unused slot is: the
\* reason why GetAll may start at slot 0 for as long as count < size.
HeadMatchesCount == count < size => head = count

\* GetRecent(n) is the tail of GetAll for every n a caller may ask for,
\* although the two methods compute their first slot differently.
RecentIsSuffixOfAll ==
    \A n \in 0 .. size + 1 : GetRecent(n) = Newest(GetAll, n)

\* The ring, read through GetAll, is a bounded log.
Log == INSTANCE BoundedLog WITH log <- GetAll, capacity <- size
ImplementsBoundedLog == Log!Spec

==============================================================================
