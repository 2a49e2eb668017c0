----------------------------- MODULE BoundedLog ------------------------------
(***************************************************************************)
(* What a RingBuffer promises to its callers: a log of bounded capacity    *)
(* that never refuses an item and forgets the oldest one instead.          *)
(***************************************************************************)
EXTENDS RecentSeq

CONSTANTS Items,    \* what may be pushed
          Sizes     \* the capacities a log is created with

VARIABLES log,      \* the items held, oldest first
          capacity  \* chosen when the log is created, fixed afterwards

Init == /\ log = <<>>
        /\ capacity \in Sizes

Push(item) == /\ log' = PushRecent(log, item, capacity)
              /\ UNCHANGED capacity

Next == \E item \in Items : Push(item)

Spec == Init /\ [][Next]_<<log, capacity>>

==============================================================================
