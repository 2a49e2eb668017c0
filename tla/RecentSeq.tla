------------------------------ MODULE RecentSeq ------------------------------
(***************************************************************************)
(* Sequences that keep only the most recent items: the value the rest of   *)
(* the agent sees when it looks at a RingBuffer (buffer/ring.go).  The     *)
(* module RingBuffer shows that the slots, head and count of the Go type   *)
(* implement exactly this.                                                 *)
(***************************************************************************)
EXTENDS Integers, Sequences, TLAPS

\* s after one more item, the oldest dropped once n items are held.
PushRecent(s, item, n) ==
    IF Len(s) < n THEN Append(s, item) ELSE Append(Tail(s), item)

\* The n newest items of s, all of s when it has fewer.
Newest(s, n) == IF n >= Len(s) THEN s ELSE SubSeq(s, Len(s) - n + 1, Len(s))

------------------------------------------------------------------------------
\* A push keeps the items of a bounded sequence in their set.
LEMMA PushRecentType ==
    ASSUME NEW S, NEW s \in Seq(S), NEW item \in S, NEW n \in Nat \ {0}
    PROVE  PushRecent(s, item, n) \in Seq(S)
<1>1. CASE Len(s) < n
  BY <1>1 DEF PushRecent
<1>2. CASE ~(Len(s) < n)
  <2>1. s # <<>>
    BY <1>2
  <2>2. Tail(s) \in Seq(S)
    BY <2>1
  <2> QED
    BY <1>2, <2>2 DEF PushRecent
<1> QED
  BY <1>1, <1>2

\* t is s without its d oldest items and with item after the others.
Shifted(t, s, item, d) ==
    /\ Len(t) = Len(s) - d + 1
    /\ Len(t) > 0 /\ t[Len(t)] = item
    /\ \A i \in 1 .. Len(s) - d : t[i] = s[i + d]

\* The pushed item is the last one, the others keep their order: they are all
\* there, or all but the oldest.
LEMMA PushRecentItems ==
    ASSUME NEW S, NEW s \in Seq(S), NEW item \in S, NEW n \in Nat \ {0}
    PROVE  Shifted(PushRecent(s, item, n), s, item, IF Len(s) < n THEN 0 ELSE 1)
<1>1. PushRecent(s, item, n) \in Seq(S)
  BY PushRecentType
<1>2. CASE Len(s) < n
  BY <1>1, <1>2 DEF PushRecent, Shifted
<1>3. CASE ~(Len(s) < n)
  <2>1. s # <<>>
    BY <1>3
  <2>2. /\ Tail(s) \in Seq(S) /\ Len(Tail(s)) = Len(s) - 1 /\ Len(s) > 0
        /\ \A i \in 1 .. Len(s) - 1 : Tail(s)[i] = s[i + 1]
    BY <2>1
  <2>3. PushRecent(s, item, n) = Append(Tail(s), item)
    BY <1>3 DEF PushRecent
  <2>4. /\ Len(Append(Tail(s), item)) = Len(s)
        /\ Append(Tail(s), item)[Len(s)] = item
        /\ \A i \in 1 .. Len(s) - 1 : Append(Tail(s), item)[i] = s[i + 1]
    BY <2>2
  <2> QED
    BY <1>1, <1>3, <2>2, <2>3, <2>4 DEF Shifted
<1> QED
  BY <1>2, <1>3

\* The newest item alone.
LEMMA NewestOne ==
    ASSUME NEW S, NEW s \in Seq(S)
    PROVE  Newest(s, 1) = IF s = <<>> THEN <<>> ELSE <<s[Len(s)]>>
<1>1. CASE s = <<>>
  BY <1>1 DEF Newest
<1>2. CASE Len(s) = 1
  <2>1. s = <<s[1]>>
    BY <1>2
  <2> QED
    BY <1>2, <2>1 DEF Newest
<1>3. CASE Len(s) > 1
  <2> DEFINE last == SubSeq(s, Len(s), Len(s))
  <2>1. Newest(s, 1) = last /\ s # <<>>
    BY <1>3 DEF Newest
  <2>2. last \in Seq(S) /\ Len(last) = 1 /\ last[1] = s[Len(s)]
    BY <1>3
  <2> HIDE DEF last
  <2>3. last = <<last[1]>>
    BY <2>2
  <2> QED
    BY <2>1, <2>2, <2>3
<1>4. s = <<>> \/ Len(s) >= 1
  OBVIOUS
<1>5. Len(s) >= 1 => Len(s) = 1 \/ Len(s) > 1
  OBVIOUS
<1> QED
  BY <1>1, <1>2, <1>3, <1>4, <1>5

==============================================================================
