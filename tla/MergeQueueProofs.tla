--------------------------- MODULE MergeQueueProofs ---------------------------
(***************************************************************************)
(* Proofs about MergeQueue, for any finite set of sources, any number of   *)
(* values and any number of destroyed pops.                                *)
(*                                                                         *)
(* A value is never lost because the consumer has at most one live sender  *)
(* abroad (WaiterInv): it is the last one in the queue of waiters, or a    *)
(* driver has chosen it, or its channel has settled.  Its order rests on   *)
(* where a value can be (PlaceInv): a driver that has chosen the live      *)
(* waiter has nothing of its source in the queue, so that sending past the *)
(* queue overtakes nothing of its own.  The end rests on the counter being *)
(* the number of drivers that have ended (EndInv).                         *)
(***************************************************************************)
EXTENDS MergeQueue, SequencesExt, SequenceTheorems, FiniteSetTheorems, TLAPS

\* Range of a sequence, by index.
LEMMA SeqRangeByIndex ==
  ASSUME NEW S, NEW s \in Seq(S), NEW x
  PROVE  x \in Range(s) <=> \E i \in 1..Len(s) : s[i] = x
<1>1. DOMAIN s = 1..Len(s) /\ s \in [1..Len(s) -> S]
  BY LenProperties
<1> QED BY <1>1 DEF Range

InHand(s) == driver[s] \in {"pushing", "sending"}
Ended == {s \in Sources : driver[s] \in {"waking", "done"}}

\* The program counters of the drivers and what they have pulled.
DriverInv ==
  /\ \A s \in Sources : InHand(s) => yielded[s] >= 1
  /\ \A s \in Sources : driver[s] = "sending" => chosen[s] \in Waiter
  /\ \A s \in Sources : driver[s] \notin {"sending", "waking"} => chosen[s] = None

HasLive == "live" \in Range(waiters)

\* The one sender whose receiver is still the consumer's.
WaiterInv ==
  /\ \A i \in 1..Len(waiters) : waiters[i] = "live" => i = Len(waiters)
  /\ \A s, t \in Sources : chosen[s] = "live" /\ chosen[t] = "live" => s = t
  /\ \A s \in Sources : chosen[s] = "live" => ~HasLive /\ reply = None /\ consumer = "parked"
  /\ HasLive => reply = None /\ consumer = "parked" /\ q = <<>> /\ ~error
  /\ reply # None => consumer = "parked"
  /\ reply = Closed => error
  /\ consumer = "parked" =>
       reply # None \/ HasLive \/ \E s \in Sources : chosen[s] = "live"

\* Two values of one source, x before y.
Ordered(x, y) == x[1] = y[1] => x[2] < y[2]

Increasing(l) == \A i, j \in 1..Len(l) : i < j => Ordered(l[i], l[j])

\* Where the values are that have left their drivers, and in which order.
PlaceInv ==
  /\ \A s \in Sources, k \in 1..Items :
       k \in Handed(s) <=> <<s, k>> \in Range(out) \/ reply = <<s, k>> \/ <<s, k>> \in Range(q)
  /\ Increasing(out) /\ Increasing(q)
  /\ \A x \in Range(out), y \in Range(q) : Ordered(x, y)
  /\ reply \in Values => \A x \in Range(out) : Ordered(x, reply)
  /\ reply \in Values => \A y \in Range(q) : Ordered(reply, y)
  /\ \A s \in Sources : driver[s] = "sending" /\ chosen[s] = "live" =>
       \A y \in Range(q) : y[1] # s

\* The counter of sources that have ended, and the end of the merged stream.
EndInv ==
  /\ done = Cardinality(Ended)
  /\ \A s \in Sources : driver[s] \in {"ending", "waking", "done"} => yielded[s] = Items
  /\ consumer = "ended" =>
       \A s \in Sources, k \in 1..Items : <<s, k>> \in Range(out)

IInv ==
  /\ TypeOK /\ DriverInv /\ WaiterInv
  /\ ~error => PlaceInv /\ EndInv

-----------------------------------------------------------------------------
\* push_back and pop_front, as sets of elements.
LEMMA RangeAppend ==
  ASSUME NEW S, NEW l \in Seq(S), NEW e \in S
  PROVE  /\ Append(l, e) \in Seq(S)
         /\ Range(Append(l, e)) = Range(l) \cup {e}
<1> DEFINE t == Append(l, e)
<1>1. /\ t \in Seq(S) /\ Len(t) = Len(l) + 1 /\ Len(l) \in Nat
      /\ \A i \in 1..Len(l) : t[i] = l[i]
      /\ t[Len(l) + 1] = e
  OBVIOUS
<1> HIDE DEF t
<1>2. ASSUME NEW x PROVE x \in Range(t) <=> x \in Range(l) \cup {e}
  <2>1. x \in Range(t) <=> \E i \in 1..(Len(l) + 1) : t[i] = x
    BY <1>1, SeqRangeByIndex
  <2>2. x \in Range(l) <=> \E i \in 1..Len(l) : l[i] = x
    BY SeqRangeByIndex
  <2> QED
    BY <1>1, <2>1, <2>2
<1> QED
  BY <1>1, <1>2 DEF t

LEMMA RangeTail ==
  ASSUME NEW S, NEW l \in Seq(S), l # <<>>
  PROVE  /\ Head(l) \in S /\ Tail(l) \in Seq(S)
         /\ Range(l) = {Head(l)} \cup Range(Tail(l))
<1>1. /\ Tail(l) \in Seq(S) /\ Len(Tail(l)) = Len(l) - 1 /\ Len(l) \in Nat /\ Len(l) >= 1
      /\ \A i \in 1..(Len(l) - 1) : Tail(l)[i] = l[i + 1]
      /\ Head(l) = l[1] /\ Head(l) \in S
  BY HeadTailProperties, EmptySeq, LenProperties
<1>2. ASSUME NEW x PROVE x \in Range(l) <=> x \in {Head(l)} \cup Range(Tail(l))
  <2>1. x \in Range(l) <=> \E i \in 1..Len(l) : l[i] = x
    BY SeqRangeByIndex
  <2>2. x \in Range(Tail(l)) <=> \E i \in 1..(Len(l) - 1) : l[i + 1] = x
    <3>1. x \in Range(Tail(l)) <=> \E i \in 1..Len(Tail(l)) : Tail(l)[i] = x
      BY <1>1, SeqRangeByIndex
    <3> QED
      BY <1>1, <3>1
  <2>3. (\E i \in 1..Len(l) : l[i] = x) => x = l[1] \/ \E i \in 1..(Len(l) - 1) : l[i + 1] = x
    <3>1. SUFFICES ASSUME NEW i \in 1..Len(l), l[i] = x, i # 1
                   PROVE  \E j \in 1..(Len(l) - 1) : l[j + 1] = x
      OBVIOUS
    <3>2. i - 1 \in 1..(Len(l) - 1) /\ l[(i - 1) + 1] = x
      BY <1>1, <3>1
    <3> QED
      BY <3>2
  <2>4. x = l[1] \/ (\E i \in 1..(Len(l) - 1) : l[i + 1] = x) => \E i \in 1..Len(l) : l[i] = x
    BY <1>1
  <2> QED
    BY <1>1, <2>1, <2>2, <2>3, <2>4
<1> QED
  BY <1>1, <1>2

LEMMA RangeEmpty == Range(<<>>) = {}
BY DEF Range

\* A list stays increasing when a later value is pushed and a value is popped.
LEMMA IncreasingAppend ==
  ASSUME NEW S, NEW l \in Seq(S), NEW e \in S,
         Increasing(l), \A x \in Range(l) : Ordered(x, e)
  PROVE  Increasing(Append(l, e))
<1> DEFINE t == Append(l, e)
<1>1. /\ Len(t) = Len(l) + 1 /\ Len(l) \in Nat
      /\ \A i \in 1..Len(l) : t[i] = l[i]
      /\ t[Len(l) + 1] = e
  OBVIOUS
<1>2. \A i \in 1..Len(l) : Ordered(l[i], e)
  BY SeqRangeByIndex
<1> HIDE DEF t
<1>3. ASSUME NEW i \in 1..Len(t), NEW j \in 1..Len(t), i < j
      PROVE  Ordered(t[i], t[j])
  <2>1. CASE j = Len(l) + 1
    BY <1>1, <1>2, <1>3, <2>1
  <2>2. CASE j \in 1..Len(l)
    BY <1>1, <1>3, <2>2 DEF Increasing
  <2> QED
    BY <1>1, <2>1, <2>2
<1> QED
  BY <1>3 DEF Increasing, t

LEMMA IncreasingTail ==
  ASSUME NEW S, NEW l \in Seq(S), l # <<>>, Increasing(l)
  PROVE  /\ Increasing(Tail(l))
         /\ \A y \in Range(Tail(l)) : Ordered(Head(l), y)
<1>1. /\ Tail(l) \in Seq(S) /\ Len(Tail(l)) = Len(l) - 1 /\ Len(l) \in Nat /\ Len(l) >= 1
      /\ \A i \in 1..(Len(l) - 1) : Tail(l)[i] = l[i + 1]
      /\ Head(l) = l[1]
  BY HeadTailProperties, EmptySeq, LenProperties
<1>2. ASSUME NEW i \in 1..(Len(l) - 1), NEW j \in 1..(Len(l) - 1), i < j
      PROVE  Ordered(Tail(l)[i], Tail(l)[j])
  <2>1. i + 1 \in 1..Len(l) /\ j + 1 \in 1..Len(l) /\ i + 1 < j + 1
    BY <1>1, <1>2
  <2> QED
    BY <1>1, <2>1 DEF Increasing
<1>3. ASSUME NEW y \in Range(Tail(l)) PROVE Ordered(Head(l), y)
  <2>1. PICK i \in 1..(Len(l) - 1) : Tail(l)[i] = y
    <3>1. PICK i \in 1..Len(Tail(l)) : Tail(l)[i] = y
      BY <1>1, SeqRangeByIndex
    <3> QED
      BY <1>1, <3>1
  <2>2. i + 1 \in 1..Len(l) /\ 1 \in 1..Len(l) /\ 1 < i + 1
    BY <1>1
  <2> QED
    BY <1>1, <2>1, <2>2 DEF Increasing
<1> QED
  BY <1>1, <1>2, <1>3 DEF Increasing

\* One list after another.
LEMMA RangeConcat ==
  ASSUME NEW S, NEW l \in Seq(S), NEW m \in Seq(S)
  PROVE  l \o m \in Seq(S) /\ Range(l \o m) = Range(l) \cup Range(m)
<1>1. /\ l \o m \in Seq(S) /\ Len(l \o m) = Len(l) + Len(m) /\ Len(l) \in Nat /\ Len(m) \in Nat
      /\ \A i \in 1..(Len(l) + Len(m)) : (l \o m)[i] = IF i <= Len(l) THEN l[i] ELSE m[i - Len(l)]
  BY ConcatProperties, LenProperties
<1>2. ASSUME NEW x PROVE x \in Range(l \o m) <=> x \in Range(l) \cup Range(m)
  <2>1. /\ x \in Range(l \o m) <=> \E i \in 1..(Len(l) + Len(m)) : (l \o m)[i] = x
        /\ x \in Range(l) <=> \E i \in 1..Len(l) : l[i] = x
        /\ x \in Range(m) <=> \E i \in 1..Len(m) : m[i] = x
    BY <1>1, SeqRangeByIndex
  <2>2. ASSUME NEW i \in 1..(Len(l) + Len(m)), (l \o m)[i] = x
        PROVE  (\E j \in 1..Len(l) : l[j] = x) \/ (\E j \in 1..Len(m) : m[j] = x)
    <3>1. CASE i <= Len(l)
      BY <1>1, <2>2, <3>1
    <3>2. CASE ~(i <= Len(l))
      <4>1. i - Len(l) \in 1..Len(m) /\ m[i - Len(l)] = x
        BY <1>1, <2>2, <3>2
      <4> QED
        BY <4>1
    <3> QED
      BY <3>1, <3>2
  <2>3. ASSUME NEW i \in 1..Len(l), l[i] = x
        PROVE  \E j \in 1..(Len(l) + Len(m)) : (l \o m)[j] = x
    BY <1>1, <2>3
  <2>4. ASSUME NEW i \in 1..Len(m), m[i] = x
        PROVE  \E j \in 1..(Len(l) + Len(m)) : (l \o m)[j] = x
    <3>1. i + Len(l) \in 1..(Len(l) + Len(m)) /\ (l \o m)[i + Len(l)] = x
      <4>1. i + Len(l) \in 1..(Len(l) + Len(m)) /\ ~(i + Len(l) <= Len(l)) /\ (i + Len(l)) - Len(l) = i
        BY <1>1
      <4> QED
        BY <1>1, <2>4, <4>1
    <3> QED
      BY <3>1
  <2> QED
    BY <2>1, <2>2, <2>3, <2>4
<1> QED
  BY <1>1, <1>2

LEMMA IncreasingConcat ==
  ASSUME NEW S, NEW l \in Seq(S), NEW m \in Seq(S),
         Increasing(l), Increasing(m), \A x \in Range(l), y \in Range(m) : Ordered(x, y)
  PROVE  Increasing(l \o m)
<1>1. /\ Len(l \o m) = Len(l) + Len(m) /\ Len(l) \in Nat /\ Len(m) \in Nat
      /\ \A i \in 1..(Len(l) + Len(m)) : (l \o m)[i] = IF i <= Len(l) THEN l[i] ELSE m[i - Len(l)]
  BY ConcatProperties, LenProperties
<1>2. \A i \in 1..Len(l), j \in 1..Len(m) : Ordered(l[i], m[j])
  BY SeqRangeByIndex
<1>3. ASSUME NEW i \in 1..(Len(l) + Len(m)), NEW j \in 1..(Len(l) + Len(m)), i < j
      PROVE  Ordered((l \o m)[i], (l \o m)[j])
  <2>1. CASE j <= Len(l)
    BY <1>1, <1>3, <2>1 DEF Increasing
  <2>2. CASE i <= Len(l) /\ ~(j <= Len(l))
    <3>1. i \in 1..Len(l) /\ j - Len(l) \in 1..Len(m)
      BY <1>1, <2>2
    <3> QED
      BY <1>1, <1>2, <2>2, <3>1
  <2>3. CASE ~(i <= Len(l))
    <3>1. /\ i - Len(l) \in 1..Len(m) /\ j - Len(l) \in 1..Len(m) /\ i - Len(l) < j - Len(l)
          /\ (l \o m)[i] = m[i - Len(l)] /\ (l \o m)[j] = m[j - Len(l)]
      BY <1>1, <1>3, <2>3
    <3> QED
      BY <3>1 DEF Increasing
  <2> QED
    BY <1>1, <1>3, <2>1, <2>2, <2>3
<1> QED
  BY <1>1, <1>3 DEF Increasing

-----------------------------------------------------------------------------
\* A waiter that is taken by a push is the last one of the queue.
LEMMA PushTakesTheLast ==
  ASSUME IInv, NEW s \in Sources, PushChooses(s)
  PROVE  HasLive /\ waiters' = <<>>
<1>1. PICK i \in 1..Len(waiters) :
        waiters[i] = "live" /\ waiters' = SubSeq(waiters, i + 1, Len(waiters))
  BY DEF PushChooses
<1>2. i = Len(waiters) /\ HasLive
  BY <1>1, SeqRangeByIndex DEF IInv, WaiterInv, TypeOK, HasLive
<1>3. SubSeq(waiters, Len(waiters) + 1, Len(waiters)) = <<>>
  BY DEF IInv, TypeOK
<1> QED
  BY <1>1, <1>2, <1>3

\* A queue holds a live waiter, as the model asks and as a set.
LEMMA LiveIsListed ==
  ASSUME TypeOK
  PROVE  Contains(waiters, "live") <=> HasLive
BY SeqRangeByIndex DEF TypeOK, Contains, HasLive

\* Sources are counted: the drivers that have ended are all of them, or fewer.
LEMMA EndedAreCounted ==
  /\ IsFiniteSet(Ended) /\ Cardinality(Ended) \in Nat /\ Total \in Nat
  /\ Cardinality(Ended) <= Total
  /\ Cardinality(Ended) = Total => Ended = Sources
<1>1. IsFiniteSet(Sources) /\ Ended \in SUBSET Sources
  BY MergeAssumption DEF Ended
<1> QED
  BY <1>1, FS_Subset, FS_CardinalityType DEF Total

\* A driver that ends is one more, and never more than there are.
LEMMA OneMoreEnds ==
  ASSUME TypeOK, NEW s \in Sources, driver[s] \in {"ending", "failing"},
         driver' = [driver EXCEPT ![s] = "waking"]
  PROVE  /\ Cardinality(Ended') = Cardinality(Ended) + 1
         /\ Cardinality(Ended) + 1 <= Total
<1>1. IsFiniteSet(Ended) /\ IsFiniteSet(Sources) /\ s \notin Ended
  BY EndedAreCounted, MergeAssumption DEF Ended
<1>2. Ended' = Ended \cup {s}
  BY DEF Ended, TypeOK
<1>3. Ended \cup {s} \in SUBSET Sources
  BY DEF Ended
<1> QED
  BY <1>1, <1>2, <1>3, FS_AddElement, FS_Subset, FS_CardinalityType DEF Total

\* What fail does, case by case.
LEMMA FailTakes ==
  ASSUME NEW s \in Sources, Fail(s)
  PROVE  /\ error => /\ q' = q /\ waiters' = waiters /\ done' = done /\ error' = error
                     /\ chosen' = chosen /\ reply' = reply
         /\ ~error => /\ error' = TRUE /\ done' = Total /\ q' = <<>> /\ waiters' = <<>>
                      /\ TakeOldest(s)
                      /\ reply' = IF waiters # <<>> /\ Contains(Tail(waiters), "live")
                                  THEN Closed ELSE reply
BY DEF Fail, queueVars

\* Types, and what a driver holds, are kept by every step.
LEMMA TypeStep ==
  ASSUME IInv, [Next]_vars
  PROVE  TypeOK' /\ DriverInv'
<1> USE DEF queueVars, driverVars, consumerVars, Waiter, DriverPcs, InHand
<1>1. TypeOK /\ DriverInv /\ WaiterInv /\ (~error => EndInv)
  BY DEF IInv
<1> DEFINE Here == TypeOK' /\ DriverInv'
<1>2. ASSUME NEW s \in Sources, driver[s] \in {"pushing", "sending"}
      PROVE  Value(s) \in Values
  BY <1>1, <1>2 DEF Value, Values, TypeOK, DriverInv
<1>3. ASSUME NEW s \in Sources, Pull(s) PROVE Here
  <2>1. yielded' \in [Sources -> 0..Items]
    <3>1. CASE yielded' = yielded
      BY <1>1, <3>1 DEF TypeOK
    <3>2. CASE yielded[s] < Items /\ yielded' = [yielded EXCEPT ![s] = @ + 1]
      <4>1. yielded[s] \in 0..Items /\ Items \in Nat
        BY <1>1, MergeAssumption DEF TypeOK
      <4>2. yielded[s] + 1 \in 0..Items
        BY <3>2, <4>1
      <4> QED
        BY <1>1, <3>2, <4>2 DEF TypeOK
    <3> QED
      BY <1>3, <3>1, <3>2 DEF Pull
  <2>2. driver' \in [Sources -> DriverPcs]
    BY <1>1, <1>3 DEF Pull, TypeOK
  <2>3. TypeOK'
    BY <1>1, <1>3, <2>1, <2>2 DEF Pull, TypeOK
  <2>4. \A t \in Sources : driver'[t] = "pushing" /\ t = s => yielded'[t] >= 1
    BY <1>1, <1>3, MergeAssumption DEF Pull, TypeOK
  <2>5. driver'[s] \in {"pushing", "ending", "failing"}
    BY <1>1, <1>3 DEF Pull, TypeOK
  <2>6. chosen' = chosen /\ \A t \in Sources : t # s => driver'[t] = driver[t] /\ yielded'[t] = yielded[t]
    BY <1>1, <1>3 DEF Pull, TypeOK
  <2>7. chosen[s] = None
    BY <1>1, <1>3 DEF Pull, DriverInv
  <2> QED
    BY <1>1, <2>3, <2>4, <2>5, <2>6, <2>7 DEF DriverInv
<1>4. ASSUME NEW s \in Sources, PushRefused(s) PROVE Here
  BY <1>1, <1>4 DEF PushRefused, TypeOK, DriverInv
<1>5. ASSUME NEW s \in Sources, PushQueued(s) PROVE Here
  <2>1. Value(s) \in Values
    BY <1>2, <1>5 DEF PushQueued
  <2>2. q' \in Seq(Values) /\ waiters' \in Seq(Waiter)
    BY <1>1, <1>5, <2>1 DEF PushQueued, TypeOK
  <2> QED
    BY <1>1, <1>5, <2>2 DEF PushQueued, TypeOK, DriverInv
<1>6. ASSUME NEW s \in Sources, PushChooses(s) PROVE Here
  <2>1. waiters' \in Seq(Waiter)
    <3>1. waiters' = <<>>
      BY <1>6, PushTakesTheLast
    <3> QED
      BY <3>1
  <2> QED
    BY <1>1, <1>6, <2>1 DEF PushChooses, TypeOK, DriverInv
<1>7. ASSUME NEW s \in Sources, PushSends(s) PROVE Here
  <2>1. Value(s) \in Values
    BY <1>2, <1>7 DEF PushSends
  <2> QED
    BY <1>1, <1>7, <2>1 DEF PushSends, TypeOK, DriverInv
<1>8. ASSUME NEW s \in Sources, OneDone(s) PROVE Here
  <2>1. done' \in 0..Total
    <3>1. CASE error
      BY <1>1, <1>8, <3>1 DEF OneDone, TypeOK
    <3>2. CASE ~error
      <4>1. Cardinality(Ended) + 1 <= Total
        BY <1>1, <1>8, OneMoreEnds DEF OneDone
      <4>2. done' = Cardinality(Ended) + 1
        BY <1>1, <1>8, <3>2 DEF OneDone, EndInv
      <4> QED
        BY <4>1, <4>2, EndedAreCounted
    <3> QED
      BY <3>1, <3>2
  <2>2. waiters' \in Seq(Waiter) /\ chosen' \in [Sources -> Waiter \cup {None}]
    <3>1. waiters # <<>> => Head(waiters) \in Waiter /\ Tail(waiters) \in Seq(Waiter)
      BY <1>1, HeadTailProperties DEF TypeOK
    <3> QED
      BY <1>1, <1>8, <3>1 DEF OneDone, TakeOldest, TypeOK
  <2>3. TypeOK'
    BY <1>1, <1>8, <2>1, <2>2 DEF OneDone, TypeOK
  <2>4. \A t \in Sources : t # s => chosen'[t] = chosen[t]
    BY <1>1, <1>8 DEF OneDone, TakeOldest, TypeOK
  <2> QED
    BY <1>1, <1>8, <2>3, <2>4 DEF OneDone, TypeOK, DriverInv
<1>9. ASSUME NEW s \in Sources, Fail(s) PROVE Here
  <2>1. waiters' \in Seq(Waiter) /\ chosen' \in [Sources -> Waiter \cup {None}]
    <3>1. waiters # <<>> => Head(waiters) \in Waiter
      BY <1>1, HeadTailProperties DEF TypeOK
    <3> QED
      <4>1. CASE error
        BY <1>1, <1>9, <4>1, FailTakes DEF TypeOK
      <4>2. CASE ~error
        <5>1. TakeOldest(s) /\ waiters' = <<>>
          BY <1>9, <4>2, FailTakes
        <5> QED
          BY <1>1, <3>1, <5>1 DEF TakeOldest, TypeOK
      <4> QED
        BY <4>1, <4>2
  <2>2. done' \in 0..Total /\ q' \in Seq(Values)
    <3>1. CASE error
      BY <1>1, <1>9, <3>1, FailTakes DEF TypeOK
    <3>2. CASE ~error
      <4>1. done' = Total /\ q' = <<>>
        BY <1>9, <3>2, FailTakes
      <4> QED
        BY <4>1, EndedAreCounted
    <3> QED
      BY <3>1, <3>2
  <2>3. TypeOK'
    BY <1>1, <1>9, <2>1, <2>2 DEF Fail, TypeOK
  <2>4. \A t \in Sources : t # s => chosen'[t] = chosen[t]
    BY <1>1, <1>9 DEF Fail, TakeOldest, TypeOK
  <2> QED
    BY <1>1, <1>9, <2>3, <2>4 DEF Fail, TypeOK, DriverInv
<1>10. ASSUME NEW s \in Sources, Wake(s) PROVE Here
  BY <1>1, <1>10 DEF Wake, TypeOK, DriverInv
<1>11. ASSUME PopError \/ PopEnd \/ PopLooks PROVE Here
  BY <1>1, <1>11 DEF PopError, PopEnd, PopLooks, TypeOK, DriverInv
<1>12. ASSUME PopValue PROVE Here
  <2>1. Head(q) \in Values /\ Tail(q) \in Seq(Values)
    BY <1>1, <1>12, HeadTailProperties DEF PopValue, TypeOK
  <2> QED
    BY <1>1, <1>12, <2>1 DEF PopValue, TypeOK, DriverInv
<1>13. ASSUME PopParks PROVE Here
  BY <1>1, <1>13 DEF PopParks, TypeOK, DriverInv
<1>14. ASSUME PopResumes PROVE Here
  BY <1>1, <1>14 DEF PopResumes, TypeOK, DriverInv
<1>15. ASSUME Abandon PROVE Here
  <2>1. waiters' \in Seq(Waiter)
    BY <1>1, <1>15 DEF Abandon, TypeOK
  <2>2. \A t \in Sources : chosen'[t] = (IF chosen[t] = "live" THEN "dead" ELSE chosen[t])
    BY <1>15 DEF Abandon
  <2>3. chosen' \in [Sources -> Waiter \cup {None}]
    BY <1>1, <1>15 DEF Abandon, TypeOK
  <2>4. abandons' \in 0..MaxAbandons
    BY <1>1, <1>15, MergeAssumption DEF Abandon, TypeOK
  <2>5. TypeOK'
    BY <1>1, <1>15, <2>1, <2>3, <2>4 DEF Abandon, TypeOK
  <2> QED
    BY <1>1, <1>15, <2>2, <2>5, MergeAssumption DEF Abandon, DriverInv
<1>16. CASE UNCHANGED vars
  BY <1>1, <1>16 DEF vars, TypeOK, DriverInv
<1> QED
  BY <1>3, <1>4, <1>5, <1>6, <1>7, <1>8, <1>9, <1>10, <1>11, <1>12, <1>13, <1>14,
     <1>15, <1>16 DEF Next, DriverStep, ConsumerStep

\* TakeOldest takes the live waiter only if it is alone, and leaves none.
LEMMA OldestIsTaken ==
  ASSUME TypeOK, WaiterInv, NEW s \in Sources, TakeOldest(s)
  PROVE  /\ \A t \in Sources : t # s => chosen'[t] = chosen[t]
         /\ waiters = <<>> => chosen'[s] = None /\ ~HasLive
         /\ waiters # <<>> =>
              /\ chosen'[s] = Head(waiters) /\ Tail(waiters) \in Seq(Waiter)
              /\ HasLive <=> Head(waiters) = "live" \/ "live" \in Range(Tail(waiters))
              /\ Head(waiters) = "live" => Tail(waiters) = <<>>
              /\ \A i \in 1..Len(Tail(waiters)) :
                   Tail(waiters)[i] = "live" => i = Len(Tail(waiters))
<1>1. /\ \A t \in Sources : t # s => chosen'[t] = chosen[t]
      /\ waiters = <<>> => chosen'[s] = None
      /\ waiters # <<>> => chosen'[s] = Head(waiters)
  BY DEF TakeOldest, TypeOK
<1>2. waiters = <<>> => ~HasLive
  BY RangeEmpty DEF HasLive
<1>3. ASSUME waiters # <<>>
      PROVE  /\ Tail(waiters) \in Seq(Waiter)
             /\ HasLive <=> Head(waiters) = "live" \/ "live" \in Range(Tail(waiters))
             /\ Head(waiters) = "live" => Tail(waiters) = <<>>
             /\ \A i \in 1..Len(Tail(waiters)) :
                  Tail(waiters)[i] = "live" => i = Len(Tail(waiters))
  <2>1. /\ waiters \in Seq(Waiter) /\ Tail(waiters) \in Seq(Waiter)
        /\ Len(Tail(waiters)) = Len(waiters) - 1 /\ Len(waiters) \in Nat /\ Len(waiters) >= 1
        /\ \A i \in 1..(Len(waiters) - 1) : Tail(waiters)[i] = waiters[i + 1]
        /\ Head(waiters) = waiters[1]
    BY <1>3, HeadTailProperties, EmptySeq, LenProperties DEF TypeOK
  <2>2. HasLive <=> Head(waiters) = "live" \/ "live" \in Range(Tail(waiters))
    BY <1>3, <2>1, RangeTail DEF HasLive
  <2>3. ASSUME Head(waiters) = "live" PROVE Tail(waiters) = <<>>
    <3>1. \A i \in 1..Len(waiters) : waiters[i] = "live" => i = Len(waiters)
      BY DEF WaiterInv
    <3>2. waiters[1] = "live" /\ 1 \in 1..Len(waiters)
      BY <2>1, <2>3
    <3>3. 1 = Len(waiters)
      BY <3>1, <3>2, Zenon
    <3>4. Len(Tail(waiters)) = Len(waiters) - 1
      BY <2>1
    <3>5. Len(Tail(waiters)) = 0
      BY <3>3, <3>4
    <3> QED
      BY <2>1, <3>5, EmptySeq
  <2>4. ASSUME NEW i \in 1..Len(Tail(waiters)), Tail(waiters)[i] = "live"
        PROVE  i = Len(Tail(waiters))
    <3>1. i + 1 \in 1..Len(waiters) /\ waiters[i + 1] = "live"
      BY <2>1, <2>4
    <3>2. \A j \in 1..Len(waiters) : waiters[j] = "live" => j = Len(waiters)
      BY DEF WaiterInv
    <3>3. i + 1 = Len(waiters)
      BY <3>1, <3>2, Zenon
    <3>4. Len(Tail(waiters)) = Len(waiters) - 1 /\ i \in Int /\ Len(waiters) \in Int
      BY <2>1
    <3> QED
      BY <3>3, <3>4
  <2> QED
    BY <2>1, <2>2, <2>3, <2>4
<1> QED
  BY <1>1, <1>2, <1>3

\* There is at most one live sender after every step.
LEMMA WaiterStep ==
  ASSUME IInv, [Next]_vars, TypeOK'
  PROVE  WaiterInv'
<1> USE DEF queueVars, driverVars, consumerVars
<1>1. TypeOK /\ DriverInv /\ WaiterInv
  BY DEF IInv
<1>2. /\ HasLive' <=> "live" \in Range(waiters')
      /\ "live" \notin Range(<<>>) /\ Len(<<>>) = 0
      /\ None # "live"
  BY RangeEmpty, MergeAssumption DEF HasLive, Waiter
<1>3. ASSUME NEW s \in Sources, Pull(s) \/ PushRefused(s) PROVE WaiterInv'
  BY <1>1, <1>3 DEF Pull, PushRefused, WaiterInv, HasLive
<1>4. ASSUME NEW s \in Sources, PushQueued(s) PROVE WaiterInv'
  <2>1. ~HasLive /\ ~HasLive' /\ Len(waiters') = 0
    BY <1>1, <1>2, <1>4, LiveIsListed DEF PushQueued
  <2>2. /\ chosen' = chosen /\ reply' = reply /\ consumer' = consumer /\ error' = error
    BY <1>4 DEF PushQueued
  <2> QED
    BY <1>1, <2>1, <2>2 DEF WaiterInv
<1>5. ASSUME NEW s \in Sources, PushChooses(s) PROVE WaiterInv'
  <2>1. HasLive /\ ~HasLive' /\ Len(waiters') = 0
    BY <1>2, <1>5, PushTakesTheLast
  <2>2. /\ chosen' = [chosen EXCEPT ![s] = "live"]
        /\ reply' = reply /\ consumer' = consumer /\ error' = error
    BY <1>5 DEF PushChooses
  <2>3. \A t \in Sources : chosen[t] # "live"
    BY <1>1, <2>1 DEF WaiterInv
  <2>4. \A t \in Sources : chosen'[t] = "live" <=> t = s
    BY <1>1, <2>2, <2>3 DEF TypeOK
  <2>5. reply = None /\ consumer = "parked"
    BY <1>1, <2>1 DEF WaiterInv
  <2> QED
    BY <2>1, <2>2, <2>4, <2>5, MergeAssumption DEF WaiterInv
<1>6. ASSUME NEW s \in Sources, PushSends(s) PROVE WaiterInv'
  <2>1. \A t \in Sources : chosen'[t] = IF t = s THEN None ELSE chosen[t]
    BY <1>1, <1>6 DEF PushSends, TypeOK
  <2>2. /\ waiters' = waiters /\ q' = q /\ consumer' = consumer /\ error' = error
        /\ HasLive' = HasLive
    BY <1>6 DEF PushSends, HasLive
  <2>3. CASE chosen[s] = "live"
    <3>1. Value(s) \in Values
      BY <1>1, <1>6 DEF PushSends, Value, Values, TypeOK, DriverInv, InHand
    <3>2. reply' \in Values
      BY <1>6, <2>3, <3>1 DEF PushSends
    <3>3. reply' # None /\ reply' # Closed
      BY <3>2, MergeAssumption
    <3>4. ~HasLive /\ consumer = "parked"
      BY <1>1, <2>3 DEF WaiterInv
    <3>5. \A t \in Sources : chosen'[t] # "live"
      BY <1>1, <1>2, <2>1, <2>3 DEF WaiterInv
    <3> QED
      BY <1>1, <2>2, <3>3, <3>4, <3>5 DEF WaiterInv
  <2>4. CASE chosen[s] # "live"
    <3>1. reply' = reply
      BY <1>6, <2>4 DEF PushSends
    <3>2. \A t \in Sources : chosen'[t] = "live" <=> chosen[t] = "live"
      BY <1>2, <2>1, <2>4
    <3> QED
      BY <1>1, <2>2, <3>1, <3>2 DEF WaiterInv
  <2> QED
    BY <2>3, <2>4
<1>7. ASSUME NEW s \in Sources, OneDone(s) PROVE WaiterInv'
  <2>1. q' = q /\ consumer' = consumer /\ error' = error /\ reply' = reply
    BY <1>7 DEF OneDone
  <2>2. CASE error
    BY <1>1, <1>7, <2>1, <2>2 DEF OneDone, WaiterInv, HasLive
  <2>3. CASE ~error
    <3>1. TakeOldest(s) /\ waiters' = IF waiters = <<>> THEN <<>> ELSE Tail(waiters)
      BY <1>7, <2>3 DEF OneDone
    <3>2. chosen[s] = None
      BY <1>1, <1>7 DEF OneDone, DriverInv
    <3>3. CASE waiters = <<>>
      <4>1. waiters' = waiters /\ \A t \in Sources : chosen'[t] = chosen[t]
        BY <1>1, <3>1, <3>2, <3>3, OldestIsTaken
      <4> QED
        BY <1>1, <2>1, <4>1 DEF WaiterInv, HasLive
    <3>4. CASE waiters # <<>> /\ Head(waiters) = "live"
      <4>1. HasLive /\ ~HasLive' /\ Len(waiters') = 0 /\ chosen'[s] = "live"
        BY <1>1, <1>2, <3>1, <3>4, OldestIsTaken
      <4>2. \A t \in Sources : chosen'[t] = "live" => t = s
        BY <1>1, <3>1, <4>1, OldestIsTaken DEF WaiterInv
      <4> QED
        BY <1>1, <2>1, <4>1, <4>2 DEF WaiterInv
    <3>5. CASE waiters # <<>> /\ Head(waiters) # "live"
      <4>1. waiters' = Tail(waiters) /\ (HasLive' <=> HasLive)
        BY <1>1, <1>2, <3>1, <3>5, OldestIsTaken
      <4>2. \A i \in 1..Len(waiters') : waiters'[i] = "live" => i = Len(waiters')
        BY <1>1, <3>1, <3>5, <4>1, OldestIsTaken
      <4>3. \A t \in Sources : chosen'[t] = "live" <=> chosen[t] = "live"
        BY <1>1, <1>2, <3>1, <3>2, <3>5, OldestIsTaken
      <4> QED
        BY <1>1, <2>1, <4>1, <4>2, <4>3 DEF WaiterInv
    <3> QED
      BY <3>3, <3>4, <3>5
  <2> QED
    BY <2>2, <2>3
<1>8. ASSUME NEW s \in Sources, Fail(s) PROVE WaiterInv'
  <2>1. consumer' = consumer
    BY <1>8 DEF Fail
  <2>2. CASE error
    <3>1. /\ q' = q /\ waiters' = waiters /\ error' = error
          /\ chosen' = chosen /\ reply' = reply
      BY <1>8, <2>2, FailTakes
    <3> QED
      BY <1>1, <2>1, <3>1 DEF WaiterInv, HasLive
  <2>3. CASE ~error
    <3>1. /\ waiters' = <<>> /\ TakeOldest(s)
          /\ reply' = IF waiters # <<>> /\ Contains(Tail(waiters), "live")
                      THEN Closed ELSE reply
      BY <1>8, <2>3, FailTakes
    <3>2. error'
      BY <1>8, <2>3, FailTakes
    <3>3. ~HasLive' /\ Len(waiters') = 0
      BY <1>2, <3>1
    <3>4. chosen[s] = None
      BY <1>1, <1>8 DEF Fail, DriverInv
    <3>5. CASE waiters = <<>>
      <4>1. reply' = reply /\ ~HasLive /\ \A t \in Sources : chosen'[t] = chosen[t]
        BY <1>1, <3>1, <3>4, <3>5, OldestIsTaken
      <4> QED
        BY <1>1, <2>1, <3>2, <3>3, <4>1 DEF WaiterInv
    <3>6. ASSUME waiters # <<>>
          PROVE  /\ reply' = IF "live" \in Range(Tail(waiters)) THEN Closed ELSE reply
                 /\ chosen'[s] = Head(waiters)
                 /\ HasLive <=> Head(waiters) = "live" \/ "live" \in Range(Tail(waiters))
                 /\ Head(waiters) = "live" => "live" \notin Range(Tail(waiters))
                 /\ \A t \in Sources : t # s => chosen'[t] = chosen[t]
      <4>1. Contains(Tail(waiters), "live") <=> "live" \in Range(Tail(waiters))
        BY <1>1, <3>1, <3>6, OldestIsTaken, SeqRangeByIndex DEF Contains
      <4> QED
        BY <1>1, <1>2, <3>1, <3>6, <4>1, OldestIsTaken
    <3>7. CASE waiters # <<>> /\ HasLive
      <4>1. /\ reply = None /\ consumer = "parked"
            /\ \A t \in Sources : t # s => chosen'[t] # "live"
        BY <1>1, <3>6, <3>7 DEF WaiterInv
      <4>2. CASE Head(waiters) = "live"
        BY <1>1, <2>1, <3>2, <3>3, <3>6, <3>7, <4>1, <4>2 DEF WaiterInv
      <4>3. CASE Head(waiters) # "live"
        <5>1. reply' = Closed /\ Closed # None /\ chosen'[s] # "live"
          BY <3>6, <3>7, <4>3, MergeAssumption
        <5> QED
          BY <2>1, <3>2, <3>3, <4>1, <5>1 DEF WaiterInv
      <4> QED
        BY <4>2, <4>3
    <3>8. CASE waiters # <<>> /\ ~HasLive
      <4>1. reply' = reply /\ \A t \in Sources : chosen'[t] = "live" <=> chosen[t] = "live"
        BY <1>2, <3>4, <3>6, <3>8
      <4> QED
        BY <1>1, <2>1, <3>2, <3>3, <3>8, <4>1 DEF WaiterInv
    <3> QED
      BY <3>5, <3>7, <3>8
  <2> QED
    BY <2>2, <2>3
<1>9. ASSUME NEW s \in Sources, Wake(s) PROVE WaiterInv'
  <2>1. \A t \in Sources : chosen'[t] = IF t = s THEN None ELSE chosen[t]
    BY <1>1, <1>9 DEF Wake, TypeOK
  <2>2. /\ waiters' = waiters /\ q' = q /\ consumer' = consumer /\ error' = error
        /\ HasLive' = HasLive
    BY <1>9 DEF Wake, HasLive
  <2>3. CASE chosen[s] = "live"
    <3>1. reply' # None /\ reply' # Closed
      BY <1>9, <2>3, MergeAssumption DEF Wake
    <3>2. ~HasLive /\ consumer = "parked"
      BY <1>1, <2>3 DEF WaiterInv
    <3>3. \A t \in Sources : chosen'[t] # "live"
      BY <1>1, <1>2, <2>1, <2>3 DEF WaiterInv
    <3> QED
      BY <1>1, <2>2, <3>1, <3>2, <3>3 DEF WaiterInv
  <2>4. CASE chosen[s] # "live"
    <3>1. reply' = reply
      BY <1>9, <2>4 DEF Wake
    <3>2. \A t \in Sources : chosen'[t] = "live" <=> chosen[t] = "live"
      BY <1>2, <2>1, <2>4
    <3> QED
      BY <1>1, <2>2, <3>1, <3>2 DEF WaiterInv
  <2> QED
    BY <2>3, <2>4
<1>10. ASSUME PopError \/ PopValue \/ PopEnd \/ PopLooks PROVE WaiterInv'
  <2>1. /\ consumer # "parked" /\ consumer' # "parked"
        /\ waiters' = waiters /\ chosen' = chosen /\ reply' = reply /\ error' = error
    BY <1>10 DEF PopError, PopValue, PopEnd, PopLooks, Looks
  <2>2. HasLive' = HasLive
    BY <2>1 DEF HasLive
  <2> QED
    BY <1>1, <2>1, <2>2 DEF WaiterInv
<1>11. ASSUME PopParks PROVE WaiterInv'
  <2>1. /\ waiters' = Append(waiters, "live") /\ consumer = "looked" /\ consumer' = "parked"
        /\ chosen' = chosen /\ reply' = reply /\ error' = error /\ ~error
        /\ q = <<>> /\ q' = q
    BY <1>11 DEF PopParks
  <2>2. ~HasLive /\ reply = None /\ \A t \in Sources : chosen[t] # "live"
    BY <1>1, <2>1 DEF WaiterInv
  <2>3. HasLive'
    <3>1. waiters \in Seq(Waiter) /\ "live" \in Waiter
      BY <1>1 DEF TypeOK, Waiter
    <3>2. Range(Append(waiters, "live")) = Range(waiters) \cup {"live"}
      BY <3>1, RangeAppend
    <3> QED
      BY <1>2, <2>1, <3>2
  <2>4. \A i \in 1..Len(waiters) : waiters[i] # "live"
    BY <1>1, <2>2, SeqRangeByIndex DEF TypeOK, HasLive
  <2>5. \A i \in 1..Len(waiters') : waiters'[i] = "live" => i = Len(waiters')
    BY <1>1, <2>1, <2>4 DEF TypeOK
  <2> QED
    BY <2>1, <2>2, <2>3, <2>5, MergeAssumption DEF WaiterInv
<1>12. ASSUME PopResumes PROVE WaiterInv'
  <2>1. /\ reply # None /\ reply' = None /\ consumer' # "parked"
        /\ chosen' = chosen /\ waiters' = waiters
    BY <1>12 DEF PopResumes
  <2>2. ~HasLive /\ ~HasLive' /\ \A t \in Sources : chosen[t] # "live"
    BY <1>1, <1>2, <2>1 DEF WaiterInv, HasLive
  <2>3. \A i \in 1..Len(waiters) : waiters[i] # "live"
    BY <1>1, <2>2, SeqRangeByIndex DEF TypeOK, HasLive
  <2> QED
    BY <2>1, <2>2, <2>3, MergeAssumption DEF WaiterInv
<1>13. ASSUME Abandon PROVE WaiterInv'
  <2>1. /\ waiters' = [i \in DOMAIN waiters |-> "dead"] /\ waiters' \in Seq(Waiter)
        /\ chosen' = [s \in Sources |-> IF chosen[s] = "live" THEN "dead" ELSE chosen[s]]
        /\ reply = None /\ reply' = None /\ consumer' = "popping"
    BY <1>13 DEF Abandon, TypeOK
  <2>2. \A i \in 1..Len(waiters') : waiters'[i] # "live"
    BY <2>1
  <2>3. ~HasLive'
    BY <1>2, <2>1, <2>2, SeqRangeByIndex
  <2>4. \A s \in Sources : chosen'[s] # "live"
    BY <2>1
  <2> QED
    BY <2>1, <2>2, <2>3, <2>4, MergeAssumption DEF WaiterInv
<1>14. CASE UNCHANGED vars
  BY <1>1, <1>14 DEF vars, WaiterInv, HasLive
<1> QED
  BY <1>3, <1>4, <1>5, <1>6, <1>7, <1>8, <1>9, <1>10, <1>11, <1>12, <1>13, <1>14
     DEF Next, DriverStep, ConsumerStep

\* A value of s that is somewhere is one that its driver has let go of.
LEMMA PlacedIsHanded ==
  ASSUME TypeOK, DriverInv, PlaceInv, NEW s \in Sources, NEW x \in Values, x[1] = s,
         x \in Range(out) \/ x = reply \/ x \in Range(q)
  PROVE  x[2] \in Handed(s)
<1>1. PICK k \in 1..Items : x = <<s, k>>
  BY DEF Values
<1>2. \A t \in Sources, j \in 1..Items :
        j \in Handed(t) <=> <<t, j>> \in Range(out) \/ reply = <<t, j>> \/ <<t, j>> \in Range(q)
  BY DEF PlaceInv
<1>3. k \in Handed(s) /\ x[2] = k
  BY <1>1, <1>2
<1> QED
  BY <1>3

\* ... so what the driver still holds comes after it.
LEMMA InHandIsLast ==
  ASSUME TypeOK, DriverInv, PlaceInv, NEW s \in Sources, InHand(s)
  PROVE  /\ Value(s) \in Values /\ Value(s)[1] = s /\ Value(s)[2] = yielded[s]
         /\ \A x \in Range(out) : Ordered(x, Value(s))
         /\ \A x \in Range(q) : Ordered(x, Value(s))
         /\ reply \in Values => Ordered(reply, Value(s))
<1>1. /\ Value(s) \in Values /\ Value(s)[1] = s /\ Value(s)[2] = yielded[s]
      /\ yielded[s] \in 1..Items /\ Handed(s) = 1..(yielded[s] - 1)
  BY DEF Value, Values, TypeOK, DriverInv, InHand, Handed
<1>2. Range(out) \subseteq Values /\ Range(q) \subseteq Values
  BY DEF Range, TypeOK
<1>3. ASSUME NEW x \in Values, x \in Range(out) \/ x = reply \/ x \in Range(q)
      PROVE  Ordered(x, Value(s))
  <2>1. SUFFICES ASSUME x[1] = s PROVE x[2] < yielded[s]
    BY <1>1 DEF Ordered
  <2>2. x[2] \in Handed(s)
    BY <1>3, <2>1, PlacedIsHanded
  <2> QED
    BY <1>1, <2>2
<1> QED
  BY <1>1, <1>2, <1>3

\* Letting go of the value in hand.
LEMMA HandedGrows ==
  ASSUME TypeOK, DriverInv, NEW s \in Sources, InHand(s), yielded' = yielded,
         driver' = [driver EXCEPT ![s] = "pulling"]
  PROVE  \A t \in Sources, k \in 1..Items :
           k \in Handed(t)' <=> k \in Handed(t) \/ <<t, k>> = Value(s)
<1>1. yielded[s] \in 1..Items /\ Handed(s) = 1..(yielded[s] - 1)
  BY DEF TypeOK, DriverInv, InHand, Handed
<1>2. Handed(s)' = 1..yielded[s]
  BY DEF Handed, TypeOK
<1>3. \A t \in Sources : t # s => Handed(t)' = Handed(t)
  BY DEF Handed, TypeOK
<1>4. ASSUME NEW t \in Sources, NEW k \in 1..Items
      PROVE  k \in Handed(t)' <=> k \in Handed(t) \/ <<t, k>> = Value(s)
  <2>1. <<t, k>> = Value(s) <=> t = s /\ k = yielded[s]
    BY DEF Value
  <2>2. CASE t = s
    BY <1>1, <1>2, <2>1, <2>2
  <2>3. CASE t # s
    BY <1>3, <2>1, <2>3
  <2> QED
    BY <2>2, <2>3
<1> QED
  BY <1>4

\* A step that moves no value.
LEMMA PlaceKept ==
  ASSUME PlaceInv, \A t \in Sources : Handed(t)' = Handed(t),
         q' = q, out' = out, reply' = reply \/ (reply \notin Values /\ reply' \notin Values),
         \A t \in Sources : driver'[t] = "sending" /\ chosen'[t] = "live" =>
                              driver[t] = "sending" /\ chosen[t] = "live"
  PROVE  PlaceInv'
<1>1. \A t \in Sources, k \in 1..Items : <<t, k>> \in Values
  BY DEF Values
<1>2. \A t \in Sources, k \in 1..Items : reply' = <<t, k>> <=> reply = <<t, k>>
  BY <1>1
<1>3. (reply' \in Values <=> reply \in Values) /\ (reply' \in Values => reply' = reply)
  OBVIOUS
<1>4. Range(q)' = Range(q) /\ Range(out)' = Range(out)
  OBVIOUS
<1>5. Increasing(q)' /\ Increasing(out)'
  BY DEF PlaceInv
<1>6. Values' = Values
  BY DEF Values
<1>7. \A s \in Sources, k \in 1..Items :
        (k \in Handed(s) <=> <<s, k>> \in Range(out) \/ reply = <<s, k>> \/ <<s, k>> \in Range(q))'
  BY <1>2, <1>4 DEF PlaceInv
<1>8. /\ (\A x \in Range(out), y \in Range(q) : Ordered(x, y))'
      /\ (reply \in Values => \A x \in Range(out) : Ordered(x, reply))'
      /\ (reply \in Values => \A y \in Range(q) : Ordered(reply, y))'
  BY <1>3, <1>4 DEF PlaceInv
<1>9. (\A s \in Sources : driver[s] = "sending" /\ chosen[s] = "live" =>
         \A y \in Range(q) : y[1] # s)'
  BY <1>4 DEF PlaceInv
<1> QED
  BY <1>5, <1>7, <1>8, <1>9 DEF PlaceInv

\* Every step moves values from one place to the next, in order.
LEMMA PlaceStep ==
  ASSUME IInv, [Next]_vars, ~error'
  PROVE  PlaceInv'
<1> USE DEF queueVars, driverVars, consumerVars
<1>1. ~error
  BY DEF Next, DriverStep, ConsumerStep, Pull, PushRefused, PushQueued, PushChooses, PushSends,
     OneDone, Fail, Wake, PopError, PopValue, PopEnd, PopLooks, PopParks, PopResumes, Abandon, vars
<1>2. TypeOK /\ DriverInv /\ WaiterInv /\ PlaceInv
  BY <1>1 DEF IInv
<1>3. \A t \in Sources, k \in 1..Items : <<t, k>> \in Values
  BY DEF Values
<1>4. None \notin Values /\ WakeUp \notin Values
  BY MergeAssumption
<1>5. ASSUME NEW s \in Sources, Pull(s) PROVE PlaceInv'
  <2>1. /\ \A t \in Sources : t # s => driver'[t] = driver[t] /\ yielded'[t] = yielded[t]
        /\ driver[s] = "pulling"
        /\ \/ driver'[s] = "pushing" /\ yielded'[s] = yielded[s] + 1
           \/ driver'[s] \in {"ending", "failing"} /\ yielded'[s] = yielded[s]
    BY <1>2, <1>5 DEF Pull, TypeOK
  <2>2. Handed(s)' = Handed(s)
    <3>1. yielded[s] \in Nat
      BY <1>2, MergeAssumption DEF TypeOK
    <3> QED
      BY <2>1, <3>1 DEF Handed
  <2>3. \A t \in Sources : Handed(t)' = Handed(t)
    BY <2>1, <2>2 DEF Handed
  <2>4. \A t \in Sources : driver'[t] = "sending" => driver[t] = "sending"
    BY <2>1
  <2>5. q' = q /\ out' = out /\ reply' = reply /\ chosen' = chosen
    BY <1>5 DEF Pull
  <2> QED
    BY <1>2, <2>3, <2>4, <2>5, PlaceKept
<1>6. ASSUME NEW s \in Sources, PushQueued(s) PROVE PlaceInv'
  <2>1. /\ InHand(s) /\ q' = Append(q, Value(s)) /\ driver' = [driver EXCEPT ![s] = "pulling"]
        /\ out' = out /\ reply' = reply /\ yielded' = yielded /\ chosen' = chosen
    BY <1>6 DEF PushQueued, InHand
  <2>2. /\ Value(s) \in Values /\ Value(s)[1] = s
        /\ \A x \in Range(out) : Ordered(x, Value(s))
        /\ \A x \in Range(q) : Ordered(x, Value(s))
        /\ reply \in Values => Ordered(reply, Value(s))
    BY <1>2, <2>1, InHandIsLast
  <2>3. Range(q') = Range(q) \cup {Value(s)}
    BY <1>2, <2>1, <2>2, RangeAppend DEF TypeOK
  <2>4. Increasing(q')
    BY <1>2, <2>1, <2>2, IncreasingAppend DEF TypeOK, PlaceInv
  <2>5. \A t \in Sources, k \in 1..Items :
          k \in Handed(t)' <=> k \in Handed(t) \/ <<t, k>> = Value(s)
    BY <1>2, <2>1, HandedGrows
  <2>6. \A t \in Sources, k \in 1..Items :
          (k \in Handed(t) <=> <<t, k>> \in Range(out) \/ reply = <<t, k>> \/ <<t, k>> \in Range(q))'
    BY <1>2, <2>1, <2>3, <2>5 DEF PlaceInv
  <2>7. \A t \in Sources : t # s => driver'[t] = driver[t]
    BY <1>2, <2>1 DEF TypeOK
  <2>8. driver'[s] = "pulling"
    BY <1>2, <2>1 DEF TypeOK
  <2>9. (\A t \in Sources : driver[t] = "sending" /\ chosen[t] = "live" =>
           \A y \in Range(q) : y[1] # t)'
    BY <1>2, <2>1, <2>2, <2>3, <2>7, <2>8 DEF PlaceInv
  <2>10. /\ (\A x \in Range(out), y \in Range(q) : Ordered(x, y))'
         /\ (reply \in Values => \A x \in Range(out) : Ordered(x, reply))'
         /\ (reply \in Values => \A y \in Range(q) : Ordered(reply, y))'
    BY <1>2, <2>1, <2>2, <2>3 DEF PlaceInv, Values
  <2>11. Increasing(out)'
    BY <1>2, <2>1 DEF PlaceInv
  <2> QED
    BY <2>4, <2>6, <2>9, <2>10, <2>11 DEF PlaceInv
<1>7. ASSUME NEW s \in Sources, PushChooses(s) PROVE PlaceInv'
  <2>1. /\ driver[s] = "pushing" /\ driver' = [driver EXCEPT ![s] = "sending"]
        /\ q' = q /\ out' = out /\ reply' = reply /\ yielded' = yielded
    BY <1>7 DEF PushChooses
  <2>2. q = <<>>
    BY <1>2, <1>7, PushTakesTheLast DEF WaiterInv
  <2>3. \A t \in Sources : Handed(t)' = Handed(t)
    BY <1>2, <2>1 DEF Handed, TypeOK
  <2>4. Range(q') = {}
    BY <2>1, <2>2, RangeEmpty
  <2> QED
    BY <1>2, <2>1, <2>3, <2>4 DEF PlaceInv, Increasing, Values
<1>8. ASSUME NEW s \in Sources, PushSends(s) PROVE PlaceInv'
  <2>1. InHand(s) /\ q' = q /\ out' = out /\ yielded' = yielded /\ driver[s] = "sending"
        /\ chosen' = [chosen EXCEPT ![s] = None]
    BY <1>8 DEF PushSends, InHand
  <2>2. \A t \in Sources : chosen'[t] = "live" => chosen[t] = "live" /\ t # s
    BY <1>2, <2>1, MergeAssumption DEF TypeOK, Waiter
  <2>3. CASE chosen[s] = "live"
    <3>1. reply' = Value(s) /\ driver' = [driver EXCEPT ![s] = "pulling"]
      BY <1>8, <2>3 DEF PushSends
    <3>2. reply = None
      BY <1>2, <2>3 DEF WaiterInv
    <3>3. /\ Value(s) \in Values /\ Value(s)[1] = s
          /\ \A x \in Range(out) : Ordered(x, Value(s))
      BY <1>2, <2>1, InHandIsLast
    <3>4. \A y \in Range(q) : y[1] # s
      BY <1>2, <2>1, <2>3 DEF PlaceInv
    <3>5. \A t \in Sources, k \in 1..Items :
            k \in Handed(t)' <=> k \in Handed(t) \/ <<t, k>> = Value(s)
      BY <1>2, <2>1, <3>1, HandedGrows
    <3>6. \A t \in Sources, k \in 1..Items : reply # <<t, k>>
      BY <1>3, <1>4, <3>2
    <3>7. \A t \in Sources, k \in 1..Items :
            (k \in Handed(t) <=> <<t, k>> \in Range(out) \/ reply = <<t, k>> \/ <<t, k>> \in Range(q))'
      BY <1>2, <2>1, <3>1, <3>5, <3>6 DEF PlaceInv
    <3>8. (\A t \in Sources : driver[t] = "sending" /\ chosen[t] = "live" =>
             \A y \in Range(q) : y[1] # t)'
      <4>1. \A t \in Sources : chosen'[t] # "live"
        BY <1>2, <2>2, <2>3 DEF WaiterInv
      <4> QED
        BY <4>1
    <3>9. /\ (\A x \in Range(out), y \in Range(q) : Ordered(x, y))'
          /\ (reply \in Values => \A x \in Range(out) : Ordered(x, reply))'
          /\ (reply \in Values => \A y \in Range(q) : Ordered(reply, y))'
      BY <1>2, <2>1, <3>1, <3>3, <3>4 DEF PlaceInv, Ordered
    <3>10. Increasing(out)' /\ Increasing(q)'
      BY <1>2, <2>1 DEF PlaceInv
    <3> QED
      BY <3>7, <3>8, <3>9, <3>10 DEF PlaceInv
  <2>4. CASE chosen[s] # "live"
    <3>1. reply' = reply /\ driver' = [driver EXCEPT ![s] = "pushing"]
      BY <1>8, <2>4 DEF PushSends
    <3>2. \A t \in Sources : Handed(t)' = Handed(t)
      BY <1>2, <2>1, <3>1 DEF Handed, TypeOK
    <3>3. \A t \in Sources : driver'[t] = "sending" => driver[t] = "sending"
      BY <1>2, <3>1 DEF TypeOK
    <3> QED
      BY <1>2, <2>1, <2>2, <3>1, <3>2, <3>3, PlaceKept
  <2> QED
    BY <2>3, <2>4
<1>9. ASSUME NEW s \in Sources, OneDone(s) PROVE PlaceInv'
  <2>1. /\ driver[s] = "ending" /\ driver' = [driver EXCEPT ![s] = "waking"] /\ TakeOldest(s)
        /\ q' = q /\ out' = out /\ reply' = reply /\ yielded' = yielded
    BY <1>1, <1>9 DEF OneDone
  <2>2. \A t \in Sources : Handed(t)' = Handed(t)
    BY <1>2, <2>1 DEF Handed, TypeOK
  <2>3. \A t \in Sources : driver'[t] = "sending" => driver[t] = "sending" /\ t # s
    BY <1>2, <2>1 DEF TypeOK
  <2>4. \A t \in Sources : t # s => chosen'[t] = chosen[t]
    BY <1>2, <2>1 DEF TakeOldest, TypeOK
  <2> QED
    BY <1>2, <2>1, <2>2, <2>3, <2>4, PlaceKept
<1>10. ASSUME NEW s \in Sources, Wake(s) PROVE PlaceInv'
  <2>1. /\ driver[s] = "waking" /\ driver' = [driver EXCEPT ![s] = "done"]
        /\ chosen' = [chosen EXCEPT ![s] = None]
        /\ q' = q /\ out' = out /\ yielded' = yielded
        /\ reply' = IF chosen[s] = "live" THEN WakeUp ELSE reply
    BY <1>10 DEF Wake
  <2>2. \A t \in Sources : Handed(t)' = Handed(t)
    BY <1>2, <2>1 DEF Handed, TypeOK
  <2>3. \A t \in Sources : driver'[t] = "sending" => driver[t] = "sending" /\ t # s
    BY <1>2, <2>1 DEF TypeOK
  <2>4. \A t \in Sources : t # s => chosen'[t] = chosen[t]
    BY <1>2, <2>1 DEF TypeOK
  <2>5. reply' = reply \/ (reply \notin Values /\ reply' \notin Values)
    BY <1>2, <1>4, <2>1 DEF WaiterInv
  <2> QED
    BY <1>2, <2>1, <2>2, <2>3, <2>4, <2>5, PlaceKept
<1>11. ASSUME PopEnd \/ PopLooks \/ PopParks PROVE PlaceInv'
  <2>1. /\ q' = q /\ out' = out /\ reply' = reply
        /\ driver' = driver /\ yielded' = yielded /\ chosen' = chosen
    BY <1>11 DEF PopEnd, PopLooks, PopParks
  <2>2. \A t \in Sources : Handed(t)' = Handed(t)
    BY <2>1 DEF Handed
  <2> QED
    BY <1>2, <2>1, <2>2, PlaceKept
<1>12. ASSUME PopValue PROVE PlaceInv'
  <2>1. /\ q # <<>> /\ q' = Tail(q) /\ out' = Append(out, Head(q)) /\ reply' = reply
        /\ driver' = driver /\ yielded' = yielded /\ chosen' = chosen
        /\ consumer # "parked"
    BY <1>12 DEF PopValue, Looks
  <2>2. reply = None
    BY <1>2, <2>1 DEF WaiterInv
  <2>3. /\ Head(q) \in Values /\ Range(q) = {Head(q)} \cup Range(q')
    BY <1>2, <2>1, RangeTail DEF TypeOK
  <2>4. Range(out') = Range(out) \cup {Head(q)}
    BY <1>2, <2>1, <2>3, RangeAppend DEF TypeOK
  <2>5. Increasing(q') /\ \A y \in Range(q') : Ordered(Head(q), y)
    BY <1>2, <2>1, IncreasingTail DEF TypeOK, PlaceInv
  <2>6. Increasing(out')
    <3>1. out \in Seq(Values) /\ Increasing(out) /\ \A x \in Range(out) : Ordered(x, Head(q))
      BY <1>2, <2>3 DEF TypeOK, PlaceInv
    <3> QED
      BY <2>1, <2>3, <3>1, IncreasingAppend
  <2>7. \A t \in Sources : Handed(t)' = Handed(t)
    BY <2>1 DEF Handed
  <2>8. \A t \in Sources, k \in 1..Items :
          (k \in Handed(t) <=> <<t, k>> \in Range(out) \/ reply = <<t, k>> \/ <<t, k>> \in Range(q))'
    <3>1. ASSUME NEW t \in Sources, NEW k \in 1..Items
          PROVE  <<t, k>> \in Range(out') \/ <<t, k>> \in Range(q')
                   <=> <<t, k>> \in Range(out) \/ <<t, k>> \in Range(q)
      BY <2>3, <2>4
    <3>2. \A t \in Sources, k \in 1..Items :
            k \in Handed(t) <=> <<t, k>> \in Range(out) \/ reply = <<t, k>> \/ <<t, k>> \in Range(q)
      BY <1>2 DEF PlaceInv
    <3> QED
      BY <2>1, <2>7, <3>1, <3>2
  <2>9. (\A x \in Range(out), y \in Range(q) : Ordered(x, y))'
    BY <1>2, <2>3, <2>4, <2>5 DEF PlaceInv
  <2>10. (\A s \in Sources : driver[s] = "sending" /\ chosen[s] = "live" =>
            \A y \in Range(q) : y[1] # s)'
    BY <1>2, <2>1, <2>3 DEF PlaceInv
  <2>11. reply' \notin Values
    BY <1>4, <2>1, <2>2
  <2>12. (reply \notin Values)'
    BY <2>11 DEF Values
  <2> QED
    BY <2>5, <2>6, <2>8, <2>9, <2>10, <2>12 DEF PlaceInv
<1>13. ASSUME PopResumes PROVE PlaceInv'
  <2>1. /\ q' = q /\ out' = (IF reply \in Values THEN Append(out, reply) ELSE out) /\ reply' = None
        /\ driver' = driver /\ yielded' = yielded /\ chosen' = chosen
    BY <1>13 DEF PopResumes
  <2>2. \A t \in Sources : Handed(t)' = Handed(t)
    BY <2>1 DEF Handed
  <2>3. CASE reply \notin Values
    BY <1>2, <1>4, <2>1, <2>2, <2>3, PlaceKept
  <2>4. CASE reply \in Values
    <3>1. out' = Append(out, reply)
      BY <2>1, <2>4
    <3>2. Range(out') = Range(out) \cup {reply}
      BY <1>2, <2>4, <3>1, RangeAppend DEF TypeOK
    <3>3. Increasing(out')
      <4>1. out \in Seq(Values) /\ Increasing(out) /\ \A x \in Range(out) : Ordered(x, reply)
        BY <1>2, <2>4 DEF TypeOK, PlaceInv
      <4> QED
        BY <2>4, <3>1, <4>1, IncreasingAppend
    <3>4. \A t \in Sources, k \in 1..Items : reply' # <<t, k>>
      BY <1>3, <1>4, <2>1
    <3>5. \A t \in Sources, k \in 1..Items :
            (k \in Handed(t) <=> <<t, k>> \in Range(out) \/ reply = <<t, k>> \/ <<t, k>> \in Range(q))'
      <4>1. Range(q') = Range(q)
        BY <2>1
      <4>2. ASSUME NEW t \in Sources, NEW k \in 1..Items
            PROVE  <<t, k>> \in Range(out') \/ <<t, k>> \in Range(q')
                     <=> <<t, k>> \in Range(out) \/ reply = <<t, k>> \/ <<t, k>> \in Range(q)
        BY <3>2, <4>1
      <4>3. \A t \in Sources, k \in 1..Items :
              k \in Handed(t) <=> <<t, k>> \in Range(out) \/ reply = <<t, k>> \/ <<t, k>> \in Range(q)
        BY <1>2 DEF PlaceInv
      <4> QED
        BY <2>2, <3>4, <4>2, <4>3
    <3>6. (\A x \in Range(out), y \in Range(q) : Ordered(x, y))'
      BY <1>2, <2>1, <2>4, <3>2 DEF PlaceInv
    <3>7. /\ (\A s \in Sources : driver[s] = "sending" /\ chosen[s] = "live" =>
                \A y \in Range(q) : y[1] # s)'
          /\ Increasing(q)'
      BY <1>2, <2>1 DEF PlaceInv
    <3>8. (reply \notin Values)'
      BY <1>4, <2>1 DEF Values
    <3> QED
      BY <3>3, <3>5, <3>6, <3>7, <3>8 DEF PlaceInv
  <2> QED
    BY <2>3, <2>4
<1>14. ASSUME Abandon PROVE PlaceInv'
  <2>1. /\ q' = q /\ out' = out /\ reply' = reply /\ driver' = driver /\ yielded' = yielded
        /\ chosen' = [s \in Sources |-> IF chosen[s] = "live" THEN "dead" ELSE chosen[s]]
    BY <1>14 DEF Abandon
  <2>2. \A t \in Sources : Handed(t)' = Handed(t)
    BY <2>1 DEF Handed
  <2>3. \A t \in Sources : chosen'[t] # "live"
    BY <2>1
  <2> QED
    BY <1>2, <2>1, <2>2, <2>3, PlaceKept
<1>15. CASE UNCHANGED vars
  <2>1. /\ q' = q /\ out' = out /\ reply' = reply
        /\ driver' = driver /\ yielded' = yielded /\ chosen' = chosen
    BY <1>15 DEF vars
  <2>2. \A t \in Sources : Handed(t)' = Handed(t)
    BY <2>1 DEF Handed
  <2> QED
    BY <1>2, <2>1, <2>2, PlaceKept
<1>16. ASSUME NEW s \in Sources, PushRefused(s) PROVE FALSE
  BY <1>1, <1>16 DEF PushRefused
<1>17. ASSUME NEW s \in Sources, Fail(s) PROVE FALSE
  <2>1. error' = TRUE
    BY <1>1, <1>17, FailTakes
  <2> QED
    BY <2>1
<1>18. ASSUME PopError PROVE FALSE
  BY <1>1, <1>18 DEF PopError
<1> QED
  BY <1>5, <1>6, <1>7, <1>8, <1>9, <1>10, <1>11, <1>12, <1>13, <1>14, <1>15, <1>16, <1>17,
     <1>18 DEF Next, DriverStep, ConsumerStep

\* The counter follows the drivers, and the end comes after the last value.
LEMMA EndStep ==
  ASSUME IInv, [Next]_vars, ~error'
  PROVE  EndInv'
<1> USE DEF queueVars, driverVars, consumerVars
<1>1. ~error
  BY DEF Next, DriverStep, ConsumerStep, Pull, PushRefused, PushQueued, PushChooses, PushSends,
     OneDone, Fail, Wake, PopError, PopValue, PopEnd, PopLooks, PopParks, PopResumes, Abandon, vars
<1>2. TypeOK /\ DriverInv /\ WaiterInv /\ PlaceInv /\ EndInv
  BY <1>1 DEF IInv
\* A step that ends no source and takes nothing back.
<1>3. ASSUME done' = done, Ended' = Ended,
             \A t \in Sources : driver'[t] \in {"ending", "waking", "done"} => yielded'[t] = Items,
             consumer' = "ended" => consumer = "ended" /\ out' = out
      PROVE  EndInv'
  BY <1>2, <1>3 DEF EndInv
<1>4. ASSUME NEW s \in Sources, Pull(s) PROVE EndInv'
  <2>1. /\ \A t \in Sources : t # s => driver'[t] = driver[t] /\ yielded'[t] = yielded[t]
        /\ driver[s] = "pulling"
        /\ \/ driver'[s] \in {"pushing", "failing"}
           \/ driver'[s] = "ending" /\ yielded'[s] = Items
    BY <1>2, <1>4 DEF Pull, TypeOK
  <2>2. Ended' = Ended
    BY <2>1 DEF Ended
  <2> QED
    BY <1>2, <1>3, <1>4, <2>1, <2>2 DEF Pull, EndInv
<1>5. ASSUME NEW s \in Sources, PushQueued(s) \/ PushChooses(s) \/ PushSends(s) PROVE EndInv'
  <2>1. /\ \A t \in Sources : t # s => driver'[t] = driver[t]
        /\ InHand(s) /\ driver'[s] \in {"pulling", "pushing", "sending"}
        /\ yielded' = yielded /\ done' = done /\ consumer' = consumer /\ out' = out
    BY <1>2, <1>5 DEF PushQueued, PushChooses, PushSends, TypeOK, InHand
  <2>2. Ended' = Ended
    BY <2>1 DEF Ended, InHand
  <2> QED
    BY <1>2, <1>3, <2>1, <2>2 DEF EndInv
<1>6. ASSUME NEW s \in Sources, OneDone(s) PROVE EndInv'
  <2>1. /\ driver[s] = "ending" /\ driver' = [driver EXCEPT ![s] = "waking"]
        /\ done' = done + 1 /\ yielded' = yielded /\ consumer' = consumer /\ out' = out
    BY <1>1, <1>6 DEF OneDone
  <2>2. done' = Cardinality(Ended)'
    BY <1>2, <2>1, OneMoreEnds DEF EndInv
  <2>3. \A t \in Sources : driver'[t] \in {"ending", "waking", "done"} => yielded'[t] = Items
    BY <1>2, <2>1 DEF EndInv, TypeOK
  <2> QED
    BY <1>2, <2>1, <2>2, <2>3 DEF EndInv
<1>7. ASSUME NEW s \in Sources, Wake(s) PROVE EndInv'
  <2>1. /\ driver[s] = "waking" /\ driver' = [driver EXCEPT ![s] = "done"]
        /\ done' = done /\ yielded' = yielded /\ consumer' = consumer /\ out' = out
    BY <1>7 DEF Wake
  <2>2. Ended' = Ended
    BY <1>2, <2>1 DEF Ended, TypeOK
  <2>3. \A t \in Sources : driver'[t] \in {"ending", "waking", "done"} => yielded'[t] = Items
    BY <1>2, <2>1 DEF EndInv, TypeOK
  <2> QED
    BY <1>3, <2>1, <2>2, <2>3
<1>8. ASSUME PopValue \/ PopLooks \/ PopParks \/ Abandon PROVE EndInv'
  <2>1. /\ driver' = driver /\ done' = done /\ yielded' = yielded /\ consumer' # "ended"
    BY <1>8 DEF PopValue, PopLooks, PopParks, Abandon
  <2>2. Ended' = Ended
    BY <2>1 DEF Ended
  <2> QED
    BY <1>2, <1>3, <2>1, <2>2 DEF EndInv
<1>9. ASSUME PopResumes PROVE EndInv'
  <2>1. driver' = driver /\ done' = done /\ yielded' = yielded
    BY <1>9 DEF PopResumes
  <2>2. consumer' # "ended"
    BY <1>1, <1>2, <1>9 DEF PopResumes, WaiterInv
  <2>3. Ended' = Ended
    BY <2>1 DEF Ended
  <2> QED
    BY <1>2, <1>3, <2>1, <2>2, <2>3 DEF EndInv
<1>10. ASSUME PopEnd PROVE EndInv'
  <2>1. /\ driver' = driver /\ done' = done /\ yielded' = yielded /\ out' = out
        /\ q = <<>> /\ done = Total /\ consumer # "parked"
    BY <1>10 DEF PopEnd, Looks
  <2>2. Ended' = Ended /\ Ended = Sources
    BY <1>2, <2>1, EndedAreCounted DEF Ended, EndInv
  <2>3. reply = None /\ None \notin Values /\ Range(q) = {}
    BY <1>2, <2>1, RangeEmpty, MergeAssumption DEF WaiterInv
  <2>4. ASSUME NEW s \in Sources, NEW k \in 1..Items PROVE <<s, k>> \in Range(out)
    <3>1. driver[s] \in {"waking", "done"}
      BY <2>2 DEF Ended
    <3>2. Handed(s) = 1..Items
      BY <1>2, <3>1 DEF EndInv, Handed
    <3>3. <<s, k>> \in Values
      BY DEF Values
    <3> QED
      BY <1>2, <2>3, <3>2, <3>3 DEF PlaceInv
  <2> QED
    BY <1>2, <2>1, <2>2, <2>4 DEF EndInv
<1>11. CASE UNCHANGED vars
  <2>1. /\ driver' = driver /\ done' = done /\ yielded' = yielded /\ out' = out
        /\ consumer' = consumer
    BY <1>11 DEF vars
  <2>2. Ended' = Ended
    BY <2>1 DEF Ended
  <2> QED
    BY <1>2, <1>3, <2>1, <2>2 DEF EndInv
<1>12. ASSUME NEW s \in Sources, PushRefused(s) PROVE FALSE
  BY <1>1, <1>12 DEF PushRefused
<1>13. ASSUME NEW s \in Sources, Fail(s) PROVE FALSE
  <2>1. error' = TRUE
    BY <1>1, <1>13, FailTakes
  <2> QED
    BY <2>1
<1>14. ASSUME PopError PROVE FALSE
  BY <1>1, <1>14 DEF PopError
<1> QED
  BY <1>4, <1>5, <1>6, <1>7, <1>8, <1>9, <1>10, <1>11, <1>12, <1>13, <1>14
     DEF Next, DriverStep, ConsumerStep

-----------------------------------------------------------------------------
\* The inductive invariant.
THEOREM MergeInvariant == Spec => []IInv
<1>1. Init => IInv
  <2>1. SUFFICES ASSUME Init PROVE IInv
    OBVIOUS
  <2>2. Items \in Nat /\ MaxAbandons \in Nat /\ Total \in Nat
    BY MergeAssumption, EndedAreCounted
  <2>3. TypeOK
    <3>1. q \in Seq(Values) /\ waiters \in Seq(Waiter) /\ out \in Seq(Values)
      BY <2>1 DEF Init
    <3>2. done \in 0..Total /\ abandons \in 0..MaxAbandons /\ yielded \in [Sources -> 0..Items]
      BY <2>1, <2>2 DEF Init
    <3>3. error \in BOOLEAN
      BY <2>1 DEF Init
    <3> QED
      BY <2>1, <3>1, <3>2, <3>3 DEF Init, TypeOK, DriverPcs
  <2>4. DriverInv
    BY <2>1 DEF Init, DriverInv, InHand
  <2>5. Range(q) = {} /\ Range(out) = {} /\ Range(waiters) = {} /\ Len(waiters) = 0
    BY <2>1, RangeEmpty DEF Init
  <2>6. None # "live" /\ None # Closed /\ None \notin Values
    BY MergeAssumption DEF Waiter
  <2>7. WaiterInv
    BY <2>1, <2>5, <2>6 DEF Init, WaiterInv, HasLive
  <2>8. PlaceInv
    <3>1. \A s \in Sources, k \in 1..Items :
            k \in Handed(s) <=> <<s, k>> \in Range(out) \/ reply = <<s, k>> \/ <<s, k>> \in Range(q)
      <4>1. ASSUME NEW s \in Sources, NEW k \in 1..Items
            PROVE  k \notin Handed(s) /\ reply # <<s, k>>
        BY <2>1, <2>6 DEF Init, Handed, Values
      <4> QED
        BY <2>5, <4>1
    <3>2. Increasing(out) /\ Increasing(q)
      BY <2>1 DEF Init, Increasing
    <3> QED
      BY <2>1, <2>5, <2>6, <3>1, <3>2 DEF Init, PlaceInv
  <2>9. EndInv
    <3>1. Ended = {}
      BY <2>1 DEF Init, Ended
    <3> QED
      BY <2>1, <3>1, FS_EmptySet DEF Init, EndInv
  <2> QED
    BY <2>3, <2>4, <2>7, <2>8, <2>9 DEF IInv
<1>2. IInv /\ [Next]_vars => IInv'
  BY TypeStep, WaiterStep, PlaceStep, EndStep DEF IInv
<1> QED
  BY <1>1, <1>2, PTL DEF Spec

\* The types, and that there is at most one live sender.
THEOREM MergeTypes == Spec => []TypeOK
<1>1. IInv => TypeOK
  BY DEF IInv
<1> QED
  BY <1>1, MergeInvariant, PTL

\* Nobody waits for a value that is queued, and a parked pop is reachable.
THEOREM NoPopIsForgotten == Spec => []ParkedPopIsReachable
<1>1. IInv => ParkedPopIsReachable
  BY LiveIsListed DEF IInv, WaiterInv, ParkedPopIsReachable
<1> QED
  BY <1>1, MergeInvariant, PTL

\* The merged stream ends without an error only when everything has come out.
THEOREM TheEndIsComplete == Spec => []EndMeansComplete
<1>1. IInv => EndMeansComplete
  <2>1. SUFFICES ASSUME IInv, consumer = "ended", ~error, NEW s \in Sources, NEW k \in 1..Items
                 PROVE  Contains(out, <<s, k>>)
    BY DEF EndMeansComplete
  <2>2. <<s, k>> \in Range(out) /\ out \in Seq(Values)
    BY <2>1 DEF IInv, EndInv, TypeOK
  <2> QED
    BY <2>2, SeqRangeByIndex DEF Contains
<1> QED
  BY <1>1, MergeInvariant, PTL

\* No value is lost, duplicated or overtaken by another one of its source.
THEOREM NothingIsLostOrOvertaken == Spec => []EveryValueInItsPlace
<1>1. ASSUME IInv, ~error
      PROVE  /\ Reached \in Seq(Values)
             /\ \A x : x \in Range(Reached) <=>
                  x \in Range(out) \/ (x = reply /\ reply \in Values) \/ x \in Range(q)
             /\ Increasing(Reached)
  <2>1. /\ out \in Seq(Values) /\ q \in Seq(Values) /\ Increasing(out) /\ Increasing(q)
        /\ \A x \in Range(out), y \in Range(q) : Ordered(x, y)
    BY <1>1 DEF IInv, TypeOK, PlaceInv
  <2>2. CASE reply \notin Values
    <3>1. Reached = out \o <<>> \o q /\ out \o <<>> = out
      BY <2>1, <2>2, ConcatEmptySeq DEF Reached
    <3> QED
      BY <2>1, <2>2, <3>1, RangeConcat, IncreasingConcat
  <2>3. CASE reply \in Values
    <3> DEFINE r == <<reply>>
    <3>1. /\ r \in Seq(Values) /\ Len(r) = 1 /\ r[1] = reply
          /\ \A x \in Range(out) : Ordered(x, reply)
          /\ \A y \in Range(q) : Ordered(reply, y)
      BY <1>1, <2>3 DEF IInv, PlaceInv
    <3>2. Reached = (out \o r) \o q
      BY <2>3 DEF Reached
    <3> HIDE DEF r
    <3>3. Increasing(r)
      BY <3>1 DEF Increasing
    <3>4. \A x : x \in Range(r) <=> x = reply
      BY <3>1, SeqRangeByIndex
    <3>5. /\ out \o r \in Seq(Values) /\ Increasing(out \o r)
          /\ \A x : x \in Range(out \o r) <=> x \in Range(out) \/ x = reply
      BY <2>1, <3>1, <3>3, <3>4, RangeConcat, IncreasingConcat
    <3>6. \A x \in Range(out \o r), y \in Range(q) : Ordered(x, y)
      BY <2>1, <3>1, <3>5
    <3>7. Increasing((out \o r) \o q)
      BY <2>1, <3>5, <3>6, IncreasingConcat
    <3>8. /\ (out \o r) \o q \in Seq(Values)
          /\ Range((out \o r) \o q) = Range(out \o r) \cup Range(q)
      <4>1. \A l \in Seq(Values), m \in Seq(Values) :
              l \o m \in Seq(Values) /\ Range(l \o m) = Range(l) \cup Range(m)
        BY RangeConcat
      <4> QED
        BY <2>1, <3>5, <4>1, Zenon
    <3> QED
      BY <2>3, <3>2, <3>5, <3>7, <3>8
  <2> QED
    BY <2>2, <2>3
<1>2. IInv => EveryValueInItsPlace
  <2>1. SUFFICES ASSUME IInv, ~error PROVE
             /\ \A s \in Sources, k \in 1..Items : Contains(Reached, <<s, k>>) <=> k \in Handed(s)
             /\ \A i, j \in 1..Len(Reached) :
                  i < j /\ Reached[i][1] = Reached[j][1] => Reached[i][2] < Reached[j][2]
    BY DEF EveryValueInItsPlace
  <2>2. ASSUME NEW s \in Sources, NEW k \in 1..Items
        PROVE  Contains(Reached, <<s, k>>) <=> k \in Handed(s)
    <3>1. Contains(Reached, <<s, k>>) <=> <<s, k>> \in Range(Reached)
      BY <1>1, <2>1, SeqRangeByIndex DEF Contains
    <3>2. <<s, k>> \in Values
      BY DEF Values
    <3>3. k \in Handed(s) <=> <<s, k>> \in Range(out) \/ reply = <<s, k>> \/ <<s, k>> \in Range(q)
      BY <2>1 DEF IInv, PlaceInv
    <3>4. <<s, k>> \in Range(Reached) <=>
            <<s, k>> \in Range(out) \/ reply = <<s, k>> \/ <<s, k>> \in Range(q)
      BY <1>1, <2>1, <3>2
    <3> QED
      BY <3>1, <3>3, <3>4
  <2>3. \A i, j \in 1..Len(Reached) :
          i < j /\ Reached[i][1] = Reached[j][1] => Reached[i][2] < Reached[j][2]
    BY <1>1, <2>1 DEF Increasing, Ordered
  <2> QED
    BY <2>2, <2>3
<1> QED
  BY <1>2, MergeInvariant, PTL
-----------------------------------------------------------------------------
(* A consumer that destroys no parked pop.                                 *)

\* Nothing in the queue of waiters is dead, so that the oldest waiter, the one
\* the end of a source wakes, is the live one; and as it is taken by the
\* source that ends, nobody is left waiting when the last one has ended.
PatientInv ==
  abandons = 0 =>
    /\ \A i \in 1..Len(waiters) : waiters[i] = "live"
    /\ HasLive => done # Total

\* The queue of a patient consumer holds its one waiter or nothing.
LEMMA PatientQueueIsShort ==
  ASSUME IInv, PatientInv, abandons = 0
  PROVE  /\ Len(waiters) \in Nat /\ Len(waiters) <= 1
         /\ waiters # <<>> => waiters[1] = "live" /\ Tail(waiters) = <<>>
<1>1. waiters \in Seq(Waiter) /\ Len(waiters) \in Nat
  BY DEF IInv, TypeOK
<1>2. \A i \in 1..Len(waiters) : i = Len(waiters)
  BY DEF IInv, WaiterInv, PatientInv
<1>3. Len(waiters) <= 1
  <2>1. SUFFICES ASSUME Len(waiters) > 1 PROVE FALSE
    BY <1>1
  <2>2. 1 \in 1..Len(waiters)
    BY <1>1, <2>1
  <2> QED
    BY <1>2, <2>1, <2>2
<1>4. ASSUME waiters # <<>> PROVE waiters[1] = "live" /\ Tail(waiters) = <<>>
  <2>1. Len(waiters) = 1
    <3>1. Len(waiters) # 0
      BY <1>1, <1>4, EmptySeq
    <3> QED
      BY <1>1, <1>3, <3>1
  <2>2. Tail(waiters) \in Seq(Waiter) /\ Len(Tail(waiters)) = 0
    BY <1>1, <1>4, <2>1, HeadTailProperties
  <2>3. Tail(waiters) = <<>>
    BY <2>2, EmptySeq
  <2>4. waiters[1] = "live"
    BY <1>1, <2>1 DEF PatientInv
  <2> QED
    BY <2>3, <2>4
<1> QED
  BY <1>1, <1>3, <1>4

LEMMA PatientStep ==
  ASSUME IInv, PatientInv, [Next]_vars
  PROVE  PatientInv'
<1> USE DEF queueVars, driverVars, consumerVars
<1>1. TypeOK /\ WaiterInv
  BY DEF IInv
\* Nobody waits afterwards.
<1>2. ASSUME waiters' = <<>> PROVE PatientInv'
  <2>1. Range(waiters') = {} /\ Len(waiters') = 0
    BY <1>2, RangeEmpty
  <2> QED
    BY <2>1 DEF PatientInv, HasLive
\* The queue of waiters and the counter stay what they are.
<1>3. ASSUME waiters' = waiters, done' = done, abandons' = abandons
      PROVE  PatientInv'
  BY <1>3 DEF PatientInv, HasLive
<1>4. ASSUME NEW s \in Sources, PushChooses(s) PROVE PatientInv'
  BY <1>2, <1>4, PushTakesTheLast
<1>5. ASSUME NEW s \in Sources, PushQueued(s) PROVE PatientInv'
  BY <1>2, <1>5 DEF PushQueued
<1>6. ASSUME NEW s \in Sources, OneDone(s) PROVE PatientInv'
  <2>1. CASE error
    BY <1>3, <1>6, <2>1 DEF OneDone
  <2>2. CASE ~error /\ abandons = 0
    <3>1. waiters' = IF waiters = <<>> THEN <<>> ELSE Tail(waiters)
      BY <1>6, <2>2 DEF OneDone
    <3>2. waiters' = <<>>
      BY <2>2, <3>1, PatientQueueIsShort
    <3> QED
      BY <1>2, <3>2
  <2>3. CASE abandons # 0
    BY <1>6, <2>3 DEF OneDone, PatientInv
  <2> QED
    BY <2>1, <2>2, <2>3
<1>7. ASSUME NEW s \in Sources, Fail(s) PROVE PatientInv'
  <2>1. abandons' = abandons
    BY <1>7 DEF Fail
  <2>2. CASE error
    BY <1>3, <1>7, <2>1, <2>2, FailTakes
  <2>3. CASE ~error
    BY <1>2, <1>7, <2>3, FailTakes
  <2> QED
    BY <2>2, <2>3
<1>8. ASSUME PopParks PROVE PatientInv'
  <2>1. /\ waiters \in Seq(Waiter) /\ waiters' = Append(waiters, "live")
        /\ done' = done /\ abandons' = abandons /\ done # Total
    BY <1>1, <1>8 DEF PopParks, TypeOK
  <2>2. /\ Len(waiters') = Len(waiters) + 1 /\ Len(waiters) \in Nat
        /\ \A i \in 1..Len(waiters) : waiters'[i] = waiters[i]
        /\ waiters'[Len(waiters) + 1] = "live"
    BY <2>1
  <2>3. ASSUME abandons = 0, NEW i \in 1..Len(waiters') PROVE waiters'[i] = "live"
    BY <2>2, <2>3 DEF PatientInv
  <2> QED
    BY <2>1, <2>3 DEF PatientInv
<1>9. ASSUME Abandon PROVE PatientInv'
  <2>1. abandons' = abandons + 1 /\ abandons \in Nat
    BY <1>1, <1>9, MergeAssumption DEF Abandon, TypeOK
  <2> QED
    BY <2>1 DEF PatientInv
<1>10. ASSUME NEW s \in Sources, Pull(s) \/ PushRefused(s) \/ PushSends(s) \/ Wake(s)
       PROVE  PatientInv'
  BY <1>3, <1>10 DEF Pull, PushRefused, PushSends, Wake
<1>11. ASSUME PopError \/ PopValue \/ PopEnd \/ PopLooks \/ PopResumes PROVE PatientInv'
  BY <1>3, <1>11 DEF PopError, PopValue, PopEnd, PopLooks, PopResumes
<1>12. CASE UNCHANGED vars
  BY <1>3, <1>12 DEF vars
<1> QED
  BY <1>4, <1>5, <1>6, <1>7, <1>8, <1>9, <1>10, <1>11, <1>12 DEF Next, DriverStep, ConsumerStep

\* The merged stream of a consumer that has destroyed no parked pop does not
\* hang: when every source has ended, the pop that was parked has its answer,
\* a value, the wake-up of the last one_done or the end after an error.
THEOREM PatientConsumersAreWoken == Spec => [](abandons = 0 => EndsWhenEverySourceHasEnded)
<1>1. Init => PatientInv
  <2>1. SUFFICES ASSUME Init PROVE PatientInv
    OBVIOUS
  <2>2. Len(waiters) = 0 /\ Range(waiters) = {}
    BY <2>1, RangeEmpty DEF Init
  <2> QED
    BY <2>2 DEF PatientInv, HasLive
<1>2. IInv /\ PatientInv => (abandons = 0 => EndsWhenEverySourceHasEnded)
  <2>1. SUFFICES ASSUME IInv, PatientInv, abandons = 0, \A s \in Sources : driver[s] = "done",
                        consumer = "parked", reply = None
                 PROVE  FALSE
    BY DEF EndsWhenEverySourceHasEnded
  <2>2. \A s \in Sources : chosen[s] = None
    BY <2>1 DEF IInv, DriverInv
  <2>3. None # "live"
    BY MergeAssumption DEF Waiter
  <2>4. HasLive /\ ~error
    BY <2>1, <2>2, <2>3 DEF IInv, WaiterInv
  <2>5. Ended = Sources /\ done = Cardinality(Ended)
    BY <2>1, <2>4 DEF Ended, IInv, EndInv
  <2> QED
    BY <2>1, <2>4, <2>5 DEF PatientInv, Total
<1> QED
  BY <1>1, <1>2, PatientStep, MergeInvariant, PTL DEF Spec
=============================================================================
