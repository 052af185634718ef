----------------------------- MODULE MpscProofs -----------------------------
(***************************************************************************)
(* Invariants of Mpsc for any number of operations and any capacity.       *)
(***************************************************************************)
EXTENDS Mpsc, SequencesExt, SequenceTheorems, FiniteSetTheorems, TLAPS

-----------------------------------------------------------------------------
(* Lists without repetition: what push_back, pop_front and unlinking a     *)
(* node do to the set of their elements.                                   *)

\* Unlinking the node at i keeps the other nodes and their order.
LEMMA RemoveAtProperties ==
  ASSUME NEW S, NEW s \in Seq(S), NEW i \in 1..Len(s)
  PROVE  /\ RemoveAt(s, i) \in Seq(S)
         /\ Len(RemoveAt(s, i)) = Len(s) - 1
         /\ \A j \in 1..(Len(s) - 1) :
              RemoveAt(s, i)[j] = IF j < i THEN s[j] ELSE s[j + 1]
<1> DEFINE a == SubSeq(s, 1, i - 1)
           b == SubSeq(s, i + 1, Len(s))
<1>1. /\ a \in Seq(S)
      /\ Len(a) = i - 1
      /\ \A j \in 1..(i - 1) : a[j] = s[j]
  <2>1. \A j \in 1..(i - 1) : s[j] \in S
    OBVIOUS
  <2> QED BY <2>1, SubSeqProperties
<1>2. /\ b \in Seq(S)
      /\ Len(b) = Len(s) - i
      /\ \A j \in 1..(Len(s) - i) : b[j] = s[j + i]
  <2>1. \A j \in (i + 1)..Len(s) : s[j] \in S
    OBVIOUS
  <2> QED BY <2>1, SubSeqProperties
<1>3. RemoveAt(s, i) = a \o b
  BY DEF RemoveAt
<1> HIDE DEF a, b
<1>4. /\ a \o b \in Seq(S)
      /\ Len(a \o b) = Len(s) - 1
      /\ \A j \in 1..(Len(s) - 1) : (a \o b)[j] = IF j <= i - 1 THEN a[j] ELSE b[j - (i - 1)]
  <2>1. /\ a \in Seq(S) /\ b \in Seq(S)
        /\ Len(a) = i - 1 /\ Len(b) = Len(s) - i
    BY <1>1, <1>2
  <2>2. /\ a \o b \in Seq(S)
        /\ Len(a \o b) = Len(a) + Len(b)
        /\ \A j \in 1..(Len(a) + Len(b)) :
             (a \o b)[j] = IF j <= Len(a) THEN a[j] ELSE b[j - Len(a)]
    BY <2>1, ConcatProperties, Zenon
  <2>3. Len(s) \in Nat /\ (i - 1) + (Len(s) - i) = Len(s) - 1
    BY LenProperties
  <2> QED BY <2>1, <2>2, <2>3
<1>5. ASSUME NEW j \in 1..(Len(s) - 1)
      PROVE  (a \o b)[j] = IF j < i THEN s[j] ELSE s[j + 1]
  <2>1. CASE j < i
    BY <2>1, <1>1, <1>4
  <2>2. CASE ~(j < i)
    <3>1. b[j - (i - 1)] = s[j - (i - 1) + i]
      BY <2>2, <1>2
    <3> QED BY <3>1, <2>2, <1>4
  <2> QED BY <2>1, <2>2
<1> QED
  BY <1>3, <1>4, <1>5

\* Range of a sequence, by index.
LEMMA SeqRangeByIndex ==
  ASSUME NEW S, NEW s \in Seq(S), NEW x
  PROVE  x \in Range(s) <=> \E i \in 1..Len(s) : s[i] = x
<1>1. DOMAIN s = 1..Len(s) /\ s \in [1..Len(s) -> S]
  BY LenProperties
<1> QED BY <1>1 DEF Range

\* Sequences without repetition, as an intrusive list is.
Distinct(s) == \A i, j \in 1..Len(s) : s[i] = s[j] => i = j

\* push_back of a new element onto a list without repetitions.
LEMMA AppendDistinct ==
  ASSUME NEW S, NEW s \in Seq(S), Distinct(s), NEW e \in S, e \notin Range(s)
  PROVE  Distinct(Append(s, e)) /\ Range(Append(s, e)) = Range(s) \cup {e}
<1> DEFINE t == Append(s, e)
<1>1. /\ t \in Seq(S) /\ Len(t) = Len(s) + 1 /\ Len(s) \in Nat
      /\ \A i \in 1..Len(s) : t[i] = s[i]
      /\ t[Len(s) + 1] = e
  OBVIOUS
<1> HIDE DEF t
<1>2. \A i \in 1..Len(s) : s[i] # e
  BY SeqRangeByIndex
<1>3. \A i \in 1..(Len(s) + 1) : i \in 1..Len(s) \/ i = Len(s) + 1
  BY <1>1
<1>4. Distinct(t)
  BY <1>1, <1>2, <1>3 DEF Distinct
<1>5. ASSUME NEW x PROVE x \in Range(t) <=> x \in Range(s) \cup {e}
  <2>1. /\ x \in Range(t) <=> \E i \in 1..Len(t) : t[i] = x
        /\ x \in Range(s) <=> \E i \in 1..Len(s) : s[i] = x
    BY <1>1, SeqRangeByIndex
  <2>2. CASE x = e
    BY <1>1, <2>1, <2>2
  <2>3. CASE x # e
    BY <1>1, <1>3, <2>1, <2>3
  <2> QED BY <2>2, <2>3
<1> QED BY <1>4, <1>5 DEF t

\* t is s without its i-th element.
IsDrop(s, i, t) ==
  /\ Len(t) = Len(s) - 1
  /\ \A j \in 1..(Len(s) - 1) : t[j] = IF j < i THEN s[j] ELSE s[j + 1]

\* Taking out the i-th element of a sequence without repetition.
LEMMA DropDistinct ==
  ASSUME NEW S, NEW s \in Seq(S), Distinct(s), NEW i \in 1..Len(s),
         NEW t \in Seq(S), IsDrop(s, i, t)
  PROVE  Distinct(t) /\ Range(t) = Range(s) \ {s[i]}
<1> DEFINE n == Len(s)
           up(j) == IF j < i THEN j ELSE j + 1
<1>1. n \in Nat /\ i \in Int /\ i <= n
  BY LenProperties
<1> HIDE DEF n
<1>2. \A j \in 1..(n - 1) : up(j) \in 1..n /\ up(j) # i /\ t[j] = s[up(j)]
  BY <1>1 DEF n, IsDrop
<1>3. \A j, k \in 1..(n - 1) : up(j) = up(k) => j = k
  BY <1>1
<1>4. Distinct(t)
  <2>1. ASSUME NEW j \in 1..(n - 1), NEW k \in 1..(n - 1), t[j] = t[k]
        PROVE  j = k
    <3>1. s[up(j)] = s[up(k)] /\ up(j) \in 1..n /\ up(k) \in 1..n
      BY <1>2, <2>1
    <3>2. up(j) = up(k)
      BY <3>1 DEF Distinct, n
    <3> QED BY <1>3, <3>2
  <2>2. Len(t) = n - 1
    BY DEF IsDrop, n
  <2> QED BY <2>1, <2>2 DEF Distinct
<1>5. \A k \in 1..n : k # i => \E j \in 1..(n - 1) : up(j) = k
  <2>1. ASSUME NEW k \in 1..n, k # i
        PROVE  \E j \in 1..(n - 1) : up(j) = k
    <3>1. CASE k < i
      <4>1. k \in 1..(n - 1) /\ up(k) = k
        BY <1>1, <3>1
      <4> QED BY <4>1
    <3>2. CASE ~(k < i)
      <4>1. k - 1 \in 1..(n - 1) /\ up(k - 1) = k
        BY <1>1, <2>1, <3>2
      <4> QED BY <4>1
    <3> QED BY <3>1, <3>2
  <2> QED BY <2>1
<1>6. ASSUME NEW x PROVE x \in Range(t) <=> x \in Range(s) \ {s[i]}
  <2>1. /\ x \in Range(t) <=> \E j \in 1..(n - 1) : t[j] = x
        /\ x \in Range(s) <=> \E j \in 1..n : s[j] = x
    BY SeqRangeByIndex DEF IsDrop, n
  <2>2. ASSUME x \in Range(t) PROVE x \in Range(s) \ {s[i]}
    <3>1. PICK j \in 1..(n - 1) : t[j] = x
      BY <2>1, <2>2
    <3>2. up(j) \in 1..n /\ up(j) # i /\ s[up(j)] = x
      BY <1>2, <3>1
    <3> QED BY <1>1, <2>1, <3>2 DEF Distinct, n
  <2>3. ASSUME x \in Range(s), x # s[i] PROVE x \in Range(t)
    <3>1. PICK k \in 1..n : s[k] = x
      BY <2>1, <2>3
    <3>2. k # i
      BY <2>3, <3>1
    <3>3. PICK j \in 1..(n - 1) : up(j) = k
      BY <1>5, <3>2
    <3> QED BY <1>2, <2>1, <3>1, <3>3
  <2> QED BY <2>2, <2>3
<1> QED BY <1>4, <1>6

\* Taking one waiter out of a list without repetitions .
LEMMA RemoveAtDistinct ==
  ASSUME NEW S, NEW s \in Seq(S), Distinct(s), NEW i \in 1..Len(s)
  PROVE  /\ Distinct(RemoveAt(s, i))
         /\ Range(RemoveAt(s, i)) = Range(s) \ {s[i]}
<1> DEFINE t == RemoveAt(s, i)
<1>1. t \in Seq(S) /\ IsDrop(s, i, t)
  BY RemoveAtProperties DEF IsDrop
<1> HIDE DEF t
<1>2. Distinct(t) /\ Range(t) = Range(s) \ {s[i]}
  BY <1>1, DropDistinct
<1> QED BY <1>2 DEF t

\* pop_front of a list without repetitions.
LEMMA TailDistinct ==
  ASSUME NEW S, NEW s \in Seq(S), Distinct(s), s # <<>>
  PROVE  /\ Distinct(Tail(s))
         /\ Range(Tail(s)) = Range(s) \ {Head(s)}
<1> DEFINE t == Tail(s)
<1>1. /\ t \in Seq(S) /\ Len(t) = Len(s) - 1
      /\ \A j \in 1..Len(t) : t[j] = s[j + 1]
      /\ Len(s) \in Nat \ {0} /\ Head(s) = s[1]
  BY HeadTailProperties, EmptySeq
<1>2. IsDrop(s, 1, t)
  BY <1>1 DEF IsDrop
<1> HIDE DEF t
<1>3. Distinct(t) /\ Range(t) = Range(s) \ {s[1]}
  <2>1. 1 \in 1..Len(s)
    BY <1>1
  <2> QED BY <1>1, <1>2, <2>1, DropDistinct
<1> QED BY <1>1, <1>3 DEF t

-----------------------------------------------------------------------------

\* An operation that has not arbitrated is in its initial stage: it is in
\* neither the wait list nor the slot.
NotBegunIsInit == \A op \in Ops : op \notin began => stage[op] = "init"

\* The inductive invariant of the state that State::mu guards.
MutexInv ==
  /\ TypeOK
  /\ ParkedReceiveHasNothing
  /\ ParkedSendsFindItFull
  /\ CountIsExact
  /\ NotBegunIsInit

-----------------------------------------------------------------------------
(* Types of the completions owed.                                          *)

CallsOK == \A c \in calls : c \in Seq(Completions) /\ c # <<>>

\* What a settled call is owed is a completion, whoever settles it.
LEMMA CompletionTypes ==
  /\ \A s \in Sends, res \in SendResults : Completion(s, res) \in Completions
  /\ \A r \in Recvs, res \in RecvResults : Completion(r, res) \in Completions
BY DEF Completion, Completions

\* Owing a sequence of completions keeps calls well typed.
LEMMA OweKeepsType ==
  ASSUME CallsOK, NEW c \in Seq(Completions), Owe(c)
  PROVE  CallsOK'
BY DEF CallsOK, Owe

-----------------------------------------------------------------------------

\* The channel starts open, empty and unlocked.
LEMMA InitMutexInv == Init => MutexInv
<1> SUFFICES ASSUME Init PROVE MutexInv
  OBVIOUS
<1>1. TypeOK
  <2>1. stage \in [Ops -> Stages] /\ senders \in 0..MaxSenders
    BY MpscAssumption DEF Init, Stages
  <2>2. outcome \in [Ops -> SendResults \cup RecvResults \cup {"none"}]
    BY DEF Init
  <2>3. buffer \in Seq(Sends) /\ parked \in Seq(Sends) /\ taken \in Seq(Sends)
    BY DEF Init
  <2>4. stopreq \in [Ops -> BOOLEAN] /\ began \subseteq Ops
    BY DEF Init
  <2>5. \A c \in calls : c \in Seq(Completions) /\ c # <<>>
    BY DEF Init
  <2> QED BY <2>1, <2>2, <2>3, <2>4, <2>5 DEF Init, TypeOK
<1>2. Range(<<>>) = {}
  BY DEF Range
<1> QED
  BY <1>1, <1>2, MpscAssumption DEF Init, MutexInv, ParkedReceiveHasNothing,
     ParkedSendsFindItFull, CountIsExact, NotBegunIsInit, Ops

-----------------------------------------------------------------------------
(* Type correctness.                                                       *)

\* The part of TypeOK that is not about calls.
StateOK ==
  /\ buffer \in Seq(Sends)
  /\ parked \in Seq(Sends)
  /\ slot \in Recvs \cup {None}
  /\ closed \in BOOLEAN
  /\ count \in Nat
  /\ senders \in 0..MaxSenders
  /\ dropping \in BOOLEAN
  /\ stage \in [Ops -> Stages]
  /\ stopreq \in [Ops -> BOOLEAN]
  /\ began \subseteq Ops
  /\ outcome \in [Ops -> SendResults \cup RecvResults \cup {"none"}]
  /\ taken \in Seq(Sends)

\* The type invariant has a part for the State and a part for the calls.
LEMMA TypeSplit == TypeOK <=> StateOK /\ CallsOK
BY DEF TypeOK, StateOK, CallsOK

\* Every action keeps the types of the channel State.
LEMMA StateStep ==
  ASSUME StateOK, CallsOK, CountIsExact, Next
  PROVE  StateOK'
<1> USE DEF StateOK, mutexVars, handleVars, opVars
<1>1. ASSUME NEW s \in Sends, SendStart(s) PROVE StateOK'
  <2> USE DEF SendStarts
  <2>0. s \in Ops
    BY DEF Ops
  <2>1. CASE SendStopped(s)
    BY <2>0, <2>1 DEF SendStopped
  <2>2. CASE SendClosed(s)
    BY <2>0, <2>2 DEF SendClosed
  <2>3. CASE SendDirect(s)
    <3>1. stage' \in [Ops -> Stages]
      BY <2>3 DEF SendDirect, Stages
    <3> QED BY <2>0, <2>3, <3>1 DEF SendDirect
  <2>4. CASE SendBuffered(s)
    BY <2>0, <2>4 DEF SendBuffered
  <2>5. CASE SendParked(s)
    <3>1. stage' \in [Ops -> Stages]
      BY <2>5 DEF SendParked, Stages
    <3> QED BY <2>0, <2>5, <3>1 DEF SendParked
  <2> QED BY <1>1, <2>1, <2>2, <2>3, <2>4, <2>5 DEF SendStart
<1>2. ASSUME TakeValue, began' \subseteq Ops, UNCHANGED <<handleVars, stopreq, outcome>>
      PROVE  StateOK'
  <2>1. CASE parked = <<>>
    <3>1. buffer # <<>>
      BY <1>2, <2>1 DEF TakeValue, HasValue
    <3>2. taken' \in Seq(Sends) /\ buffer' \in Seq(Sends)
      BY <1>2, <2>1, <3>1, HeadTailProperties DEF TakeValue
    <3>3. count' \in Nat
      <4>1. Bounded => count > 0
        BY <3>1, EmptySeq DEF CountIsExact
      <4> QED BY <1>2, <2>1, <4>1 DEF TakeValue
    <3> QED BY <1>2, <2>1, <3>2, <3>3 DEF TakeValue
  <2>2. CASE parked # <<>>
    <3>1. Head(parked) \in Sends /\ Tail(parked) \in Seq(Sends)
      BY <2>2, HeadTailProperties
    <3>2. stage' \in [Ops -> Stages]
      BY <1>2, <2>2 DEF TakeValue, Stages
    <3>3. taken' \in Seq(Sends) /\ buffer' \in Seq(Sends)
      BY <1>2, <2>2, <3>1, HeadTailProperties DEF TakeValue, Push
    <3> QED BY <1>2, <2>2, <3>1, <3>2, <3>3 DEF TakeValue
  <2> QED BY <2>1, <2>2
<1>3. ASSUME NEW r \in Recvs, RecvStart(r) PROVE StateOK'
  <2> USE DEF RecvStarts
  <2>0. r \in Ops
    BY DEF Ops
  <2>1. CASE RecvStopped(r)
    BY <2>0, <2>1 DEF RecvStopped
  <2>2. CASE RecvValue(r)
    BY <1>2, <2>0, <2>2 DEF RecvValue
  <2>3. CASE RecvClosed(r)
    BY <2>0, <2>3 DEF RecvClosed
  <2>4. CASE RecvViolation(r)
    BY <2>0, <2>4 DEF RecvViolation
  <2>5. CASE RecvParked(r)
    <3>1. stage' \in [Ops -> Stages]
      BY <2>5 DEF RecvParked, Stages
    <3> QED BY <2>0, <2>5, <3>1 DEF RecvParked
  <2> QED BY <1>3, <2>1, <2>2, <2>3, <2>4, <2>5 DEF RecvStart
<1>4. CASE TryRecv
  BY <1>2, <1>4 DEF TryRecv
<1>5. ASSUME NEW op \in Ops, Unlink(op), stage' \in [Ops -> Stages],
             stopreq' \in [Ops -> BOOLEAN]
      PROVE  StateOK'
  <2>1. parked' \in Seq(Sends)
    BY <1>5, RemoveAtProperties DEF Unlink
  <2> QED BY <1>5, <2>1 DEF Unlink
<1>6. ASSUME NEW op \in Ops, StopParked(op) \/ StopEarly(op) \/ Destroy(op)
      PROVE  StateOK'
  <2>1. CASE StopParked(op)
    <3>1. stage' \in [Ops -> Stages]
      BY <2>1 DEF StopParked, Stages
    <3> QED BY <1>5, <2>1, <3>1 DEF StopParked
  <2>2. CASE StopEarly(op)
    BY <2>2 DEF StopEarly
  <2>3. CASE Destroy(op)
    <3>1. stage' \in [Ops -> Stages]
      BY <2>3 DEF Destroy, Stages
    <3> QED BY <1>5, <2>3, <3>1 DEF Destroy
  <2> QED BY <1>6, <2>1, <2>2, <2>3
<1>7. ASSUME CloseState, senders' \in 0..MaxSenders, dropping' \in BOOLEAN
      PROVE  StateOK'
  <2>1. stage' \in [Ops -> Stages]
    BY <1>7 DEF CloseState, Stages
  <2> QED BY <1>7, <2>1 DEF CloseState
<1>8. CASE Close
  BY <1>7, <1>8 DEF Close
<1>9. CASE CloneSender
  BY <1>9, MpscAssumption DEF CloneSender
<1>10. CASE DropSender
  BY <1>10, MpscAssumption DEF DropSender
<1>11. CASE DropClose
  BY <1>7, <1>11 DEF DropClose
<1>12. CASE FireNext
  <2>1. PICK c \in calls : Fire(c)
    BY <1>12 DEF FireNext
  <2>2. Head(c) \in Completions
    BY HeadTailProperties DEF CallsOK
  <2>3. Head(c).op \in Ops /\ Head(c).res \in SendResults \cup RecvResults
    BY <2>2 DEF Completions, Ops
  <2>4. outcome' \in [Ops -> SendResults \cup RecvResults \cup {"none"}]
    BY <2>1, <2>3 DEF Fire
  <2> QED BY <2>1, <2>4 DEF Fire
<1> QED
  BY <1>1, <1>3, <1>4, <1>6, <1>8, <1>9, <1>10, <1>11, <1>12 DEF Next

\* Every action keeps the types of the calls.
LEMMA CallsStep ==
  ASSUME StateOK, CallsOK, Next
  PROVE  CallsOK'
<1> USE OweKeepsType, CompletionTypes DEF SendResults, RecvResults
<1>1. ASSUME NEW s \in Sends, SendStart(s) PROVE CallsOK'
  <2>1. /\ <<Completion(s, "stopped")>> \in Seq(Completions)
        /\ <<Completion(s, "rejected")>> \in Seq(Completions)
        /\ <<Completion(s, "accepted")>> \in Seq(Completions)
    OBVIOUS
  <2>2. CASE SendDirect(s)
    <3>1. slot \in Recvs
      BY <2>2 DEF SendDirect, StateOK
    <3>2. <<Completion(slot, "value"), Completion(s, "accepted")>> \in Seq(Completions)
      BY <3>1
    <3> QED BY <2>2, <3>2 DEF SendDirect
  <2>3. CASE SendParked(s)
    BY <2>3 DEF SendParked, CallsOK
  <2> QED BY <1>1, <2>1, <2>2, <2>3 DEF SendStart, SendStopped, SendClosed, SendBuffered
<1>2. ClaimOldest \in Seq(Completions)
  <2>1. CASE parked = <<>>
    BY <2>1 DEF ClaimOldest
  <2>2. CASE parked # <<>>
    <3>1. Head(parked) \in Sends
      BY <2>2, HeadTailProperties DEF StateOK
    <3> QED BY <2>2, <3>1 DEF ClaimOldest
  <2> QED BY <2>1, <2>2
<1>3. ASSUME NEW r \in Recvs, RecvStart(r) PROVE CallsOK'
  <2>1. /\ <<Completion(r, "stopped")>> \in Seq(Completions)
        /\ <<Completion(r, "end")>> \in Seq(Completions)
        /\ <<Completion(r, "violation")>> \in Seq(Completions)
        /\ Completion(r, "value") \in Completions
    OBVIOUS
  <2>2. Append(ClaimOldest, Completion(r, "value")) \in Seq(Completions)
    BY <1>2, <2>1
  <2>3. CASE RecvParked(r)
    BY <2>3 DEF RecvParked, CallsOK
  <2>4. CASE RecvValue(r)
    BY <2>2, <2>4 DEF RecvValue
  <2> QED BY <1>3, <2>1, <2>3, <2>4 DEF RecvStart, RecvStopped, RecvClosed, RecvViolation
<1>4. CASE TryRecv
  BY <1>2, <1>4 DEF TryRecv
<1>5. ASSUME NEW op \in Ops, StopParked(op) \/ StopEarly(op) \/ Destroy(op)
      PROVE  CallsOK'
  <2>1. Completion(op, "stopped") \in Completions
    BY DEF Ops
  <2>2. <<Completion(op, "stopped")>> \in Seq(Completions)
    BY <2>1
  <2> QED BY <1>5, <2>2 DEF StopParked, StopEarly, Destroy, CallsOK
<1>6. ASSUME CloseState PROVE CallsOK'
  <2> DEFINE first == IF slot = None THEN <<>> ELSE <<Completion(slot, "end")>>
             rest == [i \in DOMAIN parked |-> Completion(parked[i], "rejected")]
  <2>1. first \in Seq(Completions)
    BY DEF StateOK
  <2>2. rest \in Seq(Completions)
    <3>1. DOMAIN parked = 1..Len(parked) /\ Len(parked) \in Nat
      BY LenProperties DEF StateOK
    <3>2. \A i \in 1..Len(parked) : Completion(parked[i], "rejected") \in Completions
      BY ElementOfSeq DEF StateOK
    <3> QED BY <3>1, <3>2
  <2>3. first \o rest \in Seq(Completions)
    BY <2>1, <2>2, ConcatProperties
  <2> QED BY <1>6, <2>3 DEF CloseState
<1>7. CASE Close \/ CloneSender \/ DropSender \/ DropClose
  BY <1>6, <1>7 DEF Close, CloneSender, DropSender, DropClose, CallsOK
<1>8. CASE FireNext
  <2>1. PICK c \in calls : Fire(c)
    BY <1>8 DEF FireNext
  <2>2. Tail(c) \in Seq(Completions)
    BY HeadTailProperties DEF CallsOK
  <2> QED BY <2>1, <2>2 DEF Fire, CallsOK
<1> QED
  BY <1>1, <1>3, <1>4, <1>5, <1>7, <1>8 DEF Next

\* Every step keeps the type invariant.
LEMMA TypeStep ==
  ASSUME TypeOK, CountIsExact, [Next]_vars
  PROVE  TypeOK'
<1>1. CASE Next
  <2>1. StateOK' /\ CallsOK'
    BY <1>1, TypeSplit, StateStep, CallsStep
  <2> QED BY <2>1, TypeSplit, PTL
<1>2. CASE UNCHANGED vars
  BY <1>2 DEF TypeOK, vars
<1> QED BY <1>1, <1>2

-----------------------------------------------------------------------------
(* The mutex invariant, without its type part.                             *)

Guarded ==
  /\ ParkedReceiveHasNothing
  /\ ParkedSendsFindItFull
  /\ CountIsExact
  /\ NotBegunIsInit

\* Actions that touch neither the guarded state nor the stages.
LEMMA UnguardedStep ==
  ASSUME Guarded, UNCHANGED <<mutexVars, stage>>, began \subseteq began'
  PROVE  Guarded'
BY DEF Guarded, ParkedReceiveHasNothing, ParkedSendsFindItFull, CountIsExact,
   NotBegunIsInit, mutexVars

\* A send that starts keeps Guarded, whichever way it goes.
LEMMA SendGuarded ==
  ASSUME StateOK, Guarded, NEW s \in Sends, SendStart(s)
  PROVE  Guarded'
<1> USE DEF SendStarts
<1>0. s \in Ops /\ s \notin Recvs /\ stage[s] = "init" /\ s \notin Range(parked)
  BY MpscAssumption DEF Ops, Guarded, NotBegunIsInit, SendStart, SendStopped,
     SendClosed, SendDirect, SendBuffered, SendParked, ParkedSendsFindItFull
<1>1. CASE SendStopped(s) \/ SendClosed(s)
  BY <1>1, UnguardedStep DEF SendStopped, SendClosed
<1>2. CASE SendDirect(s)
  <2>1. slot \in Recvs /\ slot \in Ops /\ slot \notin Sends /\ stage[slot] = "queued"
    BY <1>2, MpscAssumption DEF SendDirect, StateOK, Ops, Guarded, ParkedReceiveHasNothing
  <2>2. stage' = [stage EXCEPT ![slot] = "claimed"] /\ slot' = None
    BY <1>2 DEF SendDirect
  <2>3. ParkedReceiveHasNothing'
    BY <1>2, <2>1, <2>2, MpscAssumption
       DEF SendDirect, StateOK, Guarded, ParkedReceiveHasNothing, Ops
  <2>4. ParkedSendsFindItFull'
    BY <1>2, <2>1, <2>2 DEF SendDirect, StateOK, Guarded, ParkedSendsFindItFull, Ops
  <2>5. CountIsExact'
    BY <1>2 DEF SendDirect, Guarded, CountIsExact
  <2>6. NotBegunIsInit'
    BY <1>2, <2>1, <2>2 DEF SendDirect, StateOK, Guarded, NotBegunIsInit
  <2> QED BY <2>3, <2>4, <2>5, <2>6 DEF Guarded
<1>3. CASE SendBuffered(s)
  <2>1. parked = <<>>
    BY <1>3 DEF SendBuffered, Guarded, ParkedSendsFindItFull
  <2>2. ParkedReceiveHasNothing'
    BY <1>3 DEF SendBuffered, Guarded, ParkedReceiveHasNothing
  <2>3. ParkedSendsFindItFull'
    BY <1>3, <2>1 DEF SendBuffered, Guarded, ParkedSendsFindItFull
  <2>4. CountIsExact'
    BY <1>3, MpscAssumption DEF SendBuffered, StateOK, Guarded, CountIsExact
  <2>5. NotBegunIsInit'
    BY <1>3 DEF SendBuffered, Guarded, NotBegunIsInit
  <2> QED BY <2>2, <2>3, <2>4, <2>5 DEF Guarded
<1>4. CASE SendParked(s)
  <2>1. parked' = Append(parked, s) /\ stage' = [stage EXCEPT ![s] = "queued"]
    BY <1>4 DEF SendParked
  <2>2. Distinct(parked') /\ Range(parked') = Range(parked) \cup {s}
    <3>1. Distinct(parked)
      BY DEF Guarded, ParkedSendsFindItFull, Distinct
    <3> QED BY <1>0, <2>1, <3>1, AppendDistinct DEF StateOK
  <2>5. Len(buffer) = Capacity
    BY <1>4, MpscAssumption DEF SendParked, StateOK, Guarded, CountIsExact
  <2>6. ParkedReceiveHasNothing'
    BY <1>0, <1>4, <2>1, MpscAssumption
       DEF SendParked, StateOK, Guarded, ParkedReceiveHasNothing, Ops
  <2>7. ParkedSendsFindItFull'
    <3>1. \A x \in Sends : stage'[x] = "queued" <=> x \in Range(parked')
      BY <1>0, <2>1, <2>2 DEF StateOK, Guarded, ParkedSendsFindItFull, Ops
    <3> QED BY <1>4, <2>2, <2>5, <3>1 DEF SendParked, ParkedSendsFindItFull, Distinct
  <2>8. CountIsExact' /\ NotBegunIsInit'
    BY <1>4, <2>1 DEF SendParked, StateOK, Guarded, CountIsExact, NotBegunIsInit
  <2> QED BY <2>6, <2>7, <2>8 DEF Guarded
<1> QED
  BY <1>1, <1>2, <1>3, <1>4 DEF SendStart

\* try_take_value keeps Guarded: the front of the buffer goes out, and a parked
\* send may move up.
LEMMA TakeGuarded ==
  ASSUME StateOK, Guarded, TakeValue, began \subseteq began'
  PROVE  Guarded'
<1> USE DEF Guarded
<1>1. slot = None /\ slot' = slot /\ closed' = closed
  BY DEF TakeValue, HasValue, ParkedReceiveHasNothing
<1>2. CASE parked = <<>>
  <2>1. buffer # <<>> /\ parked' = <<>> /\ stage' = stage /\ buffer' = Tail(buffer)
    BY <1>2 DEF TakeValue, HasValue
  <2>2. Len(buffer') = Len(buffer) - 1 /\ Len(buffer) \in Nat \ {0}
    BY <2>1, HeadTailProperties, EmptySeq DEF StateOK
  <2>3. ParkedReceiveHasNothing' /\ ParkedSendsFindItFull' /\ NotBegunIsInit'
    BY <1>1, <1>2, <2>1 DEF ParkedReceiveHasNothing, ParkedSendsFindItFull, NotBegunIsInit
  <2>4. CountIsExact'
    BY <1>2, <2>1, <2>2, MpscAssumption DEF TakeValue, CountIsExact, StateOK
  <2> QED BY <2>3, <2>4
<1>3. CASE parked # <<>>
  <2> DEFINE h == Head(parked)
  <2>1. /\ h \in Sends /\ h \in Range(parked)
        /\ stage' = [stage EXCEPT ![h] = "claimed"] /\ parked' = Tail(parked)
        /\ count' = count
    <3>1. h \in Sends /\ 1 \in 1..Len(parked) /\ h = parked[1]
      BY <1>3, HeadTailProperties, EmptySeq DEF StateOK
    <3>2. h \in Range(parked)
      BY <3>1, SeqRangeByIndex DEF StateOK
    <3> QED BY <1>3, <3>1, <3>2 DEF TakeValue
  <2>2. h \in Ops /\ h \notin Recvs /\ stage[h] = "queued" /\ h \in began
    BY <2>1, MpscAssumption DEF Ops, ParkedSendsFindItFull, NotBegunIsInit
  <2>3. Bounded /\ Len(buffer) = Capacity /\ ~closed
    BY <1>3 DEF ParkedSendsFindItFull
  <2>4. Distinct(parked') /\ Range(parked') = Range(parked) \ {h}
    <3>1. Distinct(parked)
      BY DEF ParkedSendsFindItFull, Distinct
    <3> QED BY <1>3, <2>1, <3>1, TailDistinct DEF StateOK
  <2>5. Len(buffer') = Capacity
    <3>1. CASE buffer = <<>>
      BY <2>3, <3>1 DEF TakeValue
    <3>2. CASE buffer # <<>>
      <4>1. Tail(buffer) \in Seq(Sends) /\ Len(Tail(buffer)) = Capacity - 1
        BY <2>3, <3>2, HeadTailProperties DEF StateOK
      <4>2. buffer' = Append(Tail(buffer), h)
        BY <1>3, <3>2, <4>1, MpscAssumption DEF TakeValue, Push
      <4> QED BY <2>1, <4>1, <4>2, MpscAssumption
    <3> QED BY <3>1, <3>2
  <2> HIDE DEF h
  <2>6. ParkedReceiveHasNothing'
    BY <1>1, <2>1, <2>2, MpscAssumption DEF ParkedReceiveHasNothing, StateOK, Ops
  <2>7. ParkedSendsFindItFull'
    <3>1. \A x \in Sends : stage'[x] = "queued" <=> x \in Range(parked')
      BY <2>1, <2>2, <2>4 DEF StateOK, ParkedSendsFindItFull, Ops
    <3> QED BY <1>1, <2>3, <2>4, <2>5, <3>1 DEF ParkedSendsFindItFull, Distinct
  <2>8. CountIsExact'
    BY <2>1, <2>3, <2>5 DEF CountIsExact
  <2>9. NotBegunIsInit'
    BY <2>1, <2>2 DEF NotBegunIsInit, StateOK
  <2> QED BY <2>6, <2>7, <2>8, <2>9
<1> QED BY <1>2, <1>3

\* A receive that starts keeps Guarded.
LEMMA RecvGuarded ==
  ASSUME StateOK, Guarded, NEW r \in Recvs, RecvStart(r)
  PROVE  Guarded'
<1> USE DEF RecvStarts
<1>1. CASE RecvStopped(r) \/ RecvClosed(r) \/ RecvViolation(r)
  BY <1>1, UnguardedStep DEF RecvStopped, RecvClosed, RecvViolation
<1>2. CASE RecvValue(r)
  BY <1>2, TakeGuarded DEF RecvValue
<1>3. CASE RecvParked(r)
  <2>1. r \in Ops /\ r \notin Sends /\ r # None /\ stage[r] = "init"
    BY <1>3, MpscAssumption DEF RecvParked, Ops, Guarded, NotBegunIsInit
  <2>2. slot = None /\ slot' = r /\ stage' = [stage EXCEPT ![r] = "queued"]
    BY <1>3 DEF RecvParked
  <2>3. ParkedReceiveHasNothing'
    <3>1. \A x \in Recvs : stage'[x] = "queued" <=> slot' = x
      BY <2>1, <2>2, MpscAssumption DEF StateOK, Guarded, ParkedReceiveHasNothing, Ops
    <3> QED BY <1>3, <3>1 DEF RecvParked, HasValue, ParkedReceiveHasNothing
  <2>4. ParkedSendsFindItFull'
    BY <1>3, <2>1, <2>2 DEF RecvParked, StateOK, Guarded, ParkedSendsFindItFull, Ops
  <2>5. CountIsExact' /\ NotBegunIsInit'
    BY <1>3, <2>2 DEF RecvParked, StateOK, Guarded, CountIsExact, NotBegunIsInit
  <2> QED BY <2>3, <2>4, <2>5 DEF Guarded
<1> QED BY <1>1, <1>2, <1>3 DEF RecvStart

\* Taking a parked operation out of the wait list or the slot.
LEMMA UnlinkGuarded ==
  ASSUME StateOK, Guarded, NEW op \in Ops, Unlink(op),
         NEW st \in {"stopped", "gone"}, stage' = [stage EXCEPT ![op] = st]
  PROVE  Guarded'
<1> USE DEF Guarded
<1>1. stage[op] = "queued" /\ op \in began /\ UNCHANGED <<buffer, closed, count, began>>
  BY DEF Unlink, NotBegunIsInit
<1>2. CountIsExact' /\ NotBegunIsInit'
  BY <1>1 DEF CountIsExact, NotBegunIsInit, StateOK
<1>3. CASE op \in Sends
  <2>1. PICK i \in 1..Len(parked) : parked[i] = op /\ parked' = RemoveAt(parked, i)
    BY <1>3 DEF Unlink
  <2>2. Distinct(parked') /\ Range(parked') = Range(parked) \ {op}
    <3>1. Distinct(parked)
      BY DEF ParkedSendsFindItFull, Distinct
    <3> QED BY <2>1, <3>1, RemoveAtDistinct DEF StateOK
  <2>3. slot' = slot /\ op \notin Recvs
    BY <1>3, MpscAssumption DEF Unlink
  <2>4. parked # <<>>
    BY <2>1
  <2>5. ParkedReceiveHasNothing'
    <3>1. slot = None
      BY <2>4 DEF ParkedReceiveHasNothing
    <3> QED BY <1>1, <2>3, <3>1, MpscAssumption DEF ParkedReceiveHasNothing, StateOK, Ops
  <2>6. ParkedSendsFindItFull'
    <3>1. \A x \in Sends : stage'[x] = "queued" <=> x \in Range(parked')
      BY <2>2 DEF StateOK, ParkedSendsFindItFull, Ops
    <3> QED BY <1>1, <2>2, <2>4, <3>1 DEF ParkedSendsFindItFull, Distinct
  <2> QED BY <1>2, <2>5, <2>6
<1>4. CASE op \in Recvs
  <2>1. op \notin Sends /\ parked' = parked /\ slot' = None /\ slot = op
    BY <1>1, <1>4, MpscAssumption DEF Unlink, ParkedReceiveHasNothing
  <2>2. ParkedReceiveHasNothing'
    BY <1>1, <1>4, <2>1, MpscAssumption DEF ParkedReceiveHasNothing, StateOK, Ops
  <2>3. ParkedSendsFindItFull'
    BY <1>1, <2>1 DEF ParkedSendsFindItFull, StateOK, Ops
  <2> QED BY <1>2, <2>2, <2>3
<1> QED BY <1>3, <1>4 DEF Ops

\* close() keeps Guarded: it empties the waiter lists.
LEMMA CloseGuarded ==
  ASSUME StateOK, Guarded, CloseState
  PROVE  Guarded'
<1> USE DEF Guarded
<1>1. /\ slot' = None /\ parked' = <<>>
      /\ UNCHANGED <<buffer, count, began>>
      /\ \A op \in Ops : stage'[op] = IF op = slot \/ op \in Range(parked) THEN "closed"
                                      ELSE stage[op]
  BY DEF CloseState
<1>2. Range(<<>>) = {}
  BY DEF Range
<1>3. ParkedReceiveHasNothing'
  BY <1>1, MpscAssumption DEF ParkedReceiveHasNothing, Ops
<1>4. ParkedSendsFindItFull'
  BY <1>1, <1>2 DEF ParkedSendsFindItFull, Ops
<1>5. CountIsExact'
  BY <1>1 DEF CountIsExact
<1>6. NotBegunIsInit'
  <2>1. ASSUME NEW op \in Ops, op \notin began PROVE stage'[op] = "init"
    <3>0. stage[op] = "init"
      BY <2>1 DEF NotBegunIsInit
    <3>1. op # slot
      <4>1. CASE slot = None
        BY <4>1, MpscAssumption DEF Ops
      <4>2. CASE slot \in Recvs
        BY <3>0, <4>2 DEF ParkedReceiveHasNothing
      <4> QED BY <4>1, <4>2 DEF StateOK
    <3>2. op \notin Range(parked)
      <4>1. ASSUME op \in Range(parked) PROVE op \in Sends
        BY <4>1, RangeOfSeq DEF StateOK
      <4> QED BY <2>1, <4>1 DEF NotBegunIsInit, ParkedSendsFindItFull
    <3> QED BY <1>1, <2>1, <3>1, <3>2 DEF NotBegunIsInit
  <2> QED BY <1>1, <2>1 DEF NotBegunIsInit
<1> QED BY <1>3, <1>4, <1>5, <1>6

-----------------------------------------------------------------------------

\* Every step keeps Guarded.
LEMMA GuardedStep ==
  ASSUME TypeOK, Guarded, [Next]_vars
  PROVE  Guarded'
<1>0. StateOK
  BY TypeSplit
<1>1. ASSUME NEW s \in Sends, SendStart(s) PROVE Guarded'
  BY <1>0, <1>1, SendGuarded
<1>2. ASSUME NEW r \in Recvs, RecvStart(r) PROVE Guarded'
  BY <1>0, <1>2, RecvGuarded
<1>3. CASE TryRecv
  BY <1>0, <1>3, TakeGuarded DEF TryRecv
<1>4. ASSUME NEW op \in Ops, StopParked(op) \/ StopEarly(op) \/ Destroy(op)
      PROVE  Guarded'
  <2>1. CASE StopParked(op)
    BY <1>0, <2>1, UnlinkGuarded DEF StopParked
  <2>2. CASE StopEarly(op)
    BY <2>2, UnguardedStep DEF StopEarly
  <2>3. CASE Destroy(op)
    BY <1>0, <2>3, UnlinkGuarded DEF Destroy
  <2> QED BY <1>4, <2>1, <2>2, <2>3
<1>5. CASE Close
  BY <1>0, <1>5, CloseGuarded DEF Close
<1>6. CASE CloneSender
  BY <1>6, UnguardedStep DEF CloneSender, opVars
<1>7. CASE DropSender
  BY <1>7, UnguardedStep DEF DropSender, opVars
<1>8. CASE DropClose
  BY <1>0, <1>8, UnguardedStep, CloseGuarded DEF DropClose, opVars
<1>9. CASE FireNext
  BY <1>9, UnguardedStep DEF FireNext, Fire, opVars
<1>10. CASE UNCHANGED vars
  BY <1>10, UnguardedStep DEF vars, mutexVars
<1> QED
  BY <1>1, <1>2, <1>3, <1>4, <1>5, <1>6, <1>7, <1>8, <1>9, <1>10 DEF Next

\* The mutex invariant holds of every channel, whatever its capacity and
\* however many operations and sender handles use it.
THEOREM MutexInvariant == Spec => []MutexInv
<1>1. MutexInv <=> TypeOK /\ Guarded
  BY DEF MutexInv, Guarded
<1>2. MutexInv /\ [Next]_vars => MutexInv'
  <2> SUFFICES ASSUME MutexInv, [Next]_vars PROVE MutexInv'
    OBVIOUS
  <2>1. TypeOK'
    BY TypeStep DEF MutexInv
  <2>2. Guarded'
    BY <1>1, GuardedStep
  <2> QED BY <2>1, <2>2 DEF MutexInv, Guarded
<1> QED BY <1>2, InitMutexInv, PTL DEF Spec

\* Type correctness of the channel (in particular count never goes negative).
THEOREM TypeCorrect == Spec => []TypeOK
<1>1. MutexInv => TypeOK
  BY DEF MutexInv
<1> QED BY <1>1, MutexInvariant, PTL

\* A receive is parked only on an open channel with nothing to receive.
THEOREM NoLostReceive == Spec => []ParkedReceiveHasNothing
<1>1. MutexInv => ParkedReceiveHasNothing
  BY DEF MutexInv
<1> QED BY <1>1, MutexInvariant, PTL

\* A send is parked only on an open bounded channel that is full, and the
\* wait list is exactly the set of queued sends.
THEOREM BackpressureOnlyWhenFull == Spec => []ParkedSendsFindItFull
<1>1. MutexInv => ParkedSendsFindItFull
  BY DEF MutexInv
<1> QED BY <1>1, MutexInvariant, PTL

\* The count read without the mutex is exact and within the capacity.
THEOREM CapacityRespected == Spec => []CountIsExact
<1>1. MutexInv => CountIsExact
  BY DEF MutexInv
<1> QED BY <1>1, MutexInvariant, PTL

-----------------------------------------------------------------------------
(* Who is owed a completion.  A step under State::mu settles some          *)
(* operations and owes each of them one completion; a settled operation is *)
(* never settled again, so nothing is owed twice.                          *)

\* Some thread owes op its completion.
Owing(op) == \E c \in calls : \E i \in 1..Len(c) : c[i].op = op

OnceInv ==
  /\ \A c, d \in calls : \A i \in 1..Len(c), j \in 1..Len(d) :
       c[i].op = d[j].op => c = d /\ i = j
  /\ \A c \in calls : \A i \in 1..Len(c) : Settled(c[i].op) /\ outcome[c[i].op] = "none"
  /\ \A op \in Ops : outcome[op] # "none" => Settled(op)
  /\ \A op \in Ops : Settled(op) => outcome[op] # "none" \/ Owing(op)

Kept == taken \o buffer

\* What the sends that were told "accepted" and the consumer agree on.
KeptInv ==
  /\ \A s \in Sends : HasResult(s, "accepted") <=> s \in Range(Kept)
  /\ Distinct(Kept)

HistoryInv == OnceInv /\ KeptInv /\ EndIsFinal

\* A step that owes the completions of c settles the operations of c, and no other.
Settles(c) ==
  /\ c \in Seq(Completions) /\ Owe(c) /\ outcome' = outcome
  /\ \A i, j \in 1..Len(c) : c[i].op = c[j].op => i = j
  /\ \A i \in 1..Len(c) : ~Settled(c[i].op) /\ Settled(c[i].op)'
  /\ \A op \in Ops : Settled(op) => Settled(op)'
  /\ \A op \in Ops : Settled(op)' => Settled(op) \/ \E i \in 1..Len(c) : c[i].op = op

\* ... tells exactly the send whose value it keeps that it is accepted ...
Keeps(c) ==
  \/ Kept' = Kept /\ \A i \in 1..Len(c) : c[i].res # "accepted"
  \/ \E v \in Sends :
       /\ Kept' = Append(Kept, v)
       /\ \E i \in 1..Len(c) : c[i] = Completion(v, "accepted")
       /\ \A i \in 1..Len(c) : c[i].res = "accepted" => c[i].op = v

Finished == closed /\ buffer = <<>> /\ parked = <<>>

\* ... and reports the end only of a channel that stays empty.
Ends(c) ==
  /\ (\E i \in 1..Len(c) : c[i].res = "end") => Finished'
  /\ Finished => Finished'

\* A value appended behind another list.
LEMMA ConcatAppend ==
  ASSUME NEW S, NEW l \in Seq(S), NEW m \in Seq(S), NEW v \in S
  PROVE  l \o Append(m, v) = Append(l \o m, v)
<1>1. <<v>> \in Seq(S) /\ l \o m \in Seq(S)
  BY ConcatProperties
<1>2. Append(m, v) = m \o <<v>> /\ Append(l \o m, v) = (l \o m) \o <<v>>
  BY <1>1, AppendIsConcat
<1> QED
  BY <1>1, <1>2, ConcatAssociative

\* One completion.
LEMMA Single ==
  ASSUME NEW x \in Completions
  PROVE  /\ <<x>> \in Seq(Completions) /\ Len(<<x>>) = 1
         /\ \A i \in 1..Len(<<x>>) : i = 1 /\ <<x>>[i] = x
OBVIOUS

\* No completion at all.
LEMMA Nothing ==
  ASSUME UNCHANGED calls
  PROVE  Owe(<<>>) /\ <<>> \in Seq(Completions) /\ Len(<<>>) = 0
BY DEF Owe

\* A step without completions that settles nothing anew.
LEMMA QuietStep ==
  ASSUME UNCHANGED <<calls, outcome, taken, buffer>>, Finished => Finished',
         \A op \in Ops : Settled(op)' <=> Settled(op)
  PROVE  Settles(<<>>) /\ Keeps(<<>>) /\ Ends(<<>>)
BY Nothing DEF Settles, Keeps, Ends, Kept

\* A step that settles one operation without keeping a value.
LEMMA LonelyStep ==
  ASSUME NEW op \in Ops, NEW res, Completion(op, res) \in Completions, res # "accepted",
         Owe(<<Completion(op, res)>>), UNCHANGED <<outcome, taken, buffer>>,
         ~Settled(op), Settled(op)', \A p \in Ops : Settled(p) => Settled(p)',
         \A p \in Ops : Settled(p)' => Settled(p) \/ p = op,
         res = "end" => Finished', Finished => Finished'
  PROVE  LET c == <<Completion(op, res)>> IN Settles(c) /\ Keeps(c) /\ Ends(c)
<1> DEFINE x == Completion(op, res)
<1>1. x.op = op /\ x.res = res
  BY DEF Completion
<1> HIDE DEF x
<1>2. /\ <<x>> \in Seq(Completions) /\ Len(<<x>>) = 1
      /\ \A i \in 1..Len(<<x>>) : i = 1 /\ <<x>>[i] = x
  BY Single DEF x
<1>3. Settles(<<x>>)
  <2>1. Owe(<<x>>)
    BY DEF x
  <2>2. \A i, j \in 1..Len(<<x>>) : i = j
    BY <1>2
  <2>3. \A i \in 1..Len(<<x>>) : ~Settled(<<x>>[i].op) /\ Settled(<<x>>[i].op)'
    BY <1>1, <1>2
  <2>4. \A p \in Ops : Settled(p)' => Settled(p) \/ \E i \in 1..Len(<<x>>) : <<x>>[i].op = p
    <3>1. 1 \in 1..Len(<<x>>) /\ <<x>>[1].op = op
      BY <1>1, <1>2
    <3> QED
      BY <3>1
  <2> QED
    BY <1>2, <2>1, <2>2, <2>3, <2>4 DEF Settles
<1>4. Keeps(<<x>>) /\ Ends(<<x>>)
  BY <1>1, <1>2 DEF Keeps, Ends, Kept
<1> QED
  BY <1>3, <1>4 DEF x

\* A step under the mutex keeps that nothing is owed twice.
LEMMA SettlesOnce ==
  ASSUME CallsOK, OnceInv, NEW c, Settles(c)
  PROVE  OnceInv'
<1>1. \A d \in calls' : d \in calls \/ d = c
  BY DEF Settles, Owe
<1>2. \A i \in 1..Len(c) : c[i].op \in Ops /\ ~Settled(c[i].op) /\ Settled(c[i].op)'
  <2>1. \A i \in 1..Len(c) : c[i] \in Completions
    BY DEF Settles
  <2> QED
    BY <2>1 DEF Settles, Completions, Ops
<1>3. \A d \in calls : \A i \in 1..Len(d) :
        d[i].op \in Ops /\ Settled(d[i].op) /\ outcome[d[i].op] = "none"
  <2>1. \A d \in calls : \A i \in 1..Len(d) : d[i] \in Completions
    BY DEF CallsOK
  <2> QED
    BY <2>1 DEF OnceInv, Completions, Ops
<1>4. ASSUME NEW d \in calls', NEW e \in calls', NEW i \in 1..Len(d), NEW j \in 1..Len(e),
             d[i].op = e[j].op
      PROVE  d = e /\ i = j
  <2>1. CASE d \in calls /\ e \in calls
    BY <1>4, <2>1 DEF OnceInv
  <2>2. CASE d = c /\ e = c
    BY <1>4, <2>2 DEF Settles
  <2>3. CASE d \in calls /\ e = c
    BY <1>2, <1>3, <1>4, <2>3
  <2>4. CASE d = c /\ e \in calls
    BY <1>2, <1>3, <1>4, <2>4
  <2> QED
    BY <1>1, <2>1, <2>2, <2>3, <2>4
<1>5. ASSUME NEW d \in calls', NEW i \in 1..Len(d)
      PROVE  Settled(d[i].op)' /\ outcome'[d[i].op] = "none"
  <2>1. CASE d \in calls
    BY <1>3, <2>1 DEF Settles
  <2>2. CASE d = c
    <3>1. outcome[c[i].op] = "none"
      BY <1>2, <2>2 DEF OnceInv
    <3> QED
      BY <1>2, <2>2, <3>1 DEF Settles
  <2> QED
    BY <1>1, <2>1, <2>2
<1>6. \A op \in Ops : outcome'[op] # "none" => Settled(op)'
  BY DEF OnceInv, Settles
<1>7. ASSUME NEW op \in Ops, Settled(op)' PROVE outcome'[op] # "none" \/ Owing(op)'
  <2>1. outcome' = outcome /\ calls' = calls \cup ({c} \ {<<>>})
    BY DEF Settles, Owe
  <2>2. CASE Settled(op)
    BY <2>1, <2>2 DEF OnceInv, Owing
  <2>3. ASSUME NEW i \in 1..Len(c), c[i].op = op PROVE Owing(op)'
    <3>1. c # <<>>
      BY <2>3
    <3>2. c \in calls'
      BY <2>1, <3>1
    <3> QED
      BY <2>3, <3>2 DEF Owing
  <2> QED
    BY <1>7, <2>2, <2>3 DEF Settles
<1> QED
  BY <1>4, <1>5, <1>6, <1>7 DEF OnceInv, Settled, Owing

\* What is owed after a step: what was, and the completions of the step.
LEMMA OwedAfter ==
  ASSUME NEW c, Settles(c), NEW op, NEW res
  PROVE  HasResult(op, res)' <=> HasResult(op, res) \/ \E i \in 1..Len(c) : c[i] = Completion(op, res)
<1>1. outcome' = outcome /\ calls' = calls \cup ({c} \ {<<>>})
  BY DEF Settles, Owe
<1>2. ASSUME HasResult(op, res)'
      PROVE  HasResult(op, res) \/ \E i \in 1..Len(c) : c[i] = Completion(op, res)
  BY <1>1, <1>2 DEF HasResult
<1>3. HasResult(op, res) => HasResult(op, res)'
  BY <1>1 DEF HasResult
<1>4. ASSUME NEW i \in 1..Len(c), c[i] = Completion(op, res) PROVE HasResult(op, res)'
  <2>1. c \in calls'
    BY <1>1
  <2>2. \E d \in calls' : \E j \in 1..Len(d) : d[j] = Completion(op, res)
    BY <1>4, <2>1
  <2> QED
    BY <2>2 DEF HasResult, Completion
<1> QED
  BY <1>2, <1>3, <1>4

\* Only the settled have a result.
LEMMA ResultsAreSettled ==
  ASSUME CallsOK, OnceInv, NEW op \in Ops, NEW res, res # "none", HasResult(op, res)
  PROVE  Settled(op)
<1>1. CASE outcome[op] = res
  BY <1>1 DEF OnceInv
<1>2. ASSUME NEW d \in calls, NEW i \in 1..Len(d), d[i] = Completion(op, res) PROVE Settled(op)
  BY <1>2 DEF OnceInv, Completion
<1> QED
  BY <1>1, <1>2 DEF HasResult

\* A step that keeps a value keeps a new one, and tells its sender.
LEMMA KeepsKept ==
  ASSUME CallsOK, OnceInv, KeptInv, Kept \in Seq(Sends), NEW c, Settles(c), Keeps(c)
  PROVE  KeptInv'
<1>1. CASE Kept' = Kept /\ \A i \in 1..Len(c) : c[i].res # "accepted"
  <2>1. ASSUME NEW s \in Sends PROVE HasResult(s, "accepted")' <=> HasResult(s, "accepted")
    <3>1. \A i \in 1..Len(c) : c[i] # Completion(s, "accepted")
      BY <1>1 DEF Completion
    <3> QED
      BY <3>1, OwedAfter
  <2> QED
    BY <1>1, <2>1 DEF KeptInv
<1>2. ASSUME NEW v \in Sends, Kept' = Append(Kept, v), NEW n \in 1..Len(c),
             c[n] = Completion(v, "accepted"),
             \A i \in 1..Len(c) : c[i].res = "accepted" => c[i].op = v
      PROVE  KeptInv'
  <2>1. c[n].op = v /\ v \in Ops
    BY <1>2 DEF Completion, Ops
  <2>2. ~Settled(v)
    BY <2>1 DEF Settles
  <2>3. ~HasResult(v, "accepted")
    BY <2>1, <2>2, ResultsAreSettled
  <2>4. v \notin Range(Kept)
    BY <2>3 DEF KeptInv
  <2>5. Distinct(Kept') /\ Range(Kept') = Range(Kept) \cup {v}
    BY <1>2, <2>4, AppendDistinct DEF KeptInv
  <2>6. ASSUME NEW s \in Sends
        PROVE  HasResult(s, "accepted")' <=> HasResult(s, "accepted") \/ s = v
    <3>1. (\E i \in 1..Len(c) : c[i] = Completion(s, "accepted")) <=> s = v
      <4>1. ASSUME NEW i \in 1..Len(c), c[i] = Completion(s, "accepted") PROVE s = v
        BY <1>2, <4>1 DEF Completion
      <4> QED
        BY <1>2, <4>1
    <3> QED
      BY <3>1, OwedAfter
  <2> QED
    BY <2>5, <2>6 DEF KeptInv
<1> QED
  BY <1>1, <1>2 DEF Keeps

\* A step that reports the end of the channel finds it finished.
LEMMA EndsFinal ==
  ASSUME EndIsFinal, NEW c, Settles(c), Ends(c)
  PROVE  EndIsFinal'
<1>1. SUFFICES ASSUME NEW r \in Recvs, HasResult(r, "end")' PROVE Finished'
  BY DEF EndIsFinal, Finished
<1>2. CASE HasResult(r, "end")
  BY <1>2 DEF EndIsFinal, Finished, Ends
<1>3. ASSUME NEW i \in 1..Len(c), c[i] = Completion(r, "end") PROVE Finished'
  BY <1>3 DEF Ends, Completion
<1> QED
  BY <1>1, <1>2, <1>3, OwedAfter

\* A step under the mutex keeps the history invariant.
LEMMA SettlesHistory ==
  ASSUME CallsOK, HistoryInv, Kept \in Seq(Sends), NEW c, Settles(c), Keeps(c), Ends(c)
  PROVE  HistoryInv'
BY SettlesOnce, KeepsKept, EndsFinal DEF HistoryInv

\* A completion that fires was owed, once, and now is the outcome.
LEMMA FireHistory ==
  ASSUME CallsOK, TypeOK, HistoryInv, FireNext
  PROVE  HistoryInv'
<1>1. PICK c \in calls : Fire(c)
  BY DEF FireNext
<1> DEFINE h == Head(c)
           t == Tail(c)
<1>2. /\ h \in Completions /\ h = c[1] /\ t \in Seq(Completions) /\ Len(c) \in Nat /\ Len(c) >= 1
      /\ Len(t) = Len(c) - 1
      /\ \A i \in 1..(Len(c) - 1) : t[i] = c[i + 1]
  <2>1. c \in Seq(Completions) /\ c # <<>>
    BY DEF CallsOK
  <2> QED
    BY <2>1, HeadTailProperties, EmptySeq, LenProperties
<1>3. /\ outcome' = [outcome EXCEPT ![h.op] = h.res]
      /\ calls' = (calls \ {c}) \cup ({t} \ {<<>>})
      /\ UNCHANGED <<buffer, parked, closed, stage, began, taken>>
  BY <1>1 DEF Fire, mutexVars, opVars
<1> HIDE DEF h, t
<1>4. 1 \in 1..Len(c) /\ h.op \in Ops /\ h = Completion(h.op, h.res)
  BY <1>2 DEF Completions, Completion, Ops
<1>5. OnceInv
  BY DEF HistoryInv
<1>6. \A op : Settled(op)' <=> Settled(op)
  BY <1>3 DEF Settled
<1>7. ASSUME NEW d \in calls', NEW i \in 1..Len(d)
      PROVE  (d \in calls /\ d # c) \/ (d = t /\ i + 1 \in 1..Len(c) /\ d[i] = c[i + 1])
  BY <1>2, <1>3
<1>8. ASSUME NEW d \in calls', NEW e \in calls', NEW i \in 1..Len(d), NEW j \in 1..Len(e),
             d[i].op = e[j].op
      PROVE  d = e /\ i = j
  <2>1. CASE (d \in calls /\ d # c) /\ (e \in calls /\ e # c)
    BY <1>5, <1>8, <2>1 DEF OnceInv
  <2>2. CASE (d \in calls /\ d # c) /\ (e = t /\ j + 1 \in 1..Len(c) /\ e[j] = c[j + 1])
    BY <1>5, <1>8, <2>2 DEF OnceInv
  <2>3. CASE (d = t /\ i + 1 \in 1..Len(c) /\ d[i] = c[i + 1]) /\ (e \in calls /\ e # c)
    BY <1>5, <1>8, <2>3 DEF OnceInv
  <2>4. CASE /\ d = t /\ i + 1 \in 1..Len(c) /\ d[i] = c[i + 1]
             /\ e = t /\ j + 1 \in 1..Len(c) /\ e[j] = c[j + 1]
    <3>1. i + 1 = j + 1
      BY <1>5, <1>8, <2>4 DEF OnceInv
    <3>2. i \in Int /\ j \in Int
      BY <1>2, <2>4
    <3> QED
      BY <2>4, <3>1, <3>2
  <2> QED
    BY <1>7, <2>1, <2>2, <2>3, <2>4
<1>9. ASSUME NEW d \in calls', NEW i \in 1..Len(d)
      PROVE  Settled(d[i].op)' /\ outcome'[d[i].op] = "none"
  <2>1. CASE d \in calls /\ d # c
    <3>1. Settled(d[i].op) /\ outcome[d[i].op] = "none" /\ d[i].op # h.op
      BY <1>2, <1>4, <1>5, <2>1 DEF OnceInv
    <3> QED
      BY <1>3, <1>6, <3>1 DEF TypeOK
  <2>2. CASE d = t /\ i + 1 \in 1..Len(c) /\ d[i] = c[i + 1]
    <3>1. Settled(c[i + 1].op) /\ outcome[c[i + 1].op] = "none"
      BY <1>5, <2>2 DEF OnceInv
    <3>2. c[i + 1].op # h.op
      <4>1. i + 1 # 1
        BY <1>2, <2>2
      <4> QED
        BY <1>2, <1>4, <1>5, <2>2, <4>1 DEF OnceInv
    <3> QED
      BY <1>3, <1>6, <2>2, <3>1, <3>2 DEF TypeOK
  <2> QED
    BY <1>7, <2>1, <2>2
<1>10. Settled(h.op) /\ outcome[h.op] = "none"
  BY <1>2, <1>4, <1>5 DEF OnceInv
<1>11. OnceInv'
  <2>1. \A op \in Ops : outcome'[op] # "none" => Settled(op)'
    BY <1>3, <1>4, <1>5, <1>6, <1>10 DEF OnceInv, TypeOK
  <2>2. ASSUME NEW op \in Ops, Settled(op)' PROVE outcome'[op] # "none" \/ Owing(op)'
    <3>1. CASE op = h.op
      BY <1>2, <1>3, <3>1 DEF TypeOK, Completions, SendResults, RecvResults
    <3>2. CASE op # h.op /\ outcome[op] # "none"
      BY <1>3, <3>2 DEF TypeOK
    <3>3. ASSUME op # h.op, NEW d \in calls, NEW i \in 1..Len(d), d[i].op = op PROVE Owing(op)'
      <4>1. CASE d # c
        BY <1>3, <3>3, <4>1 DEF Owing
      <4>2. CASE d = c
        <5>1. i # 1
          BY <1>2, <3>3, <4>2
        <5>2. i - 1 \in 1..Len(t) /\ t[i - 1] = c[(i - 1) + 1] /\ (i - 1) + 1 = i
          BY <1>2, <4>2, <5>1
        <5>3. t # <<>>
          BY <5>2
        <5>4. t \in calls'
          BY <1>3, <5>3
        <5> QED
          BY <3>3, <4>2, <5>2, <5>4 DEF Owing
      <4> QED
        BY <4>1, <4>2
    <3> QED
      BY <1>5, <1>6, <2>2, <3>1, <3>2, <3>3 DEF OnceInv, Owing
  <2> QED
    BY <1>8, <1>9, <2>1, <2>2 DEF OnceInv, Settled, Owing
<1>12. ASSUME NEW op \in Ops, NEW res, res # "none"
       PROVE  HasResult(op, res)' <=> HasResult(op, res)
  <2>1. ASSUME outcome'[op] = res PROVE HasResult(op, res)
    <3>1. CASE op = h.op
      <4>1. c[1] = Completion(op, res)
        BY <1>2, <1>3, <1>4, <2>1, <3>1 DEF TypeOK
      <4> QED
        BY <1>4, <4>1 DEF HasResult
    <3>2. CASE op # h.op
      BY <1>3, <1>4, <2>1, <3>2 DEF HasResult, TypeOK
    <3> QED
      BY <3>1, <3>2
  <2>2. ASSUME NEW d \in calls', NEW i \in 1..Len(d), d[i] = Completion(op, res)
        PROVE  HasResult(op, res)
    BY <1>7, <2>2 DEF HasResult
  <2>3. ASSUME outcome[op] = res PROVE outcome'[op] = res
    BY <1>3, <1>4, <1>10, <1>12, <2>3 DEF TypeOK
  <2>4. ASSUME NEW d \in calls, NEW i \in 1..Len(d), d[i] = Completion(op, res)
        PROVE  outcome'[op] = res \/ \E e \in calls' : \E j \in 1..Len(e) : e[j] = Completion(op, res)
    <3>1. CASE d # c
      BY <1>3, <2>4, <3>1
    <3>2. CASE d = c /\ i = 1
      <4>1. h.op = op /\ h.res = res
        BY <1>2, <2>4, <3>2 DEF Completion
      <4> QED
        BY <1>3, <1>4, <4>1 DEF TypeOK
    <3>3. CASE d = c /\ i # 1
      <4>1. i - 1 \in 1..Len(t) /\ t[i - 1] = c[(i - 1) + 1] /\ (i - 1) + 1 = i
        BY <1>2, <3>3
      <4>2. t # <<>>
        BY <4>1
      <4>3. t \in calls'
        BY <1>3, <4>2
      <4> QED
        BY <2>4, <3>3, <4>1, <4>3
    <3> QED
      BY <3>1, <3>2, <3>3
  <2>5. HasResult(op, res)' => HasResult(op, res)
    BY <2>1, <2>2 DEF HasResult, Completion
  <2>6. HasResult(op, res) => HasResult(op, res)'
    BY <2>3, <2>4 DEF HasResult, Completion
  <2> QED
    BY <2>5, <2>6
<1>13. KeptInv'
  <2>1. Kept' = Kept
    BY <1>3 DEF Kept
  <2>2. \A s \in Sends : HasResult(s, "accepted")' <=> HasResult(s, "accepted")
    BY <1>12 DEF Ops
  <2> QED
    BY <2>1, <2>2 DEF KeptInv, HistoryInv
<1>14. EndIsFinal'
  <2>1. \A r \in Recvs : HasResult(r, "end")' <=> HasResult(r, "end")
    BY <1>12 DEF Ops
  <2> QED
    BY <1>3, <2>1 DEF EndIsFinal, HistoryInv
<1> QED
  BY <1>11, <1>13, <1>14 DEF HistoryInv

-----------------------------------------------------------------------------
(* What each step under the mutex settles, keeps and ends.                 *)

\* An operation that starts was not settled, and now is unless it parks.
LEMMA Starting ==
  ASSUME Guarded, NEW op \in Ops, op \notin began, began' = began \cup {op}
  PROVE  /\ ~Settled(op) /\ stage[op] = "init"
         /\ stage'[op] = stage[op] => Settled(op)'
         /\ (\A p \in Ops : p # op /\ Settled(p) => stage'[p] \notin {"queued", "gone"})
            => \A p \in Ops : Settled(p) => Settled(p)'
BY DEF Guarded, NotBegunIsInit, Settled

\* A parked operation was not settled, and now is unless it is destroyed.
LEMMA Parked ==
  ASSUME Guarded, NEW op \in Ops, stage[op] = "queued"
  PROVE  /\ ~Settled(op) /\ op \in began
         /\ began \subseteq began' /\ stage'[op] \notin {"queued", "gone"} => Settled(op)'
BY DEF Guarded, NotBegunIsInit, Settled

\* A send that starts.
LEMMA SendHistory ==
  ASSUME StateOK, Guarded, NEW s \in Sends, SendStart(s)
  PROVE  \E c : Settles(c) /\ Keeps(c) /\ Ends(c)
<1> USE DEF SendStarts
<1>0. /\ s \in Ops /\ s \notin began /\ began' = began \cup {s} /\ outcome' = outcome
      /\ taken \in Seq(Sends) /\ buffer \in Seq(Sends)
  BY DEF Ops, SendStart, SendStopped, SendClosed, SendDirect, SendBuffered, SendParked, StateOK
<1>1. ~Settled(s) /\ stage[s] = "init"
  BY <1>0, Starting
<1>2. ASSUME stage' = stage
      PROVE  /\ Settled(s)' /\ \A p \in Ops : Settled(p) => Settled(p)'
             /\ \A p \in Ops : Settled(p)' => Settled(p) \/ p = s
  BY <1>0, <1>1, <1>2 DEF Settled
<1>3. CASE SendStopped(s) \/ SendClosed(s)
  <2>1. PICK res \in {"stopped", "rejected"} :
          Owe(<<Completion(s, res)>>) /\ UNCHANGED <<mutexVars, stage, taken>>
    BY <1>3 DEF SendStopped, SendClosed
  <2>2. Completion(s, res) \in Completions
    BY CompletionTypes DEF SendResults
  <2>3. Finished => Finished'
    BY <2>1 DEF Finished, mutexVars
  <2>4. LET c == <<Completion(s, res)>> IN Settles(c) /\ Keeps(c) /\ Ends(c)
    BY <1>0, <1>1, <1>2, <2>1, <2>2, <2>3, LonelyStep DEF mutexVars
  <2> QED
    BY <2>4
<1>4. CASE SendDirect(s)
  <2>0. PICK q \in Recvs : q = slot
    BY <1>4, MpscAssumption DEF SendDirect, StateOK
  <2> DEFINE x == Completion(q, "value")
             y == Completion(s, "accepted")
             c == <<x, y>>
  <2>1. q \in Ops /\ q # s /\ stage[q] = "queued" /\ buffer = <<>>
    BY <1>4, <2>0, MpscAssumption DEF SendDirect, Ops, Guarded, ParkedReceiveHasNothing
  <2>2. /\ stage' = [stage EXCEPT ![q] = "claimed"] /\ taken' = Append(taken, s)
        /\ buffer' = buffer /\ Owe(c) /\ ~closed
    BY <1>4, <2>0 DEF SendDirect
  <2>3. /\ x.op = q /\ x.res = "value" /\ y.op = s /\ y.res = "accepted"
        /\ x \in Completions /\ y \in Completions
    BY CompletionTypes DEF Completion, SendResults, RecvResults
  <2> HIDE DEF x, y
  <2>4. c \in Seq(Completions) /\ Len(c) = 2 /\ c[1] = x /\ c[2] = y
    BY <2>3
  <2>5. \A i \in 1..Len(c) : (i = 1 /\ c[i] = x) \/ (i = 2 /\ c[i] = y)
    BY <2>4
  <2> HIDE DEF c
  <2>6. stage'[s] = "init" /\ stage'[q] = "claimed"
    BY <1>0, <1>1, <2>1, <2>2 DEF StateOK
  <2>7. ~Settled(q) /\ Settled(q)' /\ Settled(s)'
    <3>1. ~Settled(q) /\ q \in began
      BY <2>1, Parked
    <3>2. q \in began' /\ s \in began'
      BY <1>0, <3>1
    <3> QED
      BY <2>6, <3>1, <3>2 DEF Settled
  <2>8. /\ \A p \in Ops : Settled(p) => Settled(p)'
        /\ \A p \in Ops : Settled(p)' => Settled(p) \/ p = s \/ p = q
    <3>1. \A p \in Ops : p # q => stage'[p] = stage[p]
      BY <2>2 DEF StateOK
    <3> QED
      BY <1>0, <2>7, <3>1 DEF Settled
  <2>9. Settles(c)
    <3>1. \A i \in 1..Len(c) : ~Settled(c[i].op) /\ Settled(c[i].op)'
      <4>1. ASSUME NEW i \in 1..Len(c) PROVE ~Settled(c[i].op) /\ Settled(c[i].op)'
        <5>1. CASE c[i] = x
          BY <2>3, <2>7, <5>1
        <5>2. CASE c[i] = y
          BY <1>1, <2>3, <2>7, <5>2
        <5> QED
          BY <2>5, <5>1, <5>2
      <4> QED
        BY <4>1
    <3>2. \A i, j \in 1..Len(c) : c[i].op = c[j].op => i = j
      BY <2>1, <2>3, <2>5
    <3>3. \A p \in Ops : Settled(p)' => Settled(p) \/ \E i \in 1..Len(c) : c[i].op = p
      <4>1. 1 \in 1..Len(c) /\ c[1].op = q /\ 2 \in 1..Len(c) /\ c[2].op = s
        BY <2>3, <2>4
      <4> QED
        BY <2>8, <4>1
    <3> QED
      BY <1>0, <2>2, <2>4, <2>8, <3>1, <3>2, <3>3 DEF Settles
  <2>10. Keeps(c)
    <3>1. Kept' = Append(Kept, s)
      <4>1. Kept = taken /\ Kept' = Append(taken, s) /\ Append(taken, s) \in Seq(Sends)
        BY <1>0, <2>1, <2>2, ConcatEmptySeq DEF Kept
      <4> QED
        BY <4>1
    <3>2. 2 \in 1..Len(c) /\ c[2] = Completion(s, "accepted")
      BY <2>4 DEF y
    <3> QED
      BY <2>3, <2>5, <3>1, <3>2 DEF Keeps
  <2>11. Ends(c)
    BY <2>2, <2>3, <2>5 DEF Ends, Finished
  <2> QED
    BY <2>9, <2>10, <2>11
<1>5. CASE SendBuffered(s)
  <2> DEFINE y == Completion(s, "accepted")
  <2>1. /\ buffer' = Append(buffer, s) /\ taken' = taken /\ stage' = stage /\ Owe(<<y>>) /\ ~closed
    BY <1>5 DEF SendBuffered
  <2>2. y.op = s /\ y.res = "accepted" /\ y \in Completions
    BY CompletionTypes DEF Completion, SendResults
  <2> HIDE DEF y
  <2>3. /\ <<y>> \in Seq(Completions) /\ Len(<<y>>) = 1
        /\ \A i \in 1..Len(<<y>>) : i = 1 /\ <<y>>[i] = y
    BY <2>2, Single
  <2>4. Settles(<<y>>)
    <3>1. \A i, j \in 1..Len(<<y>>) : i = j
      BY <2>3
    <3>2. \A i \in 1..Len(<<y>>) : ~Settled(<<y>>[i].op) /\ Settled(<<y>>[i].op)'
      BY <1>1, <1>2, <2>1, <2>2, <2>3
    <3>3. \A p \in Ops : Settled(p) => Settled(p)'
      BY <1>2, <2>1
    <3>4. \A p \in Ops : Settled(p)' => Settled(p) \/ \E i \in 1..Len(<<y>>) : <<y>>[i].op = p
      <4>1. 1 \in 1..Len(<<y>>) /\ <<y>>[1].op = s
        BY <2>2, <2>3
      <4> QED
        BY <1>2, <2>1, <4>1
    <3> QED
      BY <1>0, <2>1, <2>3, <3>1, <3>2, <3>3, <3>4 DEF Settles
  <2>5. Keeps(<<y>>)
    <3>1. Kept' = Append(Kept, s)
      BY <1>0, <2>1, ConcatAppend DEF Kept
    <3>2. 1 \in 1..Len(<<y>>) /\ <<y>>[1] = Completion(s, "accepted")
      BY <2>3 DEF y
    <3>3. \A i \in 1..Len(<<y>>) : <<y>>[i].res = "accepted" => <<y>>[i].op = s
      BY <2>2, <2>3
    <3> QED
      BY <3>1, <3>2, <3>3 DEF Keeps
  <2>6. Ends(<<y>>)
    BY <2>1, <2>2, <2>3 DEF Ends, Finished
  <2> QED
    BY <2>4, <2>5, <2>6
<1>6. CASE SendParked(s)
  <2>1. UNCHANGED <<calls, outcome, taken, buffer>> /\ ~closed
    BY <1>0, <1>6 DEF SendParked
  <2>2. \A p \in Ops : Settled(p)' <=> Settled(p)
    BY <1>0, <1>1, <1>6 DEF SendParked, Settled, StateOK
  <2>3. Finished => Finished'
    BY <2>1 DEF Finished
  <2>4. Settles(<<>>) /\ Keeps(<<>>) /\ Ends(<<>>)
    BY <2>1, <2>2, <2>3, QuietStep
  <2> QED
    BY <2>4
<1> QED
  BY <1>3, <1>4, <1>5, <1>6 DEF SendStart


\* Taking a value: the history of values grows by one exactly when the value
\* of a parked send is claimed.
LEMMA TakeKeeps ==
  ASSUME StateOK, Guarded, TakeValue
  PROVE  Kept' = IF parked = <<>> THEN Kept ELSE Append(Kept, Head(parked))
<1>1. /\ taken \in Seq(Sends) /\ buffer \in Seq(Sends) /\ parked \in Seq(Sends)
  BY DEF StateOK
<1>2. CASE buffer # <<>>
  <2> DEFINE h == Head(buffer)
             t == Tail(buffer)
  <2>1. h \in Sends /\ t \in Seq(Sends) /\ buffer = <<h>> \o t /\ Len(t) = Len(buffer) - 1
    BY <1>1, <1>2
  <2>2. taken' = Append(taken, h)
    BY <1>2 DEF TakeValue
  <2>3. buffer' = IF parked = <<>> THEN t ELSE Push(t, Head(parked))
    BY <1>2 DEF TakeValue
  <2> HIDE DEF h, t
  <2>4. taken' \o t = Kept
    <3>1. <<h>> \in Seq(Sends) /\ taken' = taken \o <<h>>
      BY <1>1, <2>1, <2>2
    <3>2. (taken \o <<h>>) \o t = taken \o (<<h>> \o t)
      BY <1>1, <2>1, <3>1, ConcatAssociative
    <3> QED
      BY <2>1, <3>1, <3>2 DEF Kept
  <2>5. CASE parked = <<>>
    BY <2>3, <2>4, <2>5 DEF Kept
  <2>6. CASE parked # <<>>
    <3>1. Head(parked) \in Sends /\ taken' \in Seq(Sends)
      BY <1>1, <2>1, <2>2, <2>6
    <3>2. Len(t) < Capacity
      BY <1>1, <2>1, <2>6, MpscAssumption DEF Guarded, ParkedSendsFindItFull
    <3>3. buffer' = Append(t, Head(parked))
      BY <2>3, <2>6, <3>2 DEF Push
    <3>4. taken' \o buffer' = Append(taken' \o t, Head(parked))
      BY <2>1, <3>1, <3>3, ConcatAppend
    <3> QED
      BY <2>4, <2>6, <3>4 DEF Kept
  <2> QED
    BY <2>5, <2>6
<1>3. CASE buffer = <<>>
  <2>1. parked # <<>> /\ taken' = Append(taken, Head(parked)) /\ buffer' = <<>>
    BY <1>3 DEF TakeValue, HasValue
  <2>2. Append(taken, Head(parked)) \in Seq(Sends)
    BY <1>1, <2>1
  <2>3. Kept = taken /\ Kept' = taken'
    BY <1>1, <1>3, <2>1, <2>2, ConcatEmptySeq DEF Kept
  <2> QED
    BY <2>1, <2>3
<1> QED
  BY <1>2, <1>3

\* Taking a value settles the send whose value is claimed, and with it the
\* receive that takes the value, if it is awaited.
LEMMA TakeSettles ==
  ASSUME StateOK, Guarded, TakeValue, began \subseteq began'
  PROVE  /\ \A p \in Ops : Settled(p) => Settled(p)'
         /\ parked # <<>> => \E h \in Sends :
              h = Head(parked) /\ h \in Ops /\ ~Settled(h) /\ Settled(h)'
         /\ \A p \in Ops : Settled(p)' /\ p \in began =>
              Settled(p) \/ (parked # <<>> /\ p = Head(parked))
<1>1. CASE parked = <<>>
  <2>1. stage' = stage
    BY <1>1 DEF TakeValue
  <2> QED
    BY <1>1, <2>1 DEF Settled
<1>2. CASE parked # <<>>
  <2>1. PICK h \in Sends : h = Head(parked) /\ h \in Range(parked)
    BY <1>2, HeadTailProperties, SeqRangeByIndex, EmptySeq, LenProperties DEF StateOK
  <2>2. stage' = [stage EXCEPT ![h] = "claimed"]
    BY <1>2, <2>1 DEF TakeValue
  <2>3. h \in Ops /\ stage[h] = "queued"
    BY <2>1 DEF Ops, Guarded, ParkedSendsFindItFull
  <2>4. ~Settled(h) /\ h \in began
    BY <2>3, Parked
  <2>5. stage'[h] = "claimed" /\ \A p \in Ops : p # h => stage'[p] = stage[p]
    BY <2>2, <2>3 DEF StateOK
  <2>6. Settled(h)'
    BY <2>4, <2>5 DEF Settled
  <2>7. /\ \A p \in Ops : Settled(p) => Settled(p)'
        /\ \A p \in Ops : Settled(p)' /\ p \in began => Settled(p) \/ p = h
    BY <2>5, <2>6 DEF Settled
  <2> QED
    BY <1>2, <2>1, <2>3, <2>4, <2>6, <2>7
<1> QED
  BY <1>1, <1>2

\* try_recv.
LEMMA TryHistory ==
  ASSUME StateOK, Guarded, TryRecv
  PROVE  \E c : Settles(c) /\ Keeps(c) /\ Ends(c)
<1>1. /\ TakeValue /\ Owe(ClaimOldest) /\ UNCHANGED <<began, outcome>>
  BY DEF TryRecv
<1>2. Kept' = IF parked = <<>> THEN Kept ELSE Append(Kept, Head(parked))
  BY <1>1, TakeKeeps
<1>3. ~Finished
  BY <1>1 DEF TakeValue, HasValue, Finished
<1>4. CASE parked = <<>>
  <2>1. ClaimOldest = <<>> /\ <<>> \in Seq(Completions) /\ Len(<<>>) = 0
    BY <1>4 DEF ClaimOldest
  <2>2. Settles(<<>>)
    <3>1. \A p \in Ops : Settled(p)' <=> Settled(p)
      BY <1>1, <1>4, TakeSettles DEF Settled
    <3> QED
      BY <1>1, <2>1, <3>1 DEF Settles
  <2>3. Keeps(<<>>) /\ Ends(<<>>)
    BY <1>2, <1>3, <1>4, <2>1 DEF Keeps, Ends
  <2> QED
    BY <2>2, <2>3
<1>5. CASE parked # <<>>
  <2>0. /\ \E h \in Sends : h = Head(parked) /\ h \in Ops /\ ~Settled(h) /\ Settled(h)'
        /\ \A p \in Ops : Settled(p) => Settled(p)'
        /\ \A p \in Ops : Settled(p)' => Settled(p) \/ p = Head(parked)
    BY <1>1, <1>5, TakeSettles DEF Settled
  <2>1. PICK h \in Sends : h = Head(parked) /\ ~Settled(h) /\ Settled(h)'
    BY <2>0
  <2> DEFINE y == Completion(h, "accepted")
  <2>2. Owe(<<y>>) /\ Kept' = Append(Kept, h)
    BY <1>1, <1>2, <1>5, <2>1 DEF ClaimOldest
  <2>3. y.op = h /\ y.res = "accepted" /\ y \in Completions
    BY CompletionTypes DEF Completion, SendResults
  <2>4. y = Completion(h, "accepted")
    OBVIOUS
  <2> HIDE DEF y
  <2>5. /\ <<y>> \in Seq(Completions) /\ Len(<<y>>) = 1
        /\ \A i \in 1..Len(<<y>>) : i = 1 /\ <<y>>[i] = y
    BY <2>3, Single
  <2>6. Settles(<<y>>)
    <3>1. \A i, j \in 1..Len(<<y>>) : i = j
      BY <2>5
    <3>2. \A i \in 1..Len(<<y>>) : ~Settled(<<y>>[i].op) /\ Settled(<<y>>[i].op)'
      BY <2>1, <2>3, <2>5
    <3>3. \A p \in Ops : Settled(p)' => Settled(p) \/ \E i \in 1..Len(<<y>>) : <<y>>[i].op = p
      <4>1. 1 \in 1..Len(<<y>>) /\ <<y>>[1].op = h
        BY <2>3, <2>5
      <4> QED
        BY <2>0, <2>1, <4>1
    <3> QED
      BY <1>1, <2>0, <2>2, <2>5, <3>1, <3>2, <3>3 DEF Settles
  <2>7. Keeps(<<y>>)
    <3>1. 1 \in 1..Len(<<y>>) /\ <<y>>[1] = Completion(h, "accepted")
      BY <2>4, <2>5
    <3>2. \A i \in 1..Len(<<y>>) : <<y>>[i].res = "accepted" => <<y>>[i].op = h
      BY <2>3, <2>5
    <3> QED
      BY <2>0, <2>2, <3>1, <3>2 DEF Keeps
  <2>8. Ends(<<y>>)
    BY <1>3, <2>3, <2>5 DEF Ends
  <2> QED
    BY <2>6, <2>7, <2>8
<1> QED
  BY <1>4, <1>5

\* Two completions.
LEMMA Pair ==
  ASSUME NEW y \in Completions, NEW x \in Completions
  PROVE  Append(<<y>>, x) = <<y, x>>
<1>1. <<y>> \in Seq(Completions) /\ <<x>> \in Seq(Completions) /\ <<y, x>> \in Seq(Completions)
  OBVIOUS
<1>2. Append(<<y>>, x) \in Seq(Completions) /\ Len(Append(<<y>>, x)) = 2 /\ Len(<<y, x>>) = 2
  BY <1>1
<1>3. \A i \in 1..2 : Append(<<y>>, x)[i] = <<y, x>>[i]
  BY <1>1
<1> QED
  BY <1>1, <1>2, <1>3, SeqEqual

\* A receive that starts.
LEMMA RecvHistory ==
  ASSUME StateOK, Guarded, NEW r \in Recvs, RecvStart(r)
  PROVE  \E c : Settles(c) /\ Keeps(c) /\ Ends(c)
<1> USE DEF RecvStarts
<1>0. r \in Ops /\ r \notin began /\ began' = began \cup {r} /\ outcome' = outcome
  BY DEF Ops, RecvStart, RecvStopped, RecvValue, RecvClosed, RecvViolation, RecvParked
<1>1. ~Settled(r) /\ stage[r] = "init"
  BY <1>0, Starting
<1>2. ASSUME stage' = stage
      PROVE  /\ Settled(r)' /\ \A p \in Ops : Settled(p) => Settled(p)'
             /\ \A p \in Ops : Settled(p)' => Settled(p) \/ p = r
  BY <1>0, <1>1, <1>2 DEF Settled
<1>3. CASE RecvStopped(r) \/ RecvClosed(r) \/ RecvViolation(r)
  <2>1. PICK res \in {"stopped", "end", "violation"} :
          /\ Owe(<<Completion(r, res)>>) /\ UNCHANGED <<mutexVars, stage, taken>>
          /\ res = "end" => ~HasValue /\ closed
    BY <1>3 DEF RecvStopped, RecvClosed, RecvViolation
  <2>2. Completion(r, res) \in Completions
    BY CompletionTypes DEF RecvResults
  <2>3. (Finished => Finished') /\ (res = "end" => Finished')
    BY <2>1 DEF Finished, HasValue, mutexVars
  <2>4. LET c == <<Completion(r, res)>> IN Settles(c) /\ Keeps(c) /\ Ends(c)
    BY <1>0, <1>1, <1>2, <2>1, <2>2, <2>3, LonelyStep DEF mutexVars
  <2> QED
    BY <2>4
<1>4. CASE RecvParked(r)
  <2>1. UNCHANGED <<calls, outcome, taken, buffer>> /\ ~closed
    BY <1>0, <1>4 DEF RecvParked
  <2>2. \A p \in Ops : Settled(p)' <=> Settled(p)
    BY <1>0, <1>1, <1>4 DEF RecvParked, Settled, StateOK
  <2>3. Finished => Finished'
    BY <2>1 DEF Finished
  <2>4. Settles(<<>>) /\ Keeps(<<>>) /\ Ends(<<>>)
    BY <2>1, <2>2, <2>3, QuietStep
  <2> QED
    BY <2>4
<1>5. CASE RecvValue(r)
  <2> DEFINE x == Completion(r, "value")
  <2>1. TakeValue /\ Owe(Append(ClaimOldest, x))
    BY <1>5 DEF RecvValue
  <2>2. Kept' = IF parked = <<>> THEN Kept ELSE Append(Kept, Head(parked))
    BY <2>1, TakeKeeps
  <2>3. ~Finished
    BY <2>1 DEF TakeValue, HasValue, Finished
  <2>4. /\ \A p \in Ops : Settled(p) => Settled(p)'
        /\ \A p \in Ops : Settled(p)' =>
             Settled(p) \/ p = r \/ (parked # <<>> /\ p = Head(parked))
    BY <1>0, <2>1, TakeSettles DEF Settled
  <2>5. x.op = r /\ x.res = "value" /\ x \in Completions
    BY CompletionTypes DEF Completion, RecvResults
  <2> HIDE DEF x
  <2>6. Settled(r)'
    <3>1. stage'[r] = "init" \/ stage'[r] = "claimed"
      BY <1>0, <1>1, <2>1 DEF TakeValue, StateOK
    <3> QED
      BY <1>0, <3>1 DEF Settled
  <2>7. CASE parked = <<>>
    <3>1. Owe(<<x>>)
      BY <2>1, <2>7 DEF ClaimOldest
    <3>2. /\ <<x>> \in Seq(Completions) /\ Len(<<x>>) = 1
          /\ \A i \in 1..Len(<<x>>) : i = 1 /\ <<x>>[i] = x
      BY <2>5, Single
    <3>3. Settles(<<x>>)
      <4>1. \A i, j \in 1..Len(<<x>>) : i = j
        BY <3>2
      <4>2. \A i \in 1..Len(<<x>>) : ~Settled(<<x>>[i].op) /\ Settled(<<x>>[i].op)'
        BY <1>1, <2>5, <2>6, <3>2
      <4>3. \A p \in Ops : Settled(p)' => Settled(p) \/ \E i \in 1..Len(<<x>>) : <<x>>[i].op = p
        <5>1. 1 \in 1..Len(<<x>>) /\ <<x>>[1].op = r
          BY <2>5, <3>2
        <5> QED
          BY <2>4, <2>7, <5>1
      <4> QED
        BY <1>0, <2>4, <3>1, <3>2, <4>1, <4>2, <4>3 DEF Settles
    <3>4. Keeps(<<x>>)
      BY <2>2, <2>5, <2>7, <3>2 DEF Keeps
    <3>5. Ends(<<x>>)
      BY <2>3, <2>5, <3>2 DEF Ends
    <3> QED
      BY <3>3, <3>4, <3>5
  <2>8. CASE parked # <<>>
    <3>0. \E h \in Sends : h = Head(parked) /\ h \in Ops /\ ~Settled(h) /\ Settled(h)'
      BY <1>0, <2>1, <2>8, TakeSettles
    <3>1. PICK h \in Sends : h = Head(parked) /\ h # r /\ ~Settled(h) /\ Settled(h)'
      BY <3>0, MpscAssumption
    <3> DEFINE y == Completion(h, "accepted")
               c == <<y, x>>
    <3>3. y.op = h /\ y.res = "accepted" /\ y \in Completions /\ y = Completion(h, "accepted")
      BY CompletionTypes DEF Completion, SendResults
    <3> HIDE DEF y
    <3>2. Owe(c) /\ Kept' = Append(Kept, h)
      <4>1. ClaimOldest = <<y>>
        BY <2>8, <3>1, <3>3 DEF ClaimOldest
      <4>2. Append(<<y>>, x) = c
        BY <2>5, <3>3, Pair
      <4>3. Append(ClaimOldest, x) = c
        BY <4>1, <4>2
      <4> QED
        BY <2>1, <2>2, <2>8, <3>1, <4>3
    <3>4. c \in Seq(Completions) /\ Len(c) = 2 /\ c[1] = y /\ c[2] = x
      BY <2>5, <3>3
    <3>5. \A i \in 1..Len(c) : (i = 1 /\ c[i] = y) \/ (i = 2 /\ c[i] = x)
      BY <3>4
    <3> HIDE DEF c
    <3>6. Settles(c)
      <4>1. ASSUME NEW i \in 1..Len(c) PROVE ~Settled(c[i].op) /\ Settled(c[i].op)'
        <5>1. CASE c[i] = x
          BY <1>1, <2>5, <2>6, <5>1
        <5>2. CASE c[i] = y
          BY <3>1, <3>3, <5>2
        <5> QED
          BY <3>5, <5>1, <5>2
      <4>2. \A i, j \in 1..Len(c) : c[i].op = c[j].op => i = j
        BY <2>5, <3>1, <3>3, <3>5
      <4>3. \A p \in Ops : Settled(p)' => Settled(p) \/ \E i \in 1..Len(c) : c[i].op = p
        <5>1. 1 \in 1..Len(c) /\ c[1].op = h /\ 2 \in 1..Len(c) /\ c[2].op = r
          BY <2>5, <3>3, <3>4
        <5> QED
          BY <2>4, <3>1, <5>1
      <4> QED
        BY <1>0, <2>4, <3>2, <3>4, <4>1, <4>2, <4>3 DEF Settles
    <3>7. Keeps(c)
      <4>1. 1 \in 1..Len(c) /\ c[1] = Completion(h, "accepted")
        BY <3>3, <3>4
      <4>2. \A i \in 1..Len(c) : c[i].res = "accepted" => c[i].op = h
        BY <2>5, <3>3, <3>5
      <4> QED
        BY <3>1, <3>2, <4>1, <4>2 DEF Keeps
    <3>8. Ends(c)
      BY <2>3, <2>5, <3>3, <3>5 DEF Ends
    <3> QED
      BY <3>6, <3>7, <3>8
  <2> QED
    BY <2>7, <2>8
<1> QED
  BY <1>3, <1>4, <1>5 DEF RecvStart

\* Nothing is parked in a channel that is finished.
LEMMA NobodyParked ==
  ASSUME Guarded, Finished, NEW op \in Ops
  PROVE  stage[op] # "queued"
<1>1. slot = None \/ ~closed
  BY DEF Guarded, ParkedReceiveHasNothing
<1>2. Range(<<>>) = {}
  BY DEF Range
<1>3. CASE op \in Sends
  BY <1>2, <1>3 DEF Finished, Guarded, ParkedSendsFindItFull
<1>4. CASE op \in Recvs
  BY <1>1, <1>4, MpscAssumption DEF Finished, Guarded, ParkedReceiveHasNothing
<1> QED
  BY <1>3, <1>4 DEF Ops

\* A stop callback that wins takes the operation out and says so.
LEMMA StopHistory ==
  ASSUME StateOK, Guarded, NEW op \in Ops, StopParked(op)
  PROVE  \E c : Settles(c) /\ Keeps(c) /\ Ends(c)
<1>1. /\ stage[op] = "queued" /\ stage' = [stage EXCEPT ![op] = "stopped"]
      /\ Owe(<<Completion(op, "stopped")>>)
      /\ UNCHANGED <<buffer, closed, began, outcome, taken>>
  BY DEF StopParked, Unlink
<1>2. ~Settled(op) /\ op \in began
  BY <1>1, Parked
<1>3. stage'[op] = "stopped" /\ \A p \in Ops : p # op => stage'[p] = stage[p]
  BY <1>1 DEF StateOK
<1>4. /\ Settled(op)' /\ \A p \in Ops : Settled(p) => Settled(p)'
      /\ \A p \in Ops : Settled(p)' => Settled(p) \/ p = op
  BY <1>1, <1>2, <1>3 DEF Settled
<1>5. Completion(op, "stopped") \in Completions
  BY CompletionTypes DEF Ops, SendResults, RecvResults
<1>6. ~Finished
  BY <1>1, NobodyParked
<1>7. LET c == <<Completion(op, "stopped")>> IN Settles(c) /\ Keeps(c) /\ Ends(c)
  BY <1>1, <1>2, <1>4, <1>5, <1>6, LonelyStep
<1> QED
  BY <1>7

\* A parked operation that is destroyed, a stop request, a handle: nobody is
\* owed anything.
LEMMA QuietHistory ==
  ASSUME StateOK, Guarded,
         \/ \E op \in Ops : StopEarly(op) \/ Destroy(op)
         \/ CloneSender \/ DropSender
         \/ DropClose /\ closed
  PROVE  \E c : Settles(c) /\ Keeps(c) /\ Ends(c)
<1>1. ASSUME NEW op \in Ops, Destroy(op) PROVE \E c : Settles(c) /\ Keeps(c) /\ Ends(c)
  <2>1. /\ stage[op] = "queued" /\ stage' = [stage EXCEPT ![op] = "gone"]
        /\ UNCHANGED <<calls, buffer, closed, began, outcome, taken>>
    BY <1>1 DEF Destroy, Unlink
  <2>2. \A p \in Ops : Settled(p)' <=> Settled(p)
    BY <2>1 DEF Settled, StateOK
  <2>3. ~Finished
    BY <2>1, NobodyParked
  <2>4. Settles(<<>>) /\ Keeps(<<>>) /\ Ends(<<>>)
    BY <2>1, <2>2, <2>3, QuietStep
  <2> QED
    BY <2>4
<1>2. ASSUME UNCHANGED <<buffer, parked, closed, stage, began, calls, outcome, taken>>
      PROVE  \E c : Settles(c) /\ Keeps(c) /\ Ends(c)
  <2>1. \A p \in Ops : Settled(p)' <=> Settled(p)
    BY <1>2 DEF Settled
  <2>2. Finished => Finished'
    BY <1>2 DEF Finished
  <2>3. Settles(<<>>) /\ Keeps(<<>>) /\ Ends(<<>>)
    BY <1>2, <2>1, <2>2, QuietStep
  <2> QED
    BY <2>3
<1>3. ASSUME NEW op \in Ops, StopEarly(op)
      PROVE  UNCHANGED <<buffer, parked, closed, stage, began, calls, outcome, taken>>
  BY <1>3 DEF StopEarly, mutexVars
<1>4. ASSUME CloneSender \/ DropSender
      PROVE  UNCHANGED <<buffer, parked, closed, stage, began, calls, outcome, taken>>
  BY <1>4 DEF CloneSender, DropSender, mutexVars, opVars
<1>5. ASSUME DropClose, closed
      PROVE  UNCHANGED <<buffer, parked, closed, stage, began, calls, outcome, taken>>
  BY <1>5 DEF DropClose, CloseState, mutexVars, opVars
<1> QED
  BY <1>1, <1>2, <1>3, <1>4, <1>5

\* The completions owed by a close that finds q parked in the slot.
CloseOwes(q) ==
  (IF q = None THEN <<>> ELSE <<Completion(q, "end")>>)
    \o [i \in DOMAIN parked |-> Completion(parked[i], "rejected")]

\* One by one.
LEMMA CloseCompletions ==
  ASSUME StateOK, NEW q \in Recvs \cup {None}, NEW k, k = CloseOwes(q)
  PROVE  LET off == IF q = None THEN 0 ELSE 1 IN
         /\ k \in Seq(Completions)
         /\ \A i \in 1..Len(k) :
              \/ i = 1 /\ q # None /\ k[i] = Completion(q, "end")
              \/ i - off \in 1..Len(parked) /\ k[i] = Completion(parked[i - off], "rejected")
<1> DEFINE g == [i \in DOMAIN parked |-> Completion(parked[i], "rejected")]
<1>1. /\ Len(parked) \in Nat /\ DOMAIN parked = 1..Len(parked)
      /\ \A i \in 1..Len(parked) : parked[i] \in Sends
  BY DEF StateOK
<1>2. /\ g \in Seq(Completions) /\ Len(g) = Len(parked)
      /\ \A i \in 1..Len(g) : g[i] = Completion(parked[i], "rejected")
  <2>1. \A i \in 1..Len(parked) : Completion(parked[i], "rejected") \in Completions
    BY <1>1, CompletionTypes DEF SendResults
  <2>2. g \in [1..Len(parked) -> Completions]
    BY <1>1, <2>1
  <2> QED
    BY <1>1, <2>2
<1>3. k = (IF q = None THEN <<>> ELSE <<Completion(q, "end")>>) \o g
  BY DEF CloseOwes
<1> HIDE DEF g
<1>4. CASE q = None
  <2>1. k = g
    BY <1>2, <1>3, <1>4, ConcatEmptySeq
  <2> QED
    BY <1>2, <1>4, <2>1
<1>5. CASE q # None
  <2> DEFINE x == Completion(q, "end")
  <2>1. x \in Completions
    BY <1>5, CompletionTypes DEF RecvResults
  <2> HIDE DEF x
  <2>2. /\ <<x>> \o g \in Seq(Completions) /\ Len(<<x>> \o g) = 1 + Len(g) /\ (<<x>> \o g)[1] = x
        /\ \A i \in 2..(1 + Len(g)) : (<<x>> \o g)[i] = g[i - 1]
    BY <1>2, <2>1
  <2>3. k = <<x>> \o g
    BY <1>3, <1>5 DEF x
  <2>4. \A i \in 1..Len(k) : i = 1 \/ (i \in 2..(1 + Len(g)) /\ i - 1 \in 1..Len(g))
    BY <1>1, <1>2, <2>2, <2>3
  <2>5. \A i \in 1..Len(k) : \/ i = 1 /\ k[i] = x
                             \/ i - 1 \in 1..Len(g) /\ k[i] = g[i - 1]
    BY <2>2, <2>3, <2>4
  <2>6. k \in Seq(Completions)
    BY <2>2, <2>3
  <2> QED
    BY <1>2, <1>5, <2>5, <2>6 DEF x
<1> QED
  BY <1>4, <1>5

\* ... and every parked operation is owed one of them.
LEMMA CloseCompletesAll ==
  ASSUME StateOK, NEW q \in Recvs \cup {None}, NEW k, k = CloseOwes(q)
  PROVE  \A p \in Ops : p = q \/ p \in Range(parked) => \E i \in 1..Len(k) : k[i].op = p
<1> SUFFICES ASSUME NEW p \in Ops, p = q \/ p \in Range(parked)
             PROVE  \E i \in 1..Len(k) : k[i].op = p
  OBVIOUS
<1> DEFINE g == [i \in DOMAIN parked |-> Completion(parked[i], "rejected")]
<1>1. /\ Len(parked) \in Nat /\ DOMAIN parked = 1..Len(parked)
      /\ \A i \in 1..Len(parked) : parked[i] \in Sends
  BY DEF StateOK
<1>2. /\ g \in Seq(Completions) /\ Len(g) = Len(parked)
      /\ \A i \in 1..Len(g) : g[i].op = parked[i]
  <2>1. \A i \in 1..Len(parked) : Completion(parked[i], "rejected") \in Completions
    BY <1>1, CompletionTypes DEF SendResults
  <2>2. g \in [1..Len(parked) -> Completions]
    BY <1>1, <2>1
  <2> QED
    BY <1>1, <2>2 DEF Completion
<1>3. k = (IF q = None THEN <<>> ELSE <<Completion(q, "end")>>) \o g
  BY DEF CloseOwes
<1> HIDE DEF g
<1>4. p \in Range(parked) => \E n \in 1..Len(g) : g[n].op = p
  <2>1. p \in Range(parked) => \E n \in 1..Len(parked) : parked[n] = p
    BY SeqRangeByIndex DEF StateOK
  <2> QED
    BY <1>2, <2>1
<1>5. CASE q = None
  <2>1. k = g
    BY <1>2, <1>3, <1>5, ConcatEmptySeq
  <2>2. p # None
    BY MpscAssumption DEF Ops
  <2> QED
    BY <1>4, <1>5, <2>1, <2>2
<1>6. CASE q # None
  <2> DEFINE x == Completion(q, "end")
  <2>1. x \in Completions /\ x.op = q
    BY <1>6, CompletionTypes DEF RecvResults, Completion
  <2> HIDE DEF x
  <2>2. /\ <<x>> \o g \in Seq(Completions) /\ Len(<<x>> \o g) = 1 + Len(g) /\ (<<x>> \o g)[1] = x
        /\ \A i \in 2..(1 + Len(g)) : (<<x>> \o g)[i] = g[i - 1]
    BY <1>2, <2>1
  <2>3. k = <<x>> \o g /\ Len(g) \in Nat
    BY <1>1, <1>2, <1>3, <1>6 DEF x
  <2>4. CASE p = q
    BY <2>1, <2>2, <2>3, <2>4
  <2>5. ASSUME NEW n \in 1..Len(g), g[n].op = p PROVE \E i \in 1..Len(k) : k[i].op = p
    <3>1. n + 1 \in 2..(1 + Len(g)) /\ n + 1 \in 1..Len(k) /\ (n + 1) - 1 = n
      BY <2>2, <2>3
    <3>2. k[n + 1] = g[n]
      BY <2>2, <2>3, <3>1
    <3> QED
      BY <2>5, <3>1, <3>2
  <2> QED
    BY <1>4, <2>4, <2>5
<1> QED
  BY <1>5, <1>6

\* Closing settles the parked receive, which gets the end of an empty channel,
\* and every parked send, which is refused.
LEMMA CloseHistory ==
  ASSUME StateOK, Guarded, CloseState
  PROVE  \E c : Settles(c) /\ Keeps(c) /\ Ends(c)
<1>1. PICK q \in Recvs \cup {None} : q = slot
  BY DEF StateOK
<1>2. PICK k : k = CloseOwes(q)
  OBVIOUS
<1>3. PICK off \in {0, 1} : off = IF q = None THEN 0 ELSE 1
  OBVIOUS
<1>4. /\ closed' /\ parked' = <<>> /\ Owe(k)
      /\ UNCHANGED <<buffer, began, outcome, taken>>
  BY <1>1, <1>2 DEF CloseState, CloseOwes
<1>5. stage' = [op \in Ops |-> IF op = q \/ op \in Range(parked) THEN "closed" ELSE stage[op]]
  BY <1>1 DEF CloseState
<1>6. /\ k \in Seq(Completions)
      /\ \A i \in 1..Len(k) :
           \/ i = 1 /\ q # None /\ k[i] = Completion(q, "end")
           \/ i - off \in 1..Len(parked) /\ k[i] = Completion(parked[i - off], "rejected")
  BY <1>2, <1>3, CloseCompletions
<1>7. \A n \in 1..Len(parked) : parked[n] \in Sends /\ parked[n] \in Range(parked)
  BY SeqRangeByIndex DEF StateOK
<1>8. \A p \in Ops : p = q \/ p \in Range(parked) =>
        /\ stage[p] = "queued" /\ p \in began /\ ~Settled(p) /\ Settled(p)'
  <2>1. ASSUME NEW p \in Ops, p = q \/ p \in Range(parked) PROVE stage[p] = "queued"
    <3>1. CASE p \in Sends
      <4>1. p # q
        BY <3>1, MpscAssumption
      <4> QED
        BY <2>1, <3>1, <4>1 DEF Guarded, ParkedSendsFindItFull
    <3>2. CASE p \in Recvs
      <4>1. p \notin Range(parked)
        BY <3>2, SeqRangeByIndex, <1>7, MpscAssumption DEF StateOK
      <4> QED
        BY <1>1, <2>1, <3>2, <4>1 DEF Guarded, ParkedReceiveHasNothing
    <3> QED
      BY <3>1, <3>2 DEF Ops
  <2>2. ASSUME NEW p \in Ops, p = q \/ p \in Range(parked) PROVE Settled(p)'
    <3>1. p \in began /\ stage'[p] = "closed"
      BY <1>5, <2>1, <2>2, Parked
    <3> QED
      BY <1>4, <3>1 DEF Settled
  <2> QED
    BY <2>1, <2>2, Parked
<1>9. /\ \A p \in Ops : Settled(p) => Settled(p)'
      /\ \A p \in Ops : Settled(p)' => Settled(p) \/ p = q \/ p \in Range(parked)
  BY <1>4, <1>5, <1>8 DEF Settled
<1>10. ASSUME NEW i \in 1..Len(k)
       PROVE  /\ k[i].res = "rejected" \/ (k[i].res = "end" /\ q # None)
              /\ k[i].op \in Ops /\ (k[i].op = q \/ k[i].op \in Range(parked))
  <2>1. CASE i = 1 /\ q # None /\ k[i] = Completion(q, "end")
    BY <2>1 DEF Completion, Ops
  <2>2. CASE i - off \in 1..Len(parked) /\ k[i] = Completion(parked[i - off], "rejected")
    BY <1>7, <2>2 DEF Completion, Ops
  <2> QED
    BY <1>6, <2>1, <2>2
<1>11. ASSUME NEW i \in 1..Len(k), NEW j \in 1..Len(k), k[i].op = k[j].op PROVE i = j
  <2> DEFINE First(l) == l = 1 /\ k[l].op \in Recvs
             Later(l) == l - off \in 1..Len(parked) /\ k[l].op = parked[l - off]
  <2>1. ASSUME NEW l \in 1..Len(k) PROVE First(l) \/ Later(l)
    <3>1. CASE l = 1 /\ q # None /\ k[l] = Completion(q, "end")
      BY <3>1 DEF Completion
    <3>2. CASE l - off \in 1..Len(parked) /\ k[l] = Completion(parked[l - off], "rejected")
      BY <3>2 DEF Completion
    <3> QED
      BY <1>6, <3>1, <3>2
  <2>2. CASE First(i) /\ First(j)
    BY <2>2
  <2>3. ASSUME NEW l \in 1..Len(k), NEW m \in 1..Len(k), First(l), Later(m)
        PROVE  k[l].op # k[m].op
    BY <1>7, <2>3, MpscAssumption
  <2>4. CASE Later(i) /\ Later(j)
    <3>1. \A m, n \in 1..Len(parked) : parked[m] = parked[n] => m = n
      BY DEF Guarded, ParkedSendsFindItFull
    <3>2. i - off = j - off
      BY <1>11, <2>4, <3>1
    <3>3. i \in Int /\ j \in Int /\ off \in Int
      BY <1>3
    <3> QED
      BY <3>2, <3>3
  <2> HIDE DEF First, Later
  <2>5. (First(i) \/ Later(i)) /\ (First(j) \/ Later(j))
    BY <2>1
  <2> QED
    BY <1>11, <2>2, <2>3, <2>4, <2>5
<1>12. Settles(k)
  <2>1. \A i \in 1..Len(k) : ~Settled(k[i].op) /\ Settled(k[i].op)'
    BY <1>8, <1>10
  <2>2. \A i, j \in 1..Len(k) : k[i].op = k[j].op => i = j
    BY <1>11
  <2>3. \A p \in Ops : p = q \/ p \in Range(parked) => \E i \in 1..Len(k) : k[i].op = p
    BY <1>2, CloseCompletesAll
  <2> QED
    BY <1>4, <1>6, <1>9, <2>1, <2>2, <2>3 DEF Settles
<1>13. Keeps(k)
  <2>1. Kept' = Kept
    BY <1>4 DEF Kept
  <2> QED
    BY <1>10, <2>1 DEF Keeps
<1>14. Ends(k)
  <2>1. q # None => buffer = <<>>
    BY <1>1 DEF Guarded, ParkedReceiveHasNothing
  <2> QED
    BY <1>4, <1>10, <2>1 DEF Ends, Finished
<1> QED
  BY <1>12, <1>13, <1>14

-----------------------------------------------------------------------------
(* The history invariant.                                                  *)

\* Every step keeps the history invariant: a step under the mutex by what it
\* settles, keeps and ends, a completion by having been owed.
LEMMA HistoryStep ==
  ASSUME MutexInv, HistoryInv, [Next]_vars
  PROVE  HistoryInv'
<1>1. TypeOK /\ StateOK /\ CallsOK /\ Guarded
  BY TypeSplit DEF MutexInv, Guarded
<1>2. Kept \in Seq(Sends)
  BY <1>1, ConcatProperties DEF Kept, StateOK
<1>3. ASSUME \E c : Settles(c) /\ Keeps(c) /\ Ends(c) PROVE HistoryInv'
  BY <1>1, <1>2, <1>3, SettlesHistory
<1>4. CASE \E s \in Sends : SendStart(s)
  BY <1>1, <1>3, <1>4, SendHistory
<1>5. CASE \E r \in Recvs : RecvStart(r)
  BY <1>1, <1>3, <1>5, RecvHistory
<1>6. CASE TryRecv
  BY <1>1, <1>3, <1>6, TryHistory
<1>7. CASE \E op \in Ops : StopParked(op)
  BY <1>1, <1>3, <1>7, StopHistory
<1>8. CASE (\E op \in Ops : StopEarly(op) \/ Destroy(op)) \/ CloneSender \/ DropSender
  BY <1>1, <1>3, <1>8, QuietHistory
<1>9. CASE Close
  BY <1>1, <1>3, <1>9, CloseHistory DEF Close
<1>10. CASE DropClose
  <2>1. CASE closed
    BY <1>1, <1>3, <1>10, <2>1, QuietHistory
  <2>2. CASE ~closed
    BY <1>1, <1>3, <1>10, <2>2, CloseHistory DEF DropClose
  <2> QED
    BY <2>1, <2>2
<1>11. CASE FireNext
  BY <1>1, <1>11, FireHistory
<1>12. CASE UNCHANGED vars
  <2>1. UNCHANGED <<buffer, parked, closed, stage, began, calls, outcome, taken>>
    BY <1>12 DEF vars
  <2>2. OnceInv'
    BY <2>1 DEF HistoryInv, OnceInv, Settled, Owing
  <2>3. KeptInv' /\ EndIsFinal'
    BY <2>1 DEF HistoryInv, KeptInv, Kept, EndIsFinal, HasResult
  <2> QED
    BY <2>2, <2>3 DEF HistoryInv
<1> QED
  BY <1>4, <1>5, <1>6, <1>7, <1>8, <1>9, <1>10, <1>11, <1>12 DEF Next

\* The channel starts with no history.
LEMMA InitHistory == Init => HistoryInv
<1> SUFFICES ASSUME Init PROVE HistoryInv
  OBVIOUS
<1>1. \A op \in Ops : outcome[op] = "none"
  BY DEF Init
<1>2. \A op \in Ops : \A res : res # "none" => ~HasResult(op, res)
  BY <1>1 DEF Init, HasResult
<1>3. Kept = <<>> /\ Range(<<>>) = {} /\ Len(<<>>) = 0
  BY DEF Init, Kept, Range
<1>4. OnceInv
  BY <1>1 DEF Init, OnceInv, Settled
<1>5. KeptInv
  BY <1>2, <1>3 DEF KeptInv, Distinct, Ops
<1>6. EndIsFinal
  BY <1>2 DEF EndIsFinal, Ops
<1> QED
  BY <1>4, <1>5, <1>6 DEF HistoryInv

\* What the completions say is what happened: nothing is owed twice, the
\* accepted values are the ones kept, and the end is reported at the end.
THEOREM HistoryInvariant == Spec => []HistoryInv
<1>1. MutexInv /\ HistoryInv /\ [Next]_vars => HistoryInv'
  BY HistoryStep
<1> QED
  BY <1>1, InitHistory, MutexInvariant, PTL DEF Spec

\* Whoever wins the race for an operation, it completes exactly once: nobody
\* is told twice, and nobody is forgotten.
THEOREM EveryOperationCompletesOnce == Spec => []CompletesOnce
<1>1. ASSUME HistoryInv, MutexInv PROVE CompletesOnce
  <2> SUFFICES ASSUME NEW op \in Ops
               PROVE  Cardinality(Owed(op)) + (IF outcome[op] = "none" THEN 0 ELSE 1)
                        = (IF Settled(op) THEN 1 ELSE 0)
    BY DEF CompletesOnce
  <2>1. OnceInv
    BY <1>1 DEF HistoryInv
  <2>0. \A c \in calls : DOMAIN c = 1..Len(c)
    BY <1>1 DEF MutexInv, TypeOK
  <2>2. \A p \in Owed(op) : /\ p[1] \in calls /\ p[2] \in 1..Len(p[1]) /\ p[1][p[2]].op = op
                            /\ p = <<p[1], p[2]>>
    BY <2>0 DEF Owed
  <2>3. \A p, q \in Owed(op) : p = q
    BY <2>1, <2>2 DEF OnceInv
  <2>4. Owed(op) # {} => Settled(op) /\ outcome[op] = "none"
    BY <2>1, <2>2 DEF OnceInv
  <2>5. outcome[op] # "none" => Settled(op)
    BY <2>1 DEF OnceInv
  <2>6. Owing(op) => Owed(op) # {}
    <3>1. ASSUME NEW c \in calls, NEW i \in 1..Len(c), c[i].op = op PROVE <<c, i>> \in Owed(op)
      <4>1. <<c, i>> \in {c} \X DOMAIN c
        BY <2>0, <3>1
      <4> QED
        BY <3>1, <4>1 DEF Owed
    <3> QED
      BY <3>1 DEF Owing
  <2>7. Settled(op) /\ outcome[op] = "none" => Owed(op) # {}
    BY <2>1, <2>6 DEF OnceInv
  <2>8. Cardinality(Owed(op)) = IF Owed(op) = {} THEN 0 ELSE 1
    <3>1. CASE Owed(op) = {}
      BY <3>1, FS_EmptySet
    <3>2. CASE Owed(op) # {}
      <4>1. PICK p : p \in Owed(op)
        BY <3>2
      <4>2. Owed(op) = {p}
        BY <2>3, <4>1
      <4> QED
        BY <3>2, <4>2, FS_Singleton
    <3> QED
      BY <3>1, <3>2
  <2> QED
    BY <2>4, <2>5, <2>7, <2>8
<1> QED
  BY <1>1, HistoryInvariant, MutexInvariant, PTL

\* The consumer gets, or will find, the values of the accepted sends only.
THEOREM AcceptedMeansKept == Spec => []AcceptedIsKept
<1>1. HistoryInv => AcceptedIsKept
  BY DEF HistoryInv, KeptInv, Kept, Distinct, AcceptedIsKept
<1> QED
  BY <1>1, HistoryInvariant, PTL

\* The end is reported of a channel that stays empty only.
THEOREM EndMeansEmpty == Spec => []EndIsFinal
<1>1. HistoryInv => EndIsFinal
  BY DEF HistoryInv
<1> QED
  BY <1>1, HistoryInvariant, PTL

-----------------------------------------------------------------------------
(* The channel at rest: no thread owes a completion, no destructor is on    *)
(* its way to close().  FairSpec says that the channel comes to rest unless *)
(* new operations keep coming; what it says then is a matter of safety.     *)

AtRest == calls = {} /\ ~dropping

\* Who waits at rest waits for a peer that can still come: a receive for a
\* sender, on an open and empty channel, a send for room, on an open and full
\* one.  Everybody else who began has completed, or was destroyed.
WaitsForAPeer ==
  AtRest => \A op \in began :
    \/ outcome[op] # "none" \/ stage[op] = "gone"
    \/ /\ op \in Recvs /\ slot = op
       /\ buffer = <<>> /\ parked = <<>> /\ ~closed /\ senders > 0
    \/ /\ op \in Sends /\ op \in Range(parked)
       /\ Bounded /\ Len(buffer) = Capacity /\ ~closed /\ senders > 0

\* The handle that goes last closes the channel, or is about to.
LastHandleCloses == senders = 0 => dropping \/ closed

LEMMA LastHandleClosesAlways == Spec => []LastHandleCloses
<1>1. Init => LastHandleCloses
  BY DEF Init, LastHandleCloses
<1>2. ASSUME TypeOK, LastHandleCloses, [Next]_vars PROVE LastHandleCloses'
  <2>1. CASE \/ \E s \in Sends : SendStart(s)
             \/ \E r \in Recvs : RecvStart(r)
             \/ TryRecv \/ FireNext
             \/ \E op \in Ops : StopParked(op) \/ StopEarly(op) \/ Destroy(op)
             \/ UNCHANGED vars
    <3>1. UNCHANGED <<senders, dropping, closed>>
      BY <2>1 DEF SendStart, SendStopped, SendClosed, SendDirect, SendBuffered, SendParked,
         SendStarts, RecvStart, RecvStopped, RecvValue, RecvClosed, RecvViolation, RecvParked,
         RecvStarts, TakeValue, TryRecv, FireNext, Fire, StopParked, StopEarly, Destroy, Unlink,
         mutexVars, handleVars, vars
    <3> QED
      BY <1>2, <3>1 DEF LastHandleCloses
  <2>2. CASE Close \/ DropClose
    BY <1>2, <2>2 DEF Close, DropClose, CloseState, handleVars, mutexVars, LastHandleCloses
  <2>3. senders \in Nat
    BY <1>2, MpscAssumption DEF TypeOK
  <2>4. CASE CloneSender
    <3>1. senders >= 1 /\ senders' = senders + 1
      BY <2>3, <2>4, MpscAssumption DEF CloneSender
    <3>2. senders' # 0
      BY <2>3, <3>1
    <3> QED
      BY <3>2 DEF LastHandleCloses
  <2>5. CASE DropSender
    <3>1. senders' = 0 => senders = 1
      BY <2>3, <2>5 DEF DropSender
    <3>2. senders = 1 => dropping'
      BY <2>5 DEF DropSender
    <3> QED
      BY <3>1, <3>2 DEF LastHandleCloses
  <2> QED
    BY <1>2, <2>1, <2>2, <2>4, <2>5 DEF Next
<1>3. TypeOK /\ LastHandleCloses /\ [Next]_vars => LastHandleCloses'
  BY <1>2
<1>4. MutexInv => TypeOK
  BY DEF MutexInv
<1> QED
  BY <1>1, <1>3, <1>4, MutexInvariant, PTL DEF Spec

\* What LastSenderEndsReceives and CloseReleasesSends ask for has happened as
\* soon as the channel is at rest.
THEOREM NobodyWaitsInVain == Spec => []WaitsForAPeer
<1>1. ASSUME MutexInv, HistoryInv, LastHandleCloses PROVE WaitsForAPeer
  <2> SUFFICES ASSUME AtRest, NEW op \in began,
                      outcome[op] = "none", stage[op] # "gone"
               PROVE  \/ /\ op \in Recvs /\ slot = op
                         /\ buffer = <<>> /\ parked = <<>> /\ ~closed /\ senders > 0
                      \/ /\ op \in Sends /\ op \in Range(parked)
                         /\ Bounded /\ Len(buffer) = Capacity /\ ~closed /\ senders > 0
    BY DEF WaitsForAPeer
  <2>1. op \in Ops /\ slot \in Recvs \cup {None} /\ senders \in 0..MaxSenders
    BY <1>1 DEF MutexInv, TypeOK
  <2>2. ~Owing(op)
    BY DEF AtRest, Owing
  <2>3. ~Settled(op)
    BY <1>1, <2>1, <2>2 DEF HistoryInv, OnceInv
  <2>4. stage[op] = "queued"
    BY <2>3 DEF Settled
  <2>5. ~closed => senders > 0
    BY <1>1, <2>1, MpscAssumption DEF LastHandleCloses, AtRest
  <2>6. CASE op \in Recvs
    <3>1. slot = op /\ slot # None
      BY <1>1, <2>4, <2>6, MpscAssumption DEF MutexInv, ParkedReceiveHasNothing
    <3> QED
      BY <1>1, <2>5, <2>6, <3>1 DEF MutexInv, ParkedReceiveHasNothing
  <2>7. CASE op \in Sends
    <3>1. op \in Range(parked)
      BY <1>1, <2>4, <2>7 DEF MutexInv, ParkedSendsFindItFull
    <3>2. parked # <<>>
      BY <3>1 DEF Range
    <3> QED
      BY <1>1, <2>5, <2>7, <3>1, <3>2 DEF MutexInv, ParkedSendsFindItFull
  <2> QED
    BY <2>1, <2>6, <2>7 DEF Ops
<1> QED
  BY <1>1, MutexInvariant, HistoryInvariant, LastHandleClosesAlways, PTL

-----------------------------------------------------------------------------
(* The channel is one FIFO line: the buffer, and behind it the values of   *)
(* the parked sends.                                                       *)

\* What stands in two lists one behind the other.
LEMMA ConcatRange ==
  ASSUME NEW S, NEW l \in Seq(S), NEW m \in Seq(S)
  PROVE  Range(l \o m) = Range(l) \cup Range(m)
<1>1. /\ l \o m \in Seq(S) /\ Len(l \o m) = Len(l) + Len(m) /\ Len(l) \in Nat /\ Len(m) \in Nat
      /\ \A i \in 1..Len(l) : (l \o m)[i] = l[i]
      /\ \A i \in 1..Len(m) : (l \o m)[Len(l) + i] = m[i]
  OBVIOUS
<1>2. ASSUME NEW x PROVE x \in Range(l \o m) <=> x \in Range(l) \cup Range(m)
  <2>1. /\ x \in Range(l \o m) <=> \E i \in 1..Len(l \o m) : (l \o m)[i] = x
        /\ x \in Range(l) <=> \E i \in 1..Len(l) : l[i] = x
        /\ x \in Range(m) <=> \E i \in 1..Len(m) : m[i] = x
    BY <1>1, SeqRangeByIndex
  <2>2. \A i \in 1..Len(l \o m) : i \in 1..Len(l) \/ (i - Len(l) \in 1..Len(m) /\ i = Len(l) + (i - Len(l)))
    BY <1>1
  <2>3. \A i \in 1..Len(l) : i \in 1..Len(l \o m)
    BY <1>1
  <2>4. \A i \in 1..Len(m) : Len(l) + i \in 1..Len(l \o m)
    BY <1>1
  <2>5. ASSUME NEW i \in 1..Len(l \o m), (l \o m)[i] = x PROVE x \in Range(l) \cup Range(m)
    BY <1>1, <2>1, <2>2, <2>5
  <2> QED
    BY <1>1, <2>1, <2>3, <2>4, <2>5
<1> QED
  BY <1>2

\* The head and the rest of two lists one behind the other.
LEMMA ConcatHead ==
  ASSUME NEW S, NEW l \in Seq(S), NEW m \in Seq(S)
  PROVE  /\ l # <<>> => l \o m # <<>> /\ Head(l \o m) = Head(l) /\ Tail(l \o m) = Tail(l) \o m
         /\ l = <<>> => l \o m = m
         /\ m = <<>> => l \o m = l
<1>1. (l = <<>> => l \o m = m) /\ (m = <<>> => l \o m = l)
  BY ConcatEmptySeq
<1>2. ASSUME l # <<>>
      PROVE  l \o m # <<>> /\ Head(l \o m) = Head(l) /\ Tail(l \o m) = Tail(l) \o m
  <2>1. /\ Len(l) \in Nat /\ Len(m) \in Nat /\ Len(l) >= 1
        /\ l \o m \in Seq(S) /\ Len(l \o m) = Len(l) + Len(m)
        /\ \A i \in 1..Len(l) : (l \o m)[i] = l[i]
        /\ \A i \in 1..(Len(l) + Len(m)) : i > Len(l) => (l \o m)[i] = m[i - Len(l)]
        /\ Head(l) = l[1]
    BY <1>2
  <2>2. l \o m # <<>> /\ Head(l \o m) = (l \o m)[1]
    BY <2>1
  <2>3. /\ Tail(l) \in Seq(S) /\ Len(Tail(l)) = Len(l) - 1
        /\ \A i \in 1..(Len(l) - 1) : Tail(l)[i] = l[i + 1]
    BY <1>2
  <2>4. /\ Tail(l \o m) \in Seq(S) /\ Len(Tail(l \o m)) = Len(l) + Len(m) - 1
        /\ \A i \in 1..(Len(l) + Len(m) - 1) : Tail(l \o m)[i] = (l \o m)[i + 1]
    BY <2>1, <2>2
  <2>5. /\ Tail(l) \o m \in Seq(S) /\ Len(Tail(l) \o m) = Len(l) - 1 + Len(m)
        /\ \A i \in 1..(Len(l) - 1) : (Tail(l) \o m)[i] = Tail(l)[i]
        /\ \A i \in 1..(Len(l) - 1 + Len(m)) : i > Len(l) - 1 => (Tail(l) \o m)[i] = m[i - (Len(l) - 1)]
    BY <2>1, <2>3
  <2>6. ASSUME NEW i \in 1..(Len(l) + Len(m) - 1) PROVE Tail(l \o m)[i] = (Tail(l) \o m)[i]
    <3>1. CASE i <= Len(l) - 1
      BY <2>1, <2>3, <2>4, <2>5, <3>1
    <3>2. CASE i > Len(l) - 1
      <4>1. (l \o m)[i + 1] = m[(i + 1) - Len(l)] /\ (Tail(l) \o m)[i] = m[i - (Len(l) - 1)]
        BY <2>1, <2>5, <3>2
      <4>2. (i + 1) - Len(l) = i - (Len(l) - 1)
        BY <2>1
      <4> QED
        BY <2>4, <4>1, <4>2
    <3> QED
      BY <2>1, <3>1, <3>2
  <2>7. Tail(l \o m) = Tail(l) \o m
    <3>1. Len(Tail(l \o m)) = Len(Tail(l) \o m) /\ Len(Tail(l \o m)) = Len(l) + Len(m) - 1
      BY <2>1, <2>4, <2>5
    <3> QED
      BY <2>4, <2>5, <2>6, <3>1, SeqEqual
  <2> QED
    BY <2>1, <2>2, <2>7
<1> QED
  BY <1>1, <1>2

\* A prefix of two lists one behind the other.
LEMMA ConcatPrefix ==
  ASSUME NEW S, NEW l \in Seq(S), NEW m \in Seq(S)
  PROVE  SubSeq(l \o m, 1, Len(l)) = l
<1>1. /\ Len(l) \in Nat /\ Len(m) \in Nat /\ l \o m \in Seq(S) /\ Len(l \o m) = Len(l) + Len(m)
      /\ \A i \in 1..Len(l) : (l \o m)[i] = l[i]
  OBVIOUS
<1>2. /\ SubSeq(l \o m, 1, Len(l)) \in Seq(S) /\ Len(SubSeq(l \o m, 1, Len(l))) = Len(l)
      /\ \A i \in 1..Len(l) : SubSeq(l \o m, 1, Len(l))[i] = (l \o m)[i]
  BY <1>1
<1> QED
  BY <1>1, <1>2, SeqEqual

\* The elements of two lists one behind the other.
LEMMA ConcatElements ==
  ASSUME NEW S, NEW l \in Seq(S), NEW m \in Seq(S)
  PROVE  /\ l \o m \in Seq(S) /\ Len(l \o m) = Len(l) + Len(m) /\ Len(l) \in Nat /\ Len(m) \in Nat
         /\ \A i \in 1..Len(l) : (l \o m)[i] = l[i]
         /\ \A i \in 1..Len(m) : (l \o m)[Len(l) + i] = m[i]
OBVIOUS

\* Unlinking a node from the second of two lists.
LEMMA ConcatRemove ==
  ASSUME NEW S, NEW l \in Seq(S), NEW m \in Seq(S), NEW n \in 1..Len(m)
  PROVE  /\ Len(l) + n \in (Len(l) + 1)..Len(l \o m)
         /\ l \o RemoveAt(m, n) = RemoveAt(l \o m, Len(l) + n)
<1> DEFINE r == RemoveAt(m, n)
           k == l \o m
           a == Len(l)
           b == Len(m)
           q == RemoveAt(k, a + n)
           o == l \o r
<1>1. /\ a \in Nat /\ b \in Nat /\ n \in Int /\ 1 <= n /\ n <= b
      /\ k \in Seq(S) /\ Len(k) = a + b
      /\ \A i \in 1..a : k[i] = l[i]
      /\ \A i \in 1..b : k[a + i] = m[i]
  BY ConcatElements
<1>2. /\ r \in Seq(S) /\ Len(r) = b - 1
      /\ \A j \in 1..(b - 1) : r[j] = IF j < n THEN m[j] ELSE m[j + 1]
  BY RemoveAtProperties
<1> HIDE DEF k, r, b
<1>3. /\ o \in Seq(S) /\ Len(o) = a + Len(r)
      /\ \A i \in 1..a : o[i] = l[i]
      /\ \A i \in 1..Len(r) : o[a + i] = r[i]
  <2>1. r \in Seq(S)
    BY <1>2
  <2> QED
    <3>1. /\ l \o r \in Seq(S) /\ Len(l \o r) = Len(l) + Len(r) /\ Len(l) \in Nat /\ Len(r) \in Nat
          /\ \A i \in 1..Len(l) : (l \o r)[i] = l[i]
          /\ \A i \in 1..Len(r) : (l \o r)[Len(l) + i] = r[i]
      BY <2>1, ConcatElements
    <3>2. o = l \o r /\ a = Len(l)
      OBVIOUS
    <3> HIDE DEF o, a
    <3> QED
      BY <3>1, <3>2
<1> HIDE DEF a, o
<1>4. a + n \in 1..Len(k) /\ a + n \in (a + 1)..Len(k)
  BY <1>1
<1>5. /\ q \in Seq(S) /\ Len(q) = Len(k) - 1
      /\ \A j \in 1..(Len(k) - 1) : q[j] = IF j < a + n THEN k[j] ELSE k[j + 1]
  BY <1>1, <1>4, RemoveAtProperties
<1> HIDE DEF q
<1>6. Len(q) = a + b - 1 /\ Len(o) = a + b - 1
  BY <1>1, <1>2, <1>3, <1>5
<1>7. ASSUME NEW j \in 1..(a + b - 1) PROVE o[j] = q[j]
  <2>0. q[j] = IF j < a + n THEN k[j] ELSE k[j + 1]
    BY <1>1, <1>5
  <2>1. CASE j <= a
    <3>1. j \in 1..a /\ j < a + n
      BY <1>1, <2>1
    <3> QED
      BY <1>1, <1>3, <2>0, <3>1
  <2>2. CASE j > a
    <3>1. PICK i \in 1..(b - 1) : j = a + i
      <4>1. j - a \in 1..(b - 1) /\ j = a + (j - a)
        BY <1>1, <2>2
      <4> QED
        BY <4>1
    <3>2. i \in Int /\ i \in 1..b /\ i + 1 \in 1..b /\ (a + i) + 1 = a + (i + 1) /\ (a + i < a + n <=> i < n)
      BY <1>1
    <3>3. o[j] = r[i]
      BY <1>2, <1>3, <3>1
    <3>4. CASE i < n
      BY <1>1, <1>2, <2>0, <3>1, <3>2, <3>3, <3>4
    <3>5. CASE ~(i < n)
      <4>1. r[i] = m[i + 1]
        BY <1>2, <3>5
      <4>2. q[j] = k[a + (i + 1)]
        BY <2>0, <3>1, <3>2, <3>5
      <4> QED
        BY <1>1, <3>2, <3>3, <4>1, <4>2
    <3> QED
      BY <3>4, <3>5
  <2> QED
    BY <1>1, <2>1, <2>2
<1>8. o = q
  BY <1>3, <1>5, <1>6, <1>7, SeqEqual
<1> QED
  BY <1>4, <1>8 DEF k, r, q, a, o

\* A send that has not begun carries a value that is nowhere in the channel.
LEMMA NewIsFresh ==
  ASSUME StateOK, CallsOK, Guarded, HistoryInv, NEW s \in Sends, s \notin began
  PROVE  Line!Fresh(s)
<1>1. s \in Ops /\ stage[s] = "init" /\ ~Settled(s)
  BY DEF Ops, Guarded, NotBegunIsInit, Settled
<1>2. s \notin Range(Kept)
  BY <1>1, ResultsAreSettled DEF HistoryInv, KeptInv
<1>3. s \notin Range(parked)
  BY <1>1 DEF Guarded, ParkedSendsFindItFull
<1>4. s \notin Range(taken) /\ s \notin Range(buffer)
  BY <1>2, ConcatRange DEF StateOK, Kept
<1>5. s \notin Range(buffer \o parked)
  BY <1>3, <1>4, ConcatRange DEF StateOK
<1> QED
  BY <1>4, <1>5 DEF Line!Fresh, Line!Range, Range

\* A send that starts joins the line or is handed over.
LEMMA SendRefines ==
  ASSUME StateOK, CallsOK, Guarded, HistoryInv, NEW s \in Sends, SendStart(s)
  PROVE  Line!Next \/ UNCHANGED Line!vars
<1> USE DEF SendStarts
<1>1. s \notin began /\ buffer \in Seq(Sends) /\ parked \in Seq(Sends)
  BY DEF StateOK, SendStart, SendStopped, SendClosed, SendDirect, SendBuffered, SendParked
<1>2. Line!Fresh(s)
  BY <1>1, NewIsFresh
<1>3. CASE SendStopped(s) \/ SendClosed(s)
  BY <1>3 DEF SendStopped, SendClosed, mutexVars, Line!vars
<1>4. CASE SendDirect(s)
  <2>1. /\ ~closed /\ taken' = Append(taken, s) /\ UNCHANGED <<buffer, parked, closed>>
        /\ buffer = <<>> /\ parked = <<>>
    BY <1>4 DEF SendDirect, Guarded, ParkedReceiveHasNothing
  <2>2. buffer \o parked = <<>>
    BY <1>1, <2>1, ConcatHead
  <2>3. Line!Handover(s)
    BY <1>2, <2>1, <2>2 DEF Line!Handover
  <2> QED
    BY <2>3 DEF Line!Next
<1>5. CASE SendBuffered(s)
  <2>1. /\ ~closed /\ buffer' = Append(buffer, s) /\ UNCHANGED <<taken, parked, closed>>
        /\ Bounded => Len(buffer) < Capacity
    BY <1>5 DEF SendBuffered
  <2>2. parked = <<>> /\ Append(buffer, s) \in Seq(Sends) /\ Len(Append(buffer, s)) = Len(buffer) + 1
    BY <1>1, <2>1, MpscAssumption DEF Guarded, ParkedSendsFindItFull
  <2>3. buffer \o parked = buffer /\ (buffer \o parked)' = Append(buffer, s)
    BY <1>1, <2>1, <2>2, ConcatHead
  <2>4. Line!Join(s)
    BY <1>2, <2>1, <2>2, <2>3 DEF Line!Join
  <2> QED
    BY <2>4 DEF Line!Next
<1>6. CASE SendParked(s)
  <2>1. ~closed /\ parked' = Append(parked, s) /\ UNCHANGED <<taken, buffer, closed>>
    BY <1>6 DEF SendParked
  <2>2. (buffer \o parked)' = Append(buffer \o parked, s)
    BY <1>1, <2>1, ConcatAppend
  <2>3. Line!Join(s)
    BY <1>2, <2>1, <2>2 DEF Line!Join
  <2> QED
    BY <2>3 DEF Line!Next
<1> QED
  BY <1>3, <1>4, <1>5, <1>6 DEF SendStart

\* Taking a value delivers the head of the line.
LEMMA TakeRefines ==
  ASSUME StateOK, Guarded, TakeValue
  PROVE  Line!Next
<1> DEFINE l == buffer \o parked
<1>1. buffer \in Seq(Sends) /\ parked \in Seq(Sends) /\ closed' = closed
  BY DEF StateOK, TakeValue
<1>2. CASE buffer # <<>>
  <2>1. l # <<>> /\ Head(l) = Head(buffer) /\ Tail(l) = Tail(buffer) \o parked
    BY <1>1, <1>2, ConcatHead
  <2>2. /\ Tail(buffer) \in Seq(Sends) /\ Len(Tail(buffer)) = Len(buffer) - 1
        /\ Len(buffer) \in Nat /\ Len(buffer) > 0
    BY <1>1, <1>2
  <2>3. taken' = Append(taken, Head(l))
    BY <1>2, <2>1 DEF TakeValue
  <2>4. CASE parked = <<>>
    <3>1. buffer' = Tail(buffer) /\ parked' = parked
      BY <1>2, <2>4 DEF TakeValue
    <3>2. l' = Tail(l) /\ Len(buffer)' = Len(buffer) - 1
      BY <2>1, <2>2, <3>1
    <3>3. Line!Deliver
      BY <1>1, <2>1, <2>2, <2>3, <3>2 DEF Line!Deliver
    <3> QED
      BY <3>3 DEF Line!Next
  <2>5. CASE parked # <<>>
    <3> DEFINE h == Head(parked)
               t == Tail(buffer)
    <3>1. Len(t) < Capacity
      BY <1>1, <2>2, <2>5, MpscAssumption DEF Guarded, ParkedSendsFindItFull
    <3>2. buffer' = Append(t, h) /\ parked' = Tail(parked)
      BY <1>2, <2>5, <3>1 DEF TakeValue, Push
    <3>3. h \in Sends /\ Tail(parked) \in Seq(Sends) /\ parked = <<h>> \o Tail(parked)
      BY <1>1, <2>5
    <3>4. Append(t, h) \in Seq(Sends) /\ Len(Append(t, h)) = Len(buffer) /\ Append(t, h) = t \o <<h>>
      <4>1. t \in Seq(Sends) /\ Len(t) = Len(buffer) - 1 /\ Len(buffer) \in Nat
        BY <2>2
      <4>2. h \in Sends
        BY <3>3
      <4> HIDE DEF t, h
      <4>3. Append(t, h) \in Seq(Sends) /\ Len(Append(t, h)) = Len(t) + 1
        BY <4>1, <4>2
      <4>4. Append(t, h) = t \o <<h>>
        BY <4>1, <4>2, AppendIsConcat
      <4> QED
        BY <4>1, <4>3, <4>4
    <3>5. Append(t, h) \o Tail(parked) = t \o parked
      <4>1. <<h>> \in Seq(Sends)
        BY <3>3
      <4> HIDE DEF t, h
      <4>2. (t \o <<h>>) \o Tail(parked) = t \o (<<h>> \o Tail(parked))
        BY <2>2, <3>3, <4>1, ConcatAssociative DEF t
      <4> QED
        BY <3>3, <3>4, <4>2
    <3>6. l' = Tail(l) /\ Len(buffer)' = Len(buffer)
      BY <2>1, <3>2, <3>4, <3>5
    <3>7. Len(buffer) < Len(l)
      BY <1>1, <2>5, ConcatElements
    <3>8. Line!Deliver
      BY <1>1, <2>1, <2>3, <3>6, <3>7 DEF Line!Deliver
    <3> QED
      BY <3>8 DEF Line!Next
  <2> QED
    BY <2>4, <2>5
<1>3. CASE buffer = <<>>
  <2>1. parked # <<>> /\ taken' = Append(taken, Head(parked)) /\ buffer' = <<>> /\ parked' = Tail(parked)
    BY <1>3 DEF TakeValue, HasValue
  <2>2. Tail(parked) \in Seq(Sends) /\ Len(parked) \in Nat /\ Len(parked) > 0
    BY <1>1, <2>1
  <2>3. l = parked /\ l' = Tail(parked) /\ Len(buffer) = 0 /\ Len(buffer)' = 0
    BY <1>1, <1>3, <2>1, <2>2, ConcatHead
  <2>4. Line!Deliver
    BY <1>1, <2>1, <2>2, <2>3 DEF Line!Deliver
  <2> QED
    BY <2>4 DEF Line!Next
<1> QED
  BY <1>2, <1>3

\* A parked send that is stopped or destroyed is withdrawn from the line.
LEMMA UnlinkRefines ==
  ASSUME StateOK, NEW op \in Ops, Unlink(op)
  PROVE  Line!Next \/ UNCHANGED Line!vars
<1>1. buffer \in Seq(Sends) /\ parked \in Seq(Sends) /\ UNCHANGED <<buffer, closed, taken>>
  BY DEF StateOK, Unlink
<1>2. CASE op \in Sends
  <2>1. PICK n \in 1..Len(parked) : parked' = RemoveAt(parked, n)
    BY <1>2 DEF Unlink
  <2>2. /\ Len(buffer) + n \in (Len(buffer) + 1)..Len(buffer \o parked)
        /\ (buffer \o parked)' = RemoveAt(buffer \o parked, Len(buffer) + n)
    BY <1>1, <2>1, ConcatRemove
  <2>3. Line!Withdraw
    BY <1>1, <2>2 DEF Line!Withdraw, Line!RemoveAt, RemoveAt
  <2> QED
    BY <2>3 DEF Line!Next
<1>3. CASE op \notin Sends
  BY <1>1, <1>3 DEF Unlink, Line!vars
<1> QED
  BY <1>2, <1>3

\* Closing withdraws what has not been accepted.
LEMMA CloseRefines ==
  ASSUME StateOK, CloseState
  PROVE  Line!Next
<1>1. /\ buffer \in Seq(Sends) /\ parked \in Seq(Sends) /\ UNCHANGED <<buffer, taken>>
      /\ ~closed /\ closed' /\ parked' = <<>>
  BY DEF StateOK, CloseState
<1>2. (buffer \o parked)' = buffer
  BY <1>1, ConcatHead
<1>3. buffer = SubSeq(buffer \o parked, 1, Len(buffer))
  BY <1>1, ConcatPrefix
<1>4. Line!Close
  BY <1>1, <1>2, <1>3 DEF Line!Close
<1> QED
  BY <1>4 DEF Line!Next

\* Every step of the channel is a step of the line or leaves it as it is.
LEMMA StepRefines ==
  ASSUME MutexInv, HistoryInv, [Next]_vars
  PROVE  Line!Next \/ UNCHANGED Line!vars
<1>1. StateOK /\ CallsOK /\ Guarded
  BY TypeSplit DEF MutexInv, Guarded
<1>2. ASSUME UNCHANGED <<buffer, parked, closed, taken>> PROVE UNCHANGED Line!vars
  BY <1>2 DEF Line!vars
<1>3. CASE \E s \in Sends : SendStart(s)
  BY <1>1, <1>3, SendRefines
<1>4. CASE \E r \in Recvs : RecvStart(r)
  <2>1. PICK r \in Recvs : RecvStart(r)
    BY <1>4
  <2>2. CASE RecvValue(r)
    BY <1>1, <2>2, TakeRefines DEF RecvValue
  <2>3. CASE ~RecvValue(r)
    <3>1. UNCHANGED <<buffer, parked, closed, taken>>
      BY <2>1, <2>3 DEF RecvStart, RecvStopped, RecvClosed, RecvViolation, RecvParked, mutexVars
    <3> QED
      BY <1>2, <3>1
  <2> QED
    BY <2>2, <2>3
<1>5. CASE TryRecv
  BY <1>1, <1>5, TakeRefines DEF TryRecv
<1>6. CASE \E op \in Ops : StopParked(op) \/ Destroy(op)
  BY <1>1, <1>6, UnlinkRefines DEF StopParked, Destroy
<1>7. CASE (\E op \in Ops : StopEarly(op)) \/ CloneSender \/ DropSender \/ FireNext \/ UNCHANGED vars
  <2>1. UNCHANGED <<buffer, parked, closed, taken>>
    BY <1>7 DEF StopEarly, CloneSender, DropSender, FireNext, Fire, vars, mutexVars
  <2> QED
    BY <1>2, <2>1
<1>8. CASE Close
  BY <1>1, <1>8, CloseRefines DEF Close
<1>9. CASE DropClose
  <2>1. CASE CloseState
    BY <1>1, <2>1, CloseRefines
  <2>2. CASE ~CloseState
    <3>1. UNCHANGED <<buffer, parked, closed, taken>>
      BY <1>9, <2>2 DEF DropClose, mutexVars
    <3> QED
      BY <1>2, <3>1
  <2> QED
    BY <2>1, <2>2
<1> QED
  BY <1>3, <1>4, <1>5, <1>6, <1>7, <1>8, <1>9 DEF Next

\* The channel keeps the promise of ChannelSpec.
THEOREM ImplementsChannelSpec == Spec => IsOneFifoLine
<1>1. Init => Line!Init
  <2> SUFFICES ASSUME Init PROVE Line!Init
    OBVIOUS
  <2>1. buffer = <<>> /\ parked = <<>> /\ taken = <<>> /\ closed = FALSE
    BY DEF Init
  <2>2. buffer \o parked = <<>> /\ Len(buffer) = 0
    BY <2>1
  <2> QED
    BY <2>1, <2>2 DEF Line!Init
<1>2. MutexInv /\ HistoryInv /\ [Next]_vars => [Line!Next]_(Line!vars)
  BY StepRefines
<1> QED
  BY <1>1, <1>2, MutexInvariant, HistoryInvariant, PTL DEF Spec, IsOneFifoLine, Line!Spec
=============================================================================
