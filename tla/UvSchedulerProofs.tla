-------------------------- MODULE UvSchedulerProofs --------------------------
(***************************************************************************)
(* Proofs about UvScheduler, for any number of operations.                 *)
(*                                                                         *)
(* None of its properties is inductive.  That a hop in the queue is alive  *)
(* rests on who pushes and claims nodes (NodeInv, ClaimInv, HopInv); that  *)
(* a handle is closed once on where its init node is (HandleInv); that     *)
(* nothing is in flight when the loop is closed on the counter being the   *)
(* number of works that are somewhere (CountInv); and that stop() leaves   *)
(* nothing on every operation being in somebody's hands (HandsInv).  Who   *)
(* owes a completion and who is destroyed is kept apart, in OwnerInv.      *)
(***************************************************************************)
EXTENDS UvScheduler, SequencesExt, SequenceTheorems, FiniteSets, FiniteSetTheorems, TLAPS

-----------------------------------------------------------------------------
(* Lists without repetition: what push_back, pop_front and unlinking a     *)
(* node do to the set of their elements.                                   *)

\* Unlinking the node at i keeps the other nodes and their order.
LEMMA RemoveAtProperties ==
  ASSUME NEW S, NEW s \in Seq(S), NEW i \in 1..Len(s)
  PROVE  /\ RemoveAt(s, i) \in Seq(S)
         /\ Len(RemoveAt(s, i)) = Len(s) - 1
         /\ \A j \in 1..(Len(s) - 1) :
              RemoveAt(s, i)[j] = IF j < i THEN s[j] ELSE s[j + 1]
<1> DEFINE a == SubSeq(s, 1, i - 1)
           b == SubSeq(s, i + 1, Len(s))
<1>1. /\ a \in Seq(S)
      /\ Len(a) = i - 1
      /\ \A j \in 1..(i - 1) : a[j] = s[j]
  <2>1. \A j \in 1..(i - 1) : s[j] \in S
    OBVIOUS
  <2> QED BY <2>1, SubSeqProperties
<1>2. /\ b \in Seq(S)
      /\ Len(b) = Len(s) - i
      /\ \A j \in 1..(Len(s) - i) : b[j] = s[j + i]
  <2>1. \A j \in (i + 1)..Len(s) : s[j] \in S
    OBVIOUS
  <2> QED BY <2>1, SubSeqProperties
<1>3. RemoveAt(s, i) = a \o b
  BY DEF RemoveAt
<1> HIDE DEF a, b
<1>4. /\ a \o b \in Seq(S)
      /\ Len(a \o b) = Len(s) - 1
      /\ \A j \in 1..(Len(s) - 1) : (a \o b)[j] = IF j <= i - 1 THEN a[j] ELSE b[j - (i - 1)]
  <2>1. /\ a \in Seq(S) /\ b \in Seq(S)
        /\ Len(a) = i - 1 /\ Len(b) = Len(s) - i
    BY <1>1, <1>2
  <2>2. /\ a \o b \in Seq(S)
        /\ Len(a \o b) = Len(a) + Len(b)
        /\ \A j \in 1..(Len(a) + Len(b)) :
             (a \o b)[j] = IF j <= Len(a) THEN a[j] ELSE b[j - Len(a)]
    BY <2>1, ConcatProperties, Zenon
  <2>3. Len(s) \in Nat /\ (i - 1) + (Len(s) - i) = Len(s) - 1
    BY LenProperties
  <2> QED BY <2>1, <2>2, <2>3
<1>5. ASSUME NEW j \in 1..(Len(s) - 1)
      PROVE  (a \o b)[j] = IF j < i THEN s[j] ELSE s[j + 1]
  <2>1. CASE j < i
    BY <2>1, <1>1, <1>4
  <2>2. CASE ~(j < i)
    <3>1. b[j - (i - 1)] = s[j - (i - 1) + i]
      BY <2>2, <1>2
    <3> QED BY <3>1, <2>2, <1>4
  <2> QED BY <2>1, <2>2
<1> QED
  BY <1>3, <1>4, <1>5

\* Range of a sequence, by index.
LEMMA SeqRangeByIndex ==
  ASSUME NEW S, NEW s \in Seq(S), NEW x
  PROVE  x \in Range(s) <=> \E i \in 1..Len(s) : s[i] = x
<1>1. DOMAIN s = 1..Len(s) /\ s \in [1..Len(s) -> S]
  BY LenProperties
<1> QED BY <1>1 DEF Range

\* Sequences without repetition, as an intrusive list is.
Distinct(s) == \A i, j \in 1..Len(s) : s[i] = s[j] => i = j

\* push_back of a new element onto a list without repetitions.
LEMMA AppendDistinct ==
  ASSUME NEW S, NEW s \in Seq(S), Distinct(s), NEW e \in S, e \notin Range(s)
  PROVE  Distinct(Append(s, e)) /\ Range(Append(s, e)) = Range(s) \cup {e}
<1> DEFINE t == Append(s, e)
<1>1. /\ t \in Seq(S) /\ Len(t) = Len(s) + 1 /\ Len(s) \in Nat
      /\ \A i \in 1..Len(s) : t[i] = s[i]
      /\ t[Len(s) + 1] = e
  OBVIOUS
<1> HIDE DEF t
<1>2. \A i \in 1..Len(s) : s[i] # e
  BY SeqRangeByIndex
<1>3. \A i \in 1..(Len(s) + 1) : i \in 1..Len(s) \/ i = Len(s) + 1
  BY <1>1
<1>4. Distinct(t)
  BY <1>1, <1>2, <1>3 DEF Distinct
<1>5. ASSUME NEW x PROVE x \in Range(t) <=> x \in Range(s) \cup {e}
  <2>1. /\ x \in Range(t) <=> \E i \in 1..Len(t) : t[i] = x
        /\ x \in Range(s) <=> \E i \in 1..Len(s) : s[i] = x
    BY <1>1, SeqRangeByIndex
  <2>2. CASE x = e
    BY <1>1, <2>1, <2>2
  <2>3. CASE x # e
    BY <1>1, <1>3, <2>1, <2>3
  <2> QED BY <2>2, <2>3
<1> QED BY <1>4, <1>5 DEF t

\* t is s without its i-th element.
IsDrop(s, i, t) ==
  /\ Len(t) = Len(s) - 1
  /\ \A j \in 1..(Len(s) - 1) : t[j] = IF j < i THEN s[j] ELSE s[j + 1]

\* Taking out the i-th element of a sequence without repetition.
LEMMA DropDistinct ==
  ASSUME NEW S, NEW s \in Seq(S), Distinct(s), NEW i \in 1..Len(s),
         NEW t \in Seq(S), IsDrop(s, i, t)
  PROVE  Distinct(t) /\ Range(t) = Range(s) \ {s[i]}
<1> DEFINE n == Len(s)
           up(j) == IF j < i THEN j ELSE j + 1
<1>1. n \in Nat /\ i \in Int /\ i <= n
  BY LenProperties
<1> HIDE DEF n
<1>2. \A j \in 1..(n - 1) : up(j) \in 1..n /\ up(j) # i /\ t[j] = s[up(j)]
  BY <1>1 DEF n, IsDrop
<1>3. \A j, k \in 1..(n - 1) : up(j) = up(k) => j = k
  BY <1>1
<1>4. Distinct(t)
  <2>1. ASSUME NEW j \in 1..(n - 1), NEW k \in 1..(n - 1), t[j] = t[k]
        PROVE  j = k
    <3>1. s[up(j)] = s[up(k)] /\ up(j) \in 1..n /\ up(k) \in 1..n
      BY <1>2, <2>1
    <3>2. up(j) = up(k)
      BY <3>1 DEF Distinct, n
    <3> QED BY <1>3, <3>2
  <2>2. Len(t) = n - 1
    BY DEF IsDrop, n
  <2> QED BY <2>1, <2>2 DEF Distinct
<1>5. \A k \in 1..n : k # i => \E j \in 1..(n - 1) : up(j) = k
  <2>1. ASSUME NEW k \in 1..n, k # i
        PROVE  \E j \in 1..(n - 1) : up(j) = k
    <3>1. CASE k < i
      <4>1. k \in 1..(n - 1) /\ up(k) = k
        BY <1>1, <3>1
      <4> QED BY <4>1
    <3>2. CASE ~(k < i)
      <4>1. k - 1 \in 1..(n - 1) /\ up(k - 1) = k
        BY <1>1, <2>1, <3>2
      <4> QED BY <4>1
    <3> QED BY <3>1, <3>2
  <2> QED BY <2>1
<1>6. ASSUME NEW x PROVE x \in Range(t) <=> x \in Range(s) \ {s[i]}
  <2>1. /\ x \in Range(t) <=> \E j \in 1..(n - 1) : t[j] = x
        /\ x \in Range(s) <=> \E j \in 1..n : s[j] = x
    BY SeqRangeByIndex DEF IsDrop, n
  <2>2. ASSUME x \in Range(t) PROVE x \in Range(s) \ {s[i]}
    <3>1. PICK j \in 1..(n - 1) : t[j] = x
      BY <2>1, <2>2
    <3>2. up(j) \in 1..n /\ up(j) # i /\ s[up(j)] = x
      BY <1>2, <3>1
    <3> QED BY <1>1, <2>1, <3>2 DEF Distinct, n
  <2>3. ASSUME x \in Range(s), x # s[i] PROVE x \in Range(t)
    <3>1. PICK k \in 1..n : s[k] = x
      BY <2>1, <2>3
    <3>2. k # i
      BY <2>3, <3>1
    <3>3. PICK j \in 1..(n - 1) : up(j) = k
      BY <1>5, <3>2
    <3> QED BY <1>2, <2>1, <3>1, <3>3
  <2> QED BY <2>2, <2>3
<1> QED BY <1>4, <1>6

\* Taking one waiter out of a list without repetitions .
LEMMA RemoveAtDistinct ==
  ASSUME NEW S, NEW s \in Seq(S), Distinct(s), NEW i \in 1..Len(s)
  PROVE  /\ Distinct(RemoveAt(s, i))
         /\ Range(RemoveAt(s, i)) = Range(s) \ {s[i]}
<1> DEFINE t == RemoveAt(s, i)
<1>1. t \in Seq(S) /\ IsDrop(s, i, t)
  BY RemoveAtProperties DEF IsDrop
<1> HIDE DEF t
<1>2. Distinct(t) /\ Range(t) = Range(s) \ {s[i]}
  BY <1>1, DropDistinct
<1> QED BY <1>2 DEF t

\* pop_front of a list without repetitions.
LEMMA TailDistinct ==
  ASSUME NEW S, NEW s \in Seq(S), Distinct(s), s # <<>>
  PROVE  /\ Distinct(Tail(s))
         /\ Range(Tail(s)) = Range(s) \ {Head(s)}
<1> DEFINE t == Tail(s)
<1>1. /\ t \in Seq(S) /\ Len(t) = Len(s) - 1
      /\ \A j \in 1..Len(t) : t[j] = s[j + 1]
      /\ Len(s) \in Nat \ {0} /\ Head(s) = s[1]
  BY HeadTailProperties, EmptySeq
<1>2. IsDrop(s, 1, t)
  BY <1>1 DEF IsDrop
<1> HIDE DEF t
<1>3. Distinct(t) /\ Range(t) = Range(s) \ {s[1]}
  <2>1. 1 \in 1..Len(s)
    BY <1>1
  <2> QED BY <1>1, <1>2, <2>1, DropDistinct
<1> QED BY <1>1, <1>3 DEF t

-----------------------------------------------------------------------------

InQ(k, o) == Node(k, o) \in Range(queue)
InB(k, o) == Node(k, o) \in Range(batch)
Listed(k, o) == InQ(k, o) \/ InB(k, o)

Started(o) == start[o] \in {"wake", "returned"}

Owed(o) == \E c \in owes : c.op = o

\* The two lists hold a node once, and the popped one only while on_async runs.
ListInv ==
  /\ Distinct(queue) /\ Distinct(batch)
  /\ \A k \in Kinds, o \in Ops : ~(InQ(k, o) /\ InB(k, o))
  /\ batch = <<>> <=> loop # "batch"

\* Nodes are pushed by start() and by enqueue_cancel(), of their own kind.
NodeInv ==
  /\ \A o \in Ops : Listed("hop", o) => o \in Scheds /\ Started(o)
  /\ \A o \in Ops : Listed("init", o) => o \in Timers /\ Started(o)
  /\ \A o \in Ops : Listed("work", o) => o \in Works /\ Started(o)
  /\ \A o \in Ops : Listed("cancel", o) => o \in Timers /\ cancel[o] \in {"wake", "done"}
  /\ \A o \in Ops : start[o] = "prepared" => o \in Timers

\* The claims of each kind of operation, and what they say of the receiver.
ClaimInv ==
  /\ \A o \in Scheds : claim[o] \in {"queued", "running", "cancelled"}
  /\ \A o \in Timers : claim[o] \in {"pending", "value", "stopped", "cancelled"}
  /\ \A o \in Works : claim[o] \in {"pending", "complete", "cancelled"}
  /\ \A o \in Ops : start[o] = "idle" => Unclaimed(o)
  /\ \A o \in Ops : start[o] = "prepared" => claim[o] \in {"pending", "stopped"}
  /\ \A o \in Ops : Unclaimed(o) => result[o] = "none"
  /\ \A o \in Timers : Unclaimed(o) => cancel[o] = "no"

\* A hop is claimed when it is popped and completed when it is run.
HopInv ==
  /\ \A o \in Scheds : InQ("hop", o) => claim[o] = "queued"
  /\ \A o \in Scheds : InB("hop", o) => claim[o] = "running" /\ result[o] = "none"

\* The handle of a timer through init node, uv_close and close callback.
HandleInv ==
  /\ \A o \in Timers : handle[o] \in {"none", "active", "closing", "closed"}
  /\ \A o \in Timers : closing[o] => handle[o] \in {"closing", "closed"}
  /\ \A o \in Timers : ~closing[o] /\ loop # "exited" => handle[o] \in {"none", "active"}
  /\ \A o \in Timers : Listed("init", o) => handle[o] = "none"
  /\ \A o \in Timers : handle[o] # "none" => Started(o)

\* The work that is counted: queued, popped, in the pool or before after_work.
Pend == {o \in Works : Listed("work", o) \/ job[o] \in {"pool", "after"}}

CountInv ==
  /\ IsFiniteSet(Pend)
  /\ inFlight = Cardinality(Pend)
  /\ \A o \in Works : job[o] # "none" => Started(o) /\ ~Listed("work", o)

Drained == {"drained", "flagged", "joining", "closing", "stopped"}

\* How far stop() is, and what is over by then.
PhaseInv ==
  /\ closed <=> worker # "running"
  /\ worker \in {"counting"} \cup Drained => queue = <<>>
  /\ worker \in Drained => inFlight = 0
  /\ worker \in {"closing", "stopped"} =>
       loop = "exited" /\ \A o \in Timers : handle[o] # "active"
  /\ worker = "stopped" => \A o \in Timers : handle[o] # "closing"

\* A started operation that is not completed is in somebody's hands.
HandsInv ==
  /\ \A o \in Scheds : Started(o) /\ Alive(o) => Listed("hop", o)
  /\ \A o \in Works : Started(o) /\ Unclaimed(o) => o \in Pend
  /\ \A o \in Timers : Started(o) /\ Unclaimed(o) =>
       Listed("init", o) \/ handle[o] \in {"active", "closing"}
  /\ \A o \in Timers : claim[o] = "stopped" /\ result[o] = "none" =>
       cancel[o] = "enqueue" \/ Listed("cancel", o) \/ Owed(o)

IInv ==
  /\ TypeOK /\ ListInv /\ NodeInv /\ ClaimInv /\ HopInv /\ HandleInv /\ CountInv
  /\ PhaseInv /\ HandsInv

\* What the loop thread owes, it owes to one receiver, which it has claimed and
\* which nobody else will complete; it delivers it before it leaves.
OwesInv ==
  /\ \A c, d \in owes : c = d
  /\ \A c \in owes :
       /\ result[c.op] = "none" /\ claim[c.op] \in {"value", "stopped", "complete"}
       /\ claim[c.op] = "stopped" => c.op \in Timers /\ cancel[c.op] = "no"
  /\ \A o \in Ops : claim[o] \in {"value", "complete"} => result[o] # "none" \/ Owed(o)
  /\ owes # {} => loop \in {"callbacks", "batch"} \/ worker = "closing"

\* What is destroyed was started and is claimed, by its destructor or by
\* somebody before; a destructor that wins completes nothing.
GoneInv ==
  /\ \A o \in gone : start[o] = "returned" /\ ~Unclaimed(o)
  /\ \A o \in gone \cap Scheds : claim[o] = "cancelled"
  /\ \A o \in Ops : claim[o] = "cancelled" => o \in gone \/ result[o] # "none"

OwnerInv == OwesInv /\ GoneInv

-----------------------------------------------------------------------------
(* The lists.                                                              *)

\* Nodes are equal when their kinds and their operations are.
LEMMA NodeFacts ==
  /\ \A k \in Kinds, o \in Ops : Node(k, o) \in Nodes
  /\ \A k, o, l, p : Node(k, o) = Node(l, p) <=> k = l /\ o = p
  /\ \A n \in Nodes : n.kind \in Kinds /\ n.op \in Ops /\ n = Node(n.kind, n.op)
BY DEF Node, Nodes

\* Contains, as the model uses it, is membership in the list.
LEMMA ContainsIsListed ==
  ASSUME TypeOK
  PROVE  /\ \A k, o : Contains(queue, Node(k, o)) <=> InQ(k, o)
         /\ \A k, o : Contains(batch, Node(k, o)) <=> InB(k, o)
<1>1. \A s \in Seq(Nodes) : \A n : Contains(s, n) <=> n \in Range(s)
  BY SeqRangeByIndex DEF Contains
<1> QED
  BY <1>1 DEF TypeOK, InQ, InB

\* Nothing is in an empty list.
LEMMA EmptyLists ==
  /\ queue = <<>> => \A k, o : ~InQ(k, o)
  /\ batch = <<>> => \A k, o : ~InB(k, o)
<1>1. Range(<<>>) = {}
  BY DEF Range
<1> QED
  BY <1>1 DEF InQ, InB

\* push_back of a node onto the queue.
LEMMA PushNode ==
  ASSUME TypeOK, Distinct(queue), NEW k \in Kinds, NEW o \in Ops, ~InQ(k, o),
         queue' = Append(queue, Node(k, o))
  PROVE  /\ queue' \in Seq(Nodes) /\ Distinct(queue)'
         /\ \A l, p : InQ(l, p)' <=> InQ(l, p) \/ (l = k /\ p = o)
<1>1. queue \in Seq(Nodes) /\ Node(k, o) \in Nodes
  BY NodeFacts DEF TypeOK
<1>2. Node(k, o) \notin Range(queue)
  BY DEF InQ
<1>3. Distinct(queue') /\ Range(queue') = Range(queue) \cup {Node(k, o)}
  BY <1>1, <1>2, AppendDistinct
<1>4. queue' \in Seq(Nodes)
  BY <1>1
<1> QED
  BY <1>3, <1>4, NodeFacts DEF InQ, Distinct

\* Unlinking a node that is queued.
LEMMA UnlinkNode ==
  ASSUME TypeOK, Distinct(queue), NEW k \in Kinds, NEW o \in Ops, NEW i \in 1..Len(queue),
         queue[i] = Node(k, o), queue' = RemoveAt(queue, i)
  PROVE  /\ queue' \in Seq(Nodes) /\ Distinct(queue)' /\ InQ(k, o)
         /\ \A l, p : InQ(l, p)' <=> InQ(l, p) /\ ~(l = k /\ p = o)
<1>1. queue \in Seq(Nodes)
  BY DEF TypeOK
<1>2. Distinct(queue') /\ Range(queue') = Range(queue) \ {Node(k, o)}
  BY <1>1, RemoveAtDistinct
<1>3. queue' \in Seq(Nodes)
  BY <1>1, RemoveAtProperties
<1>4. Node(k, o) \in Range(queue)
  BY <1>1, SeqRangeByIndex
<1> QED
  BY <1>2, <1>3, <1>4, NodeFacts DEF InQ, Distinct

\* pop_front of the popped batch.
LEMMA PopNode ==
  ASSUME TypeOK, Distinct(batch), batch # <<>>, batch' = Tail(batch)
  PROVE  /\ Head(batch) \in Nodes /\ InB(Head(batch).kind, Head(batch).op)
         /\ batch' \in Seq(Nodes) /\ Distinct(batch)'
         /\ \A l, p : InB(l, p)' <=>
              InB(l, p) /\ ~(l = Head(batch).kind /\ p = Head(batch).op)
<1>1. batch \in Seq(Nodes)
  BY DEF TypeOK
<1>2. Distinct(batch') /\ Range(batch') = Range(batch) \ {Head(batch)}
  BY <1>1, TailDistinct
<1>3. Head(batch) \in Nodes /\ batch' \in Seq(Nodes) /\ 1 \in 1..Len(batch)
      /\ Head(batch) = batch[1]
  BY <1>1
<1>4. Head(batch) \in Range(batch)
  BY <1>1, <1>3, SeqRangeByIndex
<1> QED
  BY <1>2, <1>3, <1>4, NodeFacts DEF InB, Distinct

-----------------------------------------------------------------------------
(* One lemma per action.                                                   *)

\* A node that start() pushes keeps the invariant.
LEMMA StartOpenPreserves ==
  ASSUME IInv, NEW o \in Ops, NEW k \in {"hop", "init", "work"},
         k = "hop" => o \in Scheds /\ start[o] = "idle",
         k = "init" => o \in Timers /\ start[o] = "prepared",
         k = "work" => o \in Works /\ start[o] = "idle",
         StartOpen(o, k),
         UNCHANGED <<cancel, gone, closed, asyncReady, asyncOpen, pendingWake, uvVars, loopVars,
                     worker>>
  PROVE  IInv'
<1>1. ~InQ(k, o) /\ ~InB(k, o) /\ ~Started(o)
  BY DEF IInv, NodeInv, Listed, Started
<1>2. /\ queue' \in Seq(Nodes) /\ Distinct(queue)'
      /\ \A l, p : InQ(l, p)' <=> InQ(l, p) \/ (l = k /\ p = o)
  BY <1>1, PushNode DEF IInv, ListInv, StartOpen, Kinds
<1>3. /\ \A l, p : InB(l, p)' <=> InB(l, p)
      /\ Distinct(batch)'
  BY DEF loopVars, InB, IInv, ListInv
<1>4. /\ start' = [start EXCEPT ![o] = "wake"] /\ ~closed
      /\ inFlight' = IF k = "work" THEN inFlight + 1 ELSE inFlight
      /\ UNCHANGED <<claim, result>>
      /\ UNCHANGED <<handle, closing, job>>
      /\ UNCHANGED <<batch, owes, loop, stopFlag>>
  BY DEF StartOpen, uvVars, loopVars
<1>5. TypeOK'
  BY OpsAssumption, <1>1, <1>2, <1>3, <1>4 DEF IInv, TypeOK
<1>6. ListInv'
  BY OpsAssumption, <1>1, <1>2, <1>3, <1>4 DEF IInv, ListInv, Listed
<1>7. NodeInv'
  BY OpsAssumption, <1>1, <1>2, <1>3, <1>4 DEF IInv, NodeInv, TypeOK, Started, Listed
<1>8. ClaimInv'
  BY OpsAssumption, <1>1, <1>2, <1>3, <1>4 DEF IInv, ClaimInv, TypeOK, Ops, Unclaimed
<1>9. HopInv'
  <2>1. k = "hop" => claim[o] = "queued"
    BY DEF IInv, ClaimInv, Unclaimed
  <2> QED
    BY <1>2, <1>3, <1>4, <2>1 DEF IInv, HopInv
<1>10. HandleInv'
  BY OpsAssumption, <1>1, <1>2, <1>3, <1>4 DEF IInv, HandleInv, NodeInv, TypeOK,
     Started, Listed
<1>11. CountInv'
  <2>1. CASE k = "work"
    <3>1. o \in Works /\ o \notin Pend /\ Pend' = Pend \cup {o}
      BY <1>1, <1>2, <1>3, <1>4, <2>1 DEF IInv, CountInv, Pend, Listed
    <3>2. IsFiniteSet(Pend') /\ Cardinality(Pend') = Cardinality(Pend) + 1
      BY <3>1, FS_AddElement DEF IInv, CountInv
    <3> QED
      BY <1>1, <1>2, <1>3, <1>4, <2>1, <3>2
         DEF IInv, CountInv, TypeOK, Started, Listed
  <2>2. CASE k # "work"
    <3>1. Pend' = Pend
      BY <1>2, <1>3, <1>4, <2>2 DEF Pend, Listed
    <3> QED
      BY <1>2, <1>3, <1>4, <2>2, <3>1 DEF IInv, CountInv, TypeOK, Started, Listed
  <2> QED
    BY <2>1, <2>2
<1>12. PhaseInv'
  BY OpsAssumption, <1>1, <1>2, <1>3, <1>4 DEF IInv, PhaseInv, Drained, TypeOK
<1>13. HandsInv'
  BY OpsAssumption, <1>1, <1>2, <1>3, <1>4 DEF IInv, HandsInv, ClaimInv, TypeOK,
     Started, Alive, Unclaimed, Ops, Pend, Listed, Owed
<1> QED
  BY <1>5, <1>6, <1>7, <1>8, <1>9, <1>10, <1>11, <1>12, <1>13 DEF IInv

\* Being answered by a closed loop keeps the invariant.
LEMMA StartClosedPreserves ==
  ASSUME IInv, NEW o \in Ops, NEW c, NEW r \in {"stopped", "error"},
         start[o] \in {"idle", "prepared"}, start[o] = "prepared" => o \in Timers,
         c = IF o \in Timers THEN "stopped" ELSE "cancelled",
         StartClosed(o, c, r),
         UNCHANGED <<cancel, gone, closed, asyncReady, asyncOpen, pendingWake, uvVars, loopVars,
                     worker>>
  PROVE  IInv'
<1>1. /\ start' = [start EXCEPT ![o] = "returned"] /\ ~Started(o)
      /\ claim' = [claim EXCEPT ![o] = IF Unclaimed(o) THEN c ELSE @]
      /\ result' = [result EXCEPT ![o] = IF Unclaimed(o) THEN r ELSE @]
      /\ UNCHANGED <<queue, inFlight, batch, owes, loop, stopFlag, handle, closing, job>>
  BY DEF IInv, StartClosed, Claim, Complete, TypeOK, ClaimInv, Started, uvVars, loopVars
<1>2. /\ \A l, p : InQ(l, p)' <=> InQ(l, p)
      /\ \A l, p : InB(l, p)' <=> InB(l, p)
      /\ Distinct(queue)' /\ Distinct(batch)'
  BY <1>1 DEF InQ, InB, IInv, ListInv
<1>3. TypeOK'
  BY OpsAssumption, <1>1, <1>2 DEF IInv, TypeOK
<1>4. ListInv'
  BY OpsAssumption, <1>1, <1>2 DEF IInv, ListInv, Listed
<1>5. NodeInv'
  BY OpsAssumption, <1>1, <1>2 DEF IInv, NodeInv, TypeOK, Started, Listed
<1>6. ClaimInv'
  BY OpsAssumption, <1>1, <1>2 DEF IInv, ClaimInv, TypeOK, Ops, Unclaimed
<1>7. HopInv'
  BY OpsAssumption, <1>1, <1>2 DEF IInv, HopInv, NodeInv, TypeOK, Ops, Unclaimed,
     Listed, Started
<1>8. HandleInv'
  BY OpsAssumption, <1>1, <1>2 DEF IInv, HandleInv, NodeInv, TypeOK, Started, Listed
<1>9. CountInv'
  BY OpsAssumption, <1>1, <1>2 DEF IInv, CountInv, NodeInv, TypeOK, Pend, Started, Ops,
     Listed
<1>10. PhaseInv'
  BY OpsAssumption, <1>1, <1>2 DEF IInv, PhaseInv, Drained, TypeOK
<1>11. HandsInv'
  BY OpsAssumption, <1>1, <1>2 DEF IInv, HandsInv, ClaimInv, TypeOK, Started, Alive,
     Unclaimed, Ops, Pend, Listed, NodeInv, Owed
<1> QED
  BY <1>3, <1>4, <1>5, <1>6, <1>7, <1>8, <1>9, <1>10, <1>11 DEF IInv

\* A cancel node keeps the invariant, and so does a loop that takes none.
LEMMA EnqueueCancelPreserves ==
  ASSUME IInv, NEW o \in Timers, EnqueueCancel(o)
  PROVE  IInv'
<1>1. /\ o \in Ops /\ ~Unclaimed(o) /\ ~InQ("cancel", o) /\ ~InB("cancel", o)
      /\ cancel[o] = "enqueue"
  BY DEF IInv, NodeInv, ClaimInv, EnqueueCancel, Listed, Ops
<1>2. /\ \A l, p : InQ(l, p)' <=> InQ(l, p) \/ (~closed /\ l = "cancel" /\ p = o)
      /\ queue' \in Seq(Nodes) /\ Distinct(queue)'
      /\ closed => queue' = queue
  <2>1. CASE closed
    BY <2>1 DEF EnqueueCancel, InQ, IInv, ListInv, TypeOK
  <2>2. CASE ~closed
    BY <1>1, <2>2, PushNode DEF EnqueueCancel, IInv, ListInv, Kinds
  <2> QED
    BY <2>1, <2>2
<1>3. /\ \A l, p : InB(l, p)' <=> InB(l, p)
      /\ Distinct(batch)'
  BY DEF EnqueueCancel, loopVars, InB, IInv, ListInv
<1>4. /\ cancel' = [cancel EXCEPT ![o] = IF closed THEN "done" ELSE "wake"]
      /\ result' = [result EXCEPT ![o] = IF closed /\ claim[o] = "stopped" /\ @ = "none"
                                         THEN "stopped" ELSE @]
      /\ UNCHANGED <<start, claim, gone, closed, asyncReady, asyncOpen, pendingWake, inFlight,
                     worker>>
      /\ UNCHANGED <<handle, closing, job, batch, owes, loop, stopFlag>>
  BY <1>1 DEF EnqueueCancel, Complete, loopVars, uvVars, IInv, TypeOK
<1>5. TypeOK'
  BY OpsAssumption, <1>1, <1>2, <1>3, <1>4 DEF IInv, TypeOK
<1>6. ListInv'
  BY OpsAssumption, <1>1, <1>2, <1>3, <1>4 DEF IInv, ListInv, Listed
<1>7. NodeInv'
  BY OpsAssumption, <1>1, <1>2, <1>3, <1>4 DEF IInv, NodeInv, TypeOK, Started, Listed
<1>8. ClaimInv'
  BY OpsAssumption, <1>1, <1>2, <1>3, <1>4 DEF IInv, ClaimInv, TypeOK, Ops, Unclaimed
<1>9. HopInv'
  BY OpsAssumption, <1>1, <1>2, <1>3, <1>4 DEF IInv, HopInv, NodeInv, TypeOK, Ops,
     Unclaimed, Listed
<1>10. HandleInv'
  BY OpsAssumption, <1>1, <1>2, <1>3, <1>4 DEF IInv, HandleInv, NodeInv, TypeOK,
     Started, Listed
<1>11. CountInv'
  <2>1. Pend' = Pend
    BY <1>2, <1>3, <1>4 DEF Pend, Listed
  <2> QED
    BY <1>2, <1>3, <1>4, <2>1 DEF IInv, CountInv, Started, Listed
<1>12. PhaseInv'
  BY OpsAssumption, <1>1, <1>2, <1>3, <1>4 DEF IInv, PhaseInv, Drained, TypeOK
<1>13. HandsInv'
  BY OpsAssumption, <1>1, <1>2, <1>3, <1>4 DEF IInv, HandsInv, ClaimInv, TypeOK,
     Started, Alive, Unclaimed, Ops, Pend, Listed, Owed
<1> QED
  BY <1>5, <1>6, <1>7, <1>8, <1>9, <1>10, <1>11, <1>12, <1>13 DEF IInv

\* Unlinking a queued hop keeps the invariant.
LEMMA DestroyHopPreserves ==
  ASSUME IInv, NEW o \in Ops, DestroyHop(o)
  PROVE  IInv'
<1>1. PICK i \in 1..Len(queue) : queue[i] = Node("hop", o) /\ queue' = RemoveAt(queue, i)
  BY DEF DestroyHop
<1>2. /\ queue' \in Seq(Nodes) /\ Distinct(queue)' /\ InQ("hop", o)
      /\ \A l, p : InQ(l, p)' <=> InQ(l, p) /\ ~(l = "hop" /\ p = o)
  BY <1>1, UnlinkNode DEF IInv, ListInv, Kinds
<1>3. /\ \A l, p : InB(l, p)' <=> InB(l, p)
      /\ Distinct(batch)'
  BY DEF DestroyHop, loopVars, InB, IInv, ListInv
<1>4. /\ o \in Scheds /\ Started(o)
      /\ claim' = [claim EXCEPT ![o] = "cancelled"]
      /\ gone' = gone \cup {o}
      /\ UNCHANGED <<start, result, cancel, closed, asyncReady, asyncOpen, pendingWake,
                     inFlight, worker>>
      /\ UNCHANGED <<handle, closing, job, batch, owes, loop, stopFlag>>
  BY DEF DestroyHop, GiveUp, Claim, uvVars, loopVars, Started
<1>5. worker \in {"counting"} \cup Drained => FALSE
  BY <1>2, EmptyLists DEF IInv, PhaseInv
<1>6. TypeOK'
  BY OpsAssumption, <1>2, <1>3, <1>4, <1>5 DEF IInv, TypeOK
<1>7. ListInv'
  BY OpsAssumption, <1>2, <1>3, <1>4, <1>5 DEF IInv, ListInv, Listed
<1>8. NodeInv'
  BY OpsAssumption, <1>2, <1>3, <1>4, <1>5 DEF IInv, NodeInv, TypeOK, Started, Listed
<1>9. ClaimInv'
  BY OpsAssumption, <1>2, <1>3, <1>4, <1>5 DEF IInv, ClaimInv, TypeOK, Ops, Unclaimed,
     Started
<1>10. HopInv'
  BY OpsAssumption, <1>2, <1>3, <1>4, <1>5 DEF IInv, HopInv, NodeInv, TypeOK, Ops,
     Unclaimed, Listed
<1>11. HandleInv'
  BY OpsAssumption, <1>2, <1>3, <1>4, <1>5 DEF IInv, HandleInv, NodeInv, TypeOK,
     Started, Listed
<1>12. CountInv'
  <2>1. Pend' = Pend
    BY <1>2, <1>3, <1>4 DEF Pend, Listed
  <2> QED
    BY <1>2, <1>3, <1>4, <2>1 DEF IInv, CountInv, Started, Listed
<1>13. PhaseInv'
  BY OpsAssumption, <1>2, <1>3, <1>4, <1>5 DEF IInv, PhaseInv, Drained, TypeOK
<1>14. HandsInv'
  BY OpsAssumption, <1>2, <1>3, <1>4, <1>5 DEF IInv, HandsInv, ClaimInv, TypeOK,
     Started, Alive, Unclaimed, Ops, Pend, Listed, Owed
<1> QED
  BY <1>6, <1>7, <1>8, <1>9, <1>10, <1>11, <1>12, <1>13, <1>14 DEF IInv

\* Popping the queue keeps the invariant: its hops are claimed.
LEMMA OnAsyncPreserves ==
  ASSUME IInv, OnAsync
  PROVE  IInv'
<1>1. \A k, p : ~InB(k, p)
  BY EmptyLists DEF IInv, ListInv, OnAsync, AtCallbacks
<1>2. /\ \A k, p : InB(k, p)' <=> InQ(k, p)
      /\ \A k, p : ~InQ(k, p)'
      /\ queue' \in Seq(Nodes) /\ batch' \in Seq(Nodes)
      /\ Distinct(queue)' /\ Distinct(batch)'
  <2>1. Range(<<>>) = {} /\ Distinct(<<>>)
    BY DEF Range, Distinct
  <2> QED
    BY <2>1 DEF OnAsync, InQ, InB, IInv, ListInv, TypeOK, Distinct
<1>3. /\ claim' = [p \in Ops |-> IF claim[p] = "queued" /\ InQ("hop", p) THEN "running"
                                                                      ELSE claim[p]]
      /\ loop' = IF queue = <<>> THEN "callbacks" ELSE "batch"
      /\ loop = "callbacks" /\ batch' = queue /\ queue' = <<>> /\ pendingWake' = FALSE
      /\ UNCHANGED <<start, result, cancel, gone, closed, asyncReady, asyncOpen, inFlight,
                     owes, stopFlag, worker>>
      /\ UNCHANGED <<handle, closing, job>>
  BY ContainsIsListed DEF OnAsync, AtCallbacks, uvVars, IInv
<1>4. TypeOK'
  BY OpsAssumption, <1>1, <1>2, <1>3 DEF IInv, TypeOK
<1>5. ListInv'
  BY OpsAssumption, <1>1, <1>2, <1>3 DEF IInv, ListInv, Listed
<1>6. NodeInv'
  BY OpsAssumption, <1>1, <1>2, <1>3 DEF IInv, NodeInv, TypeOK, Started, Listed
<1>7. ClaimInv'
  BY OpsAssumption, <1>1, <1>2, <1>3 DEF IInv, ClaimInv, TypeOK, Ops, Unclaimed,
     NodeInv, Started, Listed
<1>8. HopInv'
  BY OpsAssumption, <1>1, <1>2, <1>3 DEF IInv, HopInv, NodeInv, TypeOK, Ops, Unclaimed,
     Listed, ClaimInv
<1>9. HandleInv'
  BY OpsAssumption, <1>1, <1>2, <1>3 DEF IInv, HandleInv, NodeInv, TypeOK, Started,
     Listed
<1>10. CountInv'
  <2>1. Pend' = Pend
    BY <1>1, <1>2, <1>3 DEF Pend, Listed
  <2> QED
    BY <1>1, <1>2, <1>3, <2>1 DEF IInv, CountInv, Started, Listed
<1>11. PhaseInv'
  BY OpsAssumption, <1>1, <1>2, <1>3 DEF IInv, PhaseInv, Drained, TypeOK
<1>12. HandsInv'
  BY OpsAssumption, <1>1, <1>2, <1>3 DEF IInv, HandsInv, ClaimInv, TypeOK, Started,
     Alive, Unclaimed, Ops, Pend, Listed, NodeInv, Owed
<1> QED
  BY <1>4, <1>5, <1>6, <1>7, <1>8, <1>9, <1>10, <1>11, <1>12 DEF IInv

\* What RunNode does to the lists when the first node is of kind k, for o.
Popped(k, o) ==
  /\ loop = "batch" /\ owes = {} /\ InB(k, o)
  /\ batch' \in Seq(Nodes) /\ Distinct(batch)' /\ Distinct(queue)'
  /\ \A l, p : InB(l, p)' <=> InB(l, p) /\ ~(l = k /\ p = o)
  /\ \A l, p : InQ(l, p)' <=> InQ(l, p)
  /\ loop' = IF batch' = <<>> THEN "callbacks" ELSE "batch"
  /\ UNCHANGED <<start, cancel, gone, queue, closed, asyncReady, asyncOpen, pendingWake,
                 stopFlag, worker>>

\* RunNode runs the first node of the batch and takes it out.
LEMMA RunNodePops ==
  ASSUME IInv, RunNode
  PROVE  \E o \in Ops :
           \/ Popped("hop", o) /\ RunHop(o)
           \/ Popped("init", o) /\ RunInit(o)
           \/ Popped("cancel", o) /\ RunCancel(o)
           \/ Popped("work", o) /\ RunWork(o)
<1> DEFINE n == Head(batch)
<1>1. batch # <<>> /\ batch' = Tail(batch)
  BY DEF RunNode, IInv, ListInv
<1>2. Popped(n.kind, n.op) /\ n.op \in Ops
  BY <1>1, PopNode, NodeFacts DEF RunNode, Popped, IInv, ListInv, queueVars, InQ
<1>3. \/ n.kind = "hop" /\ RunHop(n.op)
      \/ n.kind = "init" /\ RunInit(n.op)
      \/ n.kind = "cancel" /\ RunCancel(n.op)
      \/ n.kind = "work" /\ RunWork(n.op)
  BY DEF RunNode
<1> HIDE DEF n
<1> QED
  BY <1>2, <1>3

\* Running a hop keeps the invariant.
LEMMA RunHopPreserves ==
  ASSUME IInv, NEW o \in Ops, Popped("hop", o), RunHop(o)
  PROVE  IInv'
<1>1. /\ o \in Scheds /\ claim[o] = "running"
      /\ result' = [result EXCEPT ![o] = "value"]
      /\ UNCHANGED <<claim, owes, inFlight, handle, closing, job>>
  BY DEF IInv, HopInv, NodeInv, Listed, Popped, RunHop, Complete, uvVars
<1>2. TypeOK'
  BY OpsAssumption, <1>1 DEF IInv, Popped, TypeOK
<1>3. ListInv'
  BY OpsAssumption, <1>1 DEF IInv, Popped, ListInv, Listed
<1>4. NodeInv'
  BY OpsAssumption, <1>1 DEF IInv, Popped, NodeInv, TypeOK, Started, Listed
<1>5. ClaimInv'
  BY OpsAssumption, <1>1 DEF IInv, Popped, ClaimInv, TypeOK, Ops, Unclaimed
<1>6. HopInv'
  BY OpsAssumption, <1>1 DEF IInv, Popped, HopInv, NodeInv, TypeOK, Ops, Unclaimed,
     Listed
<1>7. HandleInv'
  BY OpsAssumption, <1>1 DEF IInv, Popped, HandleInv, NodeInv, TypeOK, Started, Listed
<1>8. CountInv'
  <2>1. Pend' = Pend
    BY <1>1 DEF Pend, Listed, Popped
  <2> QED
    BY <1>1, <2>1 DEF IInv, CountInv, Started, Listed, Popped
<1>9. PhaseInv'
  BY OpsAssumption, <1>1 DEF IInv, Popped, PhaseInv, Drained, TypeOK
<1>10. HandsInv'
  BY OpsAssumption, <1>1 DEF IInv, Popped, HandsInv, ClaimInv, TypeOK, Started, Alive,
     Unclaimed, Ops, Pend, Listed, Owed
<1> QED
  BY <1>2, <1>3, <1>4, <1>5, <1>6, <1>7, <1>8, <1>9, <1>10 DEF IInv

\* Running an init node keeps the invariant.
LEMMA RunInitPreserves ==
  ASSUME IInv, NEW o \in Ops, Popped("init", o), RunInit(o)
  PROVE  IInv'
<1>1. /\ o \in Timers /\ handle[o] = "none" /\ ~closing[o] /\ Started(o)
      /\ handle' = [handle EXCEPT ![o] = IF Unclaimed(o) THEN "active" ELSE "closing"]
      /\ closing' = [closing EXCEPT ![o] = IF Unclaimed(o) THEN FALSE ELSE TRUE]
      /\ UNCHANGED <<claim, owes, result, inFlight, job>>
  <2>1. o \in Timers /\ handle[o] = "none" /\ ~closing[o] /\ Started(o)
    BY DEF IInv, HandleInv, NodeInv, Listed, Popped
  <2>2. CASE Unclaimed(o)
    BY <2>1, <2>2 DEF RunInit, IInv, TypeOK
  <2>3. CASE ~Unclaimed(o)
    BY <2>1, <2>3 DEF RunInit, CloseOnce, UvClose, IInv, TypeOK
  <2> QED
    BY <2>2, <2>3
<1>2. TypeOK'
  BY OpsAssumption, <1>1 DEF IInv, Popped, TypeOK
<1>3. ListInv'
  BY OpsAssumption, <1>1 DEF IInv, Popped, ListInv, Listed
<1>4. NodeInv'
  BY OpsAssumption, <1>1 DEF IInv, Popped, NodeInv, TypeOK, Started, Listed
<1>5. ClaimInv'
  BY OpsAssumption, <1>1 DEF IInv, Popped, ClaimInv, TypeOK, Ops, Unclaimed
<1>6. HopInv'
  BY OpsAssumption, <1>1 DEF IInv, Popped, HopInv, NodeInv, TypeOK, Ops, Unclaimed,
     Listed
<1>7. HandleInv'
  <2>1. ~Listed("init", o)'
    BY DEF IInv, ListInv, Popped, Listed, Kinds
  <2>2. CASE Unclaimed(o)
    BY <1>1, <2>1, <2>2 DEF IInv, HandleInv, TypeOK, Listed, Popped, Started
  <2>3. CASE ~Unclaimed(o)
    BY <1>1, <2>1, <2>3 DEF IInv, HandleInv, TypeOK, Listed, Popped, Started
  <2> QED
    BY <2>2, <2>3
<1>8. CountInv'
  <2>1. Pend' = Pend
    BY <1>1 DEF Pend, Listed, Popped
  <2> QED
    BY <1>1, <2>1 DEF IInv, CountInv, Started, Listed, Popped
<1>9. PhaseInv'
  BY OpsAssumption, <1>1 DEF IInv, Popped, PhaseInv, Drained, TypeOK
<1>10. HandsInv'
  BY OpsAssumption, <1>1 DEF IInv, Popped, HandsInv, ClaimInv, TypeOK, Started, Alive,
     Unclaimed, Ops, Pend, Listed, Owed
<1> QED
  BY <1>2, <1>3, <1>4, <1>5, <1>6, <1>7, <1>8, <1>9, <1>10 DEF IInv

\* Running a cancel node keeps the invariant, before or after the init node.
LEMMA RunCancelPreserves ==
  ASSUME IInv, NEW o \in Ops, Popped("cancel", o), RunCancel(o)
  PROVE  IInv'
<1>1. /\ o \in Timers /\ ~Unclaimed(o)
      /\ handle' = [handle EXCEPT ![o] = IF @ = "active" THEN "closing" ELSE @]
      /\ closing' = [closing EXCEPT ![o] = IF handle[o] = "none" THEN @ ELSE TRUE]
      /\ result' = [result EXCEPT ![o] = IF claim[o] = "stopped" /\ @ = "none"
                                         THEN "stopped" ELSE @]
      /\ UNCHANGED <<claim, owes, inFlight, job>>
  <2>1. o \in Timers /\ ~Unclaimed(o)
    BY DEF IInv, ClaimInv, NodeInv, Listed, Popped
  <2>2. /\ ~closing[o] => handle[o] \in {"none", "active"}
        /\ closing[o] => handle[o] \in {"closing", "closed"}
    BY <2>1 DEF IInv, HandleInv, Popped
  <2> QED
    BY <2>1, <2>2 DEF RunCancel, CloseOnce, UvClose, Complete, IInv, TypeOK
<1>2. TypeOK'
  BY OpsAssumption, <1>1 DEF IInv, Popped, TypeOK
<1>3. ListInv'
  BY OpsAssumption, <1>1 DEF IInv, Popped, ListInv, Listed
<1>4. NodeInv'
  BY OpsAssumption, <1>1 DEF IInv, Popped, NodeInv, TypeOK, Started, Listed
<1>5. ClaimInv'
  BY OpsAssumption, <1>1 DEF IInv, Popped, ClaimInv, TypeOK, Ops, Unclaimed
<1>6. HopInv'
  BY OpsAssumption, <1>1 DEF IInv, Popped, HopInv, NodeInv, TypeOK, Ops, Unclaimed,
     Listed
<1>7. HandleInv'
  BY OpsAssumption, <1>1 DEF IInv, Popped, HandleInv, NodeInv, TypeOK, Started, Listed
<1>8. CountInv'
  <2>1. Pend' = Pend
    BY <1>1 DEF Pend, Listed, Popped
  <2> QED
    BY <1>1, <2>1 DEF IInv, CountInv, Started, Listed, Popped
<1>9. PhaseInv'
  BY OpsAssumption, <1>1 DEF IInv, Popped, PhaseInv, Drained, TypeOK
<1>10. HandsInv'
  BY OpsAssumption, <1>1 DEF IInv, Popped, HandsInv, ClaimInv, TypeOK, Started, Alive,
     Unclaimed, Ops, Pend, Listed, Owed
<1> QED
  BY <1>2, <1>3, <1>4, <1>5, <1>6, <1>7, <1>8, <1>9, <1>10 DEF IInv

\* Queueing work for the pool, or failing to, keeps the invariant.
LEMMA RunWorkPreserves ==
  ASSUME IInv, NEW o \in Ops, Popped("work", o), RunWork(o)
  PROVE  IInv'
<1>1. o \in Works /\ job[o] = "none" /\ Started(o) /\ ~InQ("work", o) /\ o \in Pend
  BY DEF IInv, ListInv, NodeInv, CountInv, Popped, Listed, Kinds, Pend
<1>2. PICK failed \in BOOLEAN :
        /\ job' = [job EXCEPT ![o] = IF failed THEN @ ELSE "pool"]
        /\ inFlight' = IF failed THEN inFlight - 1 ELSE inFlight
        /\ claim' = [claim EXCEPT ![o] = IF failed /\ Unclaimed(o) THEN "complete" ELSE @]
        /\ owes' = IF failed /\ Unclaimed(o) THEN {[op |-> o, res |-> "error"]} ELSE owes
        /\ owes = {}
        /\ UNCHANGED <<result, handle, closing>>
  <2>1. CASE UNCHANGED inFlight /\ job' = [job EXCEPT ![o] = "pool"]
    BY <1>1, <2>1 DEF RunWork, Popped, IInv, TypeOK, CountInv
  <2>2. CASE UNCHANGED job /\ inFlight' = inFlight - 1
    <3>1. /\ claim' = [claim EXCEPT ![o] = IF Unclaimed(o) THEN "complete" ELSE @]
          /\ owes' = IF Unclaimed(o) THEN {[op |-> o, res |-> "error"]} ELSE owes
          /\ owes = {}
          /\ UNCHANGED <<result, handle, closing>>
      <4>1. CASE Unclaimed(o)
        BY <2>2, <4>1 DEF RunWork, ClaimToComplete, Claim, Popped, IInv, TypeOK
      <4>2. CASE ~Unclaimed(o)
        BY <2>2, <4>2 DEF RunWork, ClaimToComplete, Popped, IInv, TypeOK
      <4> QED
        BY <4>1, <4>2
    <3>2. job' = [job EXCEPT ![o] = @]
      BY <2>2 DEF IInv, TypeOK
    <3> QED
      BY <2>2, <3>1, <3>2
  <2> QED
    BY <2>1, <2>2 DEF RunWork
<1>3. \/ Pend' = Pend /\ inFlight' = inFlight /\ job' = [job EXCEPT ![o] = "pool"]
      \/ Pend' = Pend \ {o} /\ inFlight' = inFlight - 1 /\ job' = job
  BY <1>1, <1>2 DEF Pend, Listed, Popped, IInv, TypeOK
<1>4. TypeOK'
  <2>1. inFlight' \in Int
    BY <1>2 DEF IInv, TypeOK
  <2>2. /\ claim' \in [Ops -> {"queued", "running", "pending", "value", "stopped", "complete",
                           "cancelled"}]
        /\ owes' \subseteq [op : Ops, res : {"value", "stopped", "error"}]
    BY <1>2 DEF IInv, TypeOK
  <2>3. job' \in [Works -> {"none", "pool", "after", "over"}]
    BY <1>1, <1>2 DEF IInv, TypeOK
  <2> QED
    BY <1>2, <2>1, <2>2, <2>3 DEF IInv, TypeOK, Popped
<1>5. ListInv'
  BY OpsAssumption, <1>1, <1>2 DEF IInv, Popped, ListInv, Listed
<1>6. NodeInv'
  BY OpsAssumption, <1>1, <1>2 DEF IInv, Popped, NodeInv, TypeOK, Started, Listed
<1>7. ClaimInv'
  BY OpsAssumption, <1>1, <1>2 DEF IInv, Popped, ClaimInv, TypeOK, Ops, Unclaimed,
     Started
<1>8. HopInv'
  BY OpsAssumption, <1>1, <1>2 DEF IInv, Popped, HopInv, NodeInv, TypeOK, Ops,
     Unclaimed, Listed
<1>9. HandleInv'
  BY OpsAssumption, <1>1, <1>2 DEF IInv, Popped, HandleInv, NodeInv, TypeOK, Started,
     Listed
<1>10. CountInv'
  <2>1. IsFiniteSet(Pend') /\ inFlight' = Cardinality(Pend')
    BY <1>1, <1>3, FS_RemoveElement DEF IInv, CountInv
  <2> QED
    BY <1>1, <1>3, <2>1 DEF IInv, CountInv, TypeOK, Started, Listed, Popped
<1>11. PhaseInv'
  <2>1. inFlight # 0
    BY <1>1, FS_EmptySet DEF IInv, CountInv
  <2> QED
    BY <1>2, <2>1 DEF IInv, PhaseInv, Popped
<1>12. HandsInv'
  BY OpsAssumption, <1>1, <1>2 DEF IInv, Popped, HandsInv, ClaimInv, TypeOK, Started,
     Alive, Unclaimed, Ops, Pend, Listed, Owed
<1> QED
  BY <1>4, <1>5, <1>6, <1>7, <1>8, <1>9, <1>10, <1>11, <1>12 DEF IInv

\* after_work keeps the invariant.
LEMMA AfterWorkPreserves ==
  ASSUME IInv, NEW o \in Works, AfterWork(o)
  PROVE  IInv'
<1>1. PICK r \in {"value", "error"} :
        /\ o \in Ops /\ job[o] = "after" /\ job' = [job EXCEPT ![o] = "over"]
        /\ inFlight' = inFlight - 1
        /\ claim' = [claim EXCEPT ![o] = IF Unclaimed(o) THEN "complete" ELSE @]
        /\ owes = {} /\ owes' = IF Unclaimed(o) THEN {[op |-> o, res |-> r]} ELSE owes
        /\ UNCHANGED <<start, result, cancel, gone, queue, closed, asyncReady, asyncOpen,
                       pendingWake, handle, closing, batch, loop, stopFlag, worker>>
  BY DEF AfterWork, LoopRuns, ClaimToComplete, Claim, IInv, TypeOK, Ops, queueVars
<1>2. /\ \A l, p : InQ(l, p)' <=> InQ(l, p)
      /\ \A l, p : InB(l, p)' <=> InB(l, p)
      /\ Distinct(queue)' /\ Distinct(batch)'
  BY <1>1 DEF InQ, InB, IInv, ListInv
<1>3. o \in Pend /\ Started(o) /\ Pend' = Pend \ {o}
  BY <1>1, <1>2 DEF Pend, Listed, IInv, TypeOK, CountInv
<1>4. TypeOK'
  BY OpsAssumption, <1>1, <1>2, <1>3 DEF IInv, TypeOK
<1>5. ListInv'
  BY OpsAssumption, <1>1, <1>2, <1>3 DEF IInv, ListInv, Listed
<1>6. NodeInv'
  BY OpsAssumption, <1>1, <1>2, <1>3 DEF IInv, NodeInv, TypeOK, Started, Listed
<1>7. ClaimInv'
  BY OpsAssumption, <1>1, <1>2, <1>3 DEF IInv, ClaimInv, TypeOK, Ops, Unclaimed, Started
<1>8. HopInv'
  BY OpsAssumption, <1>1, <1>2, <1>3 DEF IInv, HopInv, NodeInv, TypeOK, Ops, Unclaimed,
     Listed
<1>9. HandleInv'
  BY OpsAssumption, <1>1, <1>2, <1>3 DEF IInv, HandleInv, NodeInv, TypeOK, Started,
     Listed
<1>10. CountInv'
  <2>1. IsFiniteSet(Pend') /\ inFlight' = Cardinality(Pend')
    BY <1>1, <1>3, FS_RemoveElement DEF IInv, CountInv
  <2> QED
    BY <1>1, <1>2, <2>1 DEF IInv, CountInv, TypeOK, Started, Listed
<1>11. PhaseInv'
  <2>1. inFlight # 0
    BY <1>3, FS_EmptySet DEF IInv, CountInv
  <2> QED
    BY <1>1, <2>1 DEF IInv, PhaseInv
<1>12. HandsInv'
  BY OpsAssumption, <1>1, <1>2, <1>3 DEF IInv, HandsInv, ClaimInv, TypeOK, Started,
     Alive, Unclaimed, Ops, Pend, Listed, Owed
<1> QED
  BY <1>4, <1>5, <1>6, <1>7, <1>8, <1>9, <1>10, <1>11, <1>12 DEF IInv

\* Making a TimerState keeps the invariant.
LEMMA PrepareTimerPreserves ==
  ASSUME IInv, NEW o \in Ops, PrepareTimer(o)
  PROVE  IInv'
<1>1. TypeOK'
  BY OpsAssumption DEF IInv, PrepareTimer, queueVars, uvVars, loopVars, TypeOK
<1>2. ListInv'
  BY OpsAssumption DEF IInv, PrepareTimer, queueVars, uvVars, loopVars, ListInv, InQ,
     InB, Listed
<1>3. NodeInv'
  BY OpsAssumption DEF IInv, PrepareTimer, queueVars, uvVars, loopVars, NodeInv, TypeOK,
     Started, InQ, InB, Listed
<1>4. ClaimInv'
  BY OpsAssumption DEF IInv, PrepareTimer, queueVars, uvVars, loopVars, ClaimInv,
     TypeOK, Ops, Unclaimed
<1>5. HopInv'
  BY OpsAssumption DEF IInv, PrepareTimer, queueVars, uvVars, loopVars, HopInv, NodeInv,
     TypeOK, Ops, Unclaimed, InQ, InB, Listed
<1>6. HandleInv'
  BY OpsAssumption DEF IInv, PrepareTimer, queueVars, uvVars, loopVars, HandleInv,
     NodeInv, TypeOK, Started, InQ, InB, Listed
<1>7. CountInv'
  BY OpsAssumption DEF IInv, PrepareTimer, queueVars, uvVars, loopVars, CountInv,
     NodeInv, TypeOK, Pend, Started, Ops, InQ, InB, Listed
<1>8. PhaseInv'
  BY OpsAssumption DEF IInv, PrepareTimer, queueVars, uvVars, loopVars, PhaseInv,
     Drained, TypeOK
<1>9. HandsInv'
  BY OpsAssumption DEF IInv, PrepareTimer, queueVars, uvVars, loopVars, HandsInv,
     ClaimInv, TypeOK, Started, Alive, Unclaimed, Ops, Pend, InQ, InB, Listed, Owed
<1> QED
  BY <1>1, <1>2, <1>3, <1>4, <1>5, <1>6, <1>7, <1>8, <1>9 DEF IInv

\* The wake-up at the end of start() keeps the invariant.
LEMMA StartWakePreserves ==
  ASSUME IInv, NEW o \in Ops, StartWake(o)
  PROVE  IInv'
<1>1. TypeOK'
  BY OpsAssumption DEF IInv, StartWake, Wake, uvVars, loopVars, TypeOK
<1>2. ListInv'
  BY OpsAssumption DEF IInv, StartWake, Wake, uvVars, loopVars, ListInv, InQ, InB,
     Listed
<1>3. NodeInv'
  BY OpsAssumption DEF IInv, StartWake, Wake, uvVars, loopVars, NodeInv, TypeOK,
     Started, InQ, InB, Listed
<1>4. ClaimInv'
  BY OpsAssumption DEF IInv, StartWake, Wake, uvVars, loopVars, ClaimInv, TypeOK, Ops,
     Unclaimed
<1>5. HopInv'
  BY OpsAssumption DEF IInv, StartWake, Wake, uvVars, loopVars, HopInv, NodeInv, TypeOK,
     Ops, Unclaimed, InQ, InB, Listed
<1>6. HandleInv'
  BY OpsAssumption DEF IInv, StartWake, Wake, uvVars, loopVars, HandleInv, NodeInv,
     TypeOK, Started, InQ, InB, Listed
<1>7. CountInv'
  BY OpsAssumption DEF IInv, StartWake, Wake, uvVars, loopVars, CountInv, NodeInv,
     TypeOK, Pend, Started, Ops, InQ, InB, Listed
<1>8. PhaseInv'
  BY OpsAssumption DEF IInv, StartWake, Wake, uvVars, loopVars, PhaseInv, Drained,
     TypeOK
<1>9. HandsInv'
  BY OpsAssumption DEF IInv, StartWake, Wake, uvVars, loopVars, HandsInv, ClaimInv,
     TypeOK, Started, Alive, Unclaimed, Ops, Pend, InQ, InB, Listed, Owed
<1> QED
  BY <1>1, <1>2, <1>3, <1>4, <1>5, <1>6, <1>7, <1>8, <1>9 DEF IInv

\* A stop request keeps the invariant: the timer passes to enqueue_cancel.
LEMMA OnStopPreserves ==
  ASSUME IInv, NEW o \in Ops, OnStop(o)
  PROVE  IInv'
<1>1. TypeOK'
  BY OpsAssumption DEF IInv, OnStop, Claim, queueVars, uvVars, loopVars, TypeOK
<1>2. ListInv'
  BY OpsAssumption DEF IInv, OnStop, Claim, queueVars, uvVars, loopVars, ListInv, InQ,
     InB, Listed
<1>3. NodeInv'
  BY OpsAssumption DEF IInv, OnStop, Claim, queueVars, uvVars, loopVars, NodeInv,
     TypeOK, Started, InQ, InB, Listed, ClaimInv, Unclaimed
<1>4. ClaimInv'
  BY OpsAssumption DEF IInv, OnStop, Claim, queueVars, uvVars, loopVars, ClaimInv,
     TypeOK, Ops, Unclaimed
<1>5. HopInv'
  BY OpsAssumption DEF IInv, OnStop, Claim, queueVars, uvVars, loopVars, HopInv,
     NodeInv, TypeOK, Ops, Unclaimed, InQ, InB, Listed
<1>6. HandleInv'
  BY OpsAssumption DEF IInv, OnStop, Claim, queueVars, uvVars, loopVars, HandleInv,
     NodeInv, TypeOK, Started, InQ, InB, Listed
<1>7. CountInv'
  BY OpsAssumption DEF IInv, OnStop, Claim, queueVars, uvVars, loopVars, CountInv,
     NodeInv, TypeOK, Pend, Started, Ops, InQ, InB, Listed
<1>8. PhaseInv'
  BY OpsAssumption DEF IInv, OnStop, Claim, queueVars, uvVars, loopVars, PhaseInv,
     Drained, TypeOK
<1>9. HandsInv'
  BY OpsAssumption DEF IInv, OnStop, Claim, queueVars, uvVars, loopVars, HandsInv,
     ClaimInv, TypeOK, Started, Alive, Unclaimed, Ops, Pend, InQ, InB, Listed, Owed
<1> QED
  BY <1>1, <1>2, <1>3, <1>4, <1>5, <1>6, <1>7, <1>8, <1>9 DEF IInv

\* Destroying a timer keeps the invariant, whether its destructor wins the claim
\* or not.
LEMMA DestroyTimerPreserves ==
  ASSUME IInv, NEW o \in Ops, DestroyTimer(o)
  PROVE  IInv'
<1>1. /\ o \in Timers /\ Started(o) /\ gone' = gone \cup {o}
      /\ claim' = [claim EXCEPT ![o] = IF Unclaimed(o) THEN "cancelled" ELSE @]
      /\ cancel' = [cancel EXCEPT ![o] = IF Unclaimed(o) THEN "enqueue" ELSE @]
      /\ Unclaimed(o) => cancel[o] = "no"
      /\ UNCHANGED <<start, result, queue, closed, asyncReady, asyncOpen, pendingWake, inFlight,
                     handle, closing, job, batch, owes, loop, stopFlag, worker>>
  BY DEF IInv, ClaimInv, TypeOK, DestroyTimer, GiveUp, Claim, Started, queueVars, uvVars, loopVars
<1>2. /\ \A l, p : InQ(l, p)' <=> InQ(l, p)
      /\ \A l, p : InB(l, p)' <=> InB(l, p)
      /\ \A p : Owed(p)' <=> Owed(p)
      /\ Distinct(queue)' /\ Distinct(batch)'
  BY <1>1 DEF InQ, InB, Owed, IInv, ListInv
<1>3. TypeOK'
  BY <1>1 DEF IInv, TypeOK
<1>4. ListInv'
  BY <1>1, <1>2 DEF IInv, ListInv
<1>5. NodeInv'
  BY <1>1, <1>2 DEF IInv, NodeInv, TypeOK, Started, Listed
<1>6. ClaimInv'
  BY OpsAssumption, <1>1 DEF IInv, ClaimInv, TypeOK, Ops, Unclaimed, Started
<1>7. HopInv'
  BY OpsAssumption, <1>1, <1>2 DEF IInv, HopInv, TypeOK
<1>8. HandleInv'
  BY <1>1, <1>2 DEF IInv, HandleInv, Started, Listed
<1>9. CountInv'
  BY <1>1, <1>2 DEF IInv, CountInv, Pend, Started, Listed
<1>10. PhaseInv'
  BY <1>1 DEF IInv, PhaseInv, Drained
<1>11. HandsInv'
  BY OpsAssumption, <1>1, <1>2 DEF IInv, HandsInv, TypeOK, Started, Alive, Unclaimed, Ops, Pend,
     Listed
<1> QED
  BY <1>3, <1>4, <1>5, <1>6, <1>7, <1>8, <1>9, <1>10, <1>11 DEF IInv

\* The wake-up of enqueue_cancel keeps the invariant.
LEMMA CancelWakePreserves ==
  ASSUME IInv, NEW o \in Ops, CancelWake(o)
  PROVE  IInv'
<1>1. TypeOK'
  BY OpsAssumption DEF IInv, CancelWake, Wake, opVars, uvVars, loopVars, TypeOK
<1>2. ListInv'
  BY OpsAssumption DEF IInv, CancelWake, Wake, opVars, uvVars, loopVars, ListInv, InQ,
     InB, Listed
<1>3. NodeInv'
  BY OpsAssumption DEF IInv, CancelWake, Wake, opVars, uvVars, loopVars, NodeInv,
     TypeOK, Started, InQ, InB, Listed
<1>4. ClaimInv'
  BY OpsAssumption DEF IInv, CancelWake, Wake, opVars, uvVars, loopVars, ClaimInv,
     TypeOK, Ops, Unclaimed
<1>5. HopInv'
  BY OpsAssumption DEF IInv, CancelWake, Wake, opVars, uvVars, loopVars, HopInv,
     NodeInv, TypeOK, Ops, Unclaimed, InQ, InB, Listed
<1>6. HandleInv'
  BY OpsAssumption DEF IInv, CancelWake, Wake, opVars, uvVars, loopVars, HandleInv,
     NodeInv, TypeOK, Started, InQ, InB, Listed
<1>7. CountInv'
  BY OpsAssumption DEF IInv, CancelWake, Wake, opVars, uvVars, loopVars, CountInv,
     NodeInv, TypeOK, Pend, Started, Ops, InQ, InB, Listed
<1>8. PhaseInv'
  BY OpsAssumption DEF IInv, CancelWake, Wake, opVars, uvVars, loopVars, PhaseInv,
     Drained, TypeOK
<1>9. HandsInv'
  BY OpsAssumption DEF IInv, CancelWake, Wake, opVars, uvVars, loopVars, HandsInv,
     ClaimInv, TypeOK, Started, Alive, Unclaimed, Ops, Pend, InQ, InB, Listed, Owed
<1> QED
  BY <1>1, <1>2, <1>3, <1>4, <1>5, <1>6, <1>7, <1>8, <1>9 DEF IInv

\* Destroying work keeps the invariant, likewise.
LEMMA DestroyWorkPreserves ==
  ASSUME IInv, NEW o \in Ops, DestroyWork(o)
  PROVE  IInv'
<1>1. /\ o \in Works /\ Started(o) /\ gone' = gone \cup {o}
      /\ claim' = [claim EXCEPT ![o] = IF Unclaimed(o) THEN "cancelled" ELSE @]
      /\ UNCHANGED <<start, result, cancel, queue, closed, asyncReady, asyncOpen, pendingWake,
                     inFlight, handle, closing, job, batch, owes, loop, stopFlag, worker>>
  BY DEF IInv, TypeOK, DestroyWork, GiveUp, Claim, Started, queueVars, uvVars, loopVars
<1>2. /\ \A l, p : InQ(l, p)' <=> InQ(l, p)
      /\ \A l, p : InB(l, p)' <=> InB(l, p)
      /\ \A p : Owed(p)' <=> Owed(p)
      /\ Distinct(queue)' /\ Distinct(batch)'
  BY <1>1 DEF InQ, InB, Owed, IInv, ListInv
<1>3. TypeOK'
  BY <1>1 DEF IInv, TypeOK
<1>4. ListInv'
  BY <1>1, <1>2 DEF IInv, ListInv
<1>5. NodeInv'
  BY <1>1, <1>2 DEF IInv, NodeInv, TypeOK, Started, Listed
<1>6. ClaimInv'
  BY OpsAssumption, <1>1 DEF IInv, ClaimInv, TypeOK, Ops, Unclaimed, Started
<1>7. HopInv'
  BY OpsAssumption, <1>1, <1>2 DEF IInv, HopInv, TypeOK
<1>8. HandleInv'
  BY <1>1, <1>2 DEF IInv, HandleInv, Started, Listed
<1>9. CountInv'
  BY <1>1, <1>2 DEF IInv, CountInv, Pend, Started, Listed
<1>10. PhaseInv'
  BY <1>1 DEF IInv, PhaseInv, Drained
<1>11. HandsInv'
  BY OpsAssumption, <1>1, <1>2 DEF IInv, HandsInv, TypeOK, Started, Alive, Unclaimed, Ops, Pend,
     Listed
<1> QED
  BY <1>3, <1>4, <1>5, <1>6, <1>7, <1>8, <1>9, <1>10, <1>11 DEF IInv

\* A timer that fires keeps the invariant: its handle was open, and is closing.
LEMMA OnTimerPreserves ==
  ASSUME IInv, NEW o \in Timers, OnTimer(o)
  PROVE  IInv'
<1>1. handle[o] = "active" /\ ~closing[o] /\ Started(o)
  BY DEF IInv, OnTimer, AtCallbacks, HandleInv
<1>2. /\ closing' = [closing EXCEPT ![o] = TRUE]
      /\ handle' = [handle EXCEPT ![o] = "closing"]
  BY <1>1 DEF OnTimer, CloseOnce, UvClose
<1>3. /\ o \in Ops
      /\ claim' = [claim EXCEPT ![o] = IF Unclaimed(o) THEN "value" ELSE @]
      /\ owes' = IF Unclaimed(o) THEN {[op |-> o, res |-> "value"]} ELSE owes
      /\ loop = "callbacks" /\ owes = {}
      /\ UNCHANGED <<start, result, cancel, gone, queueVars, inFlight, job, batch, loop, stopFlag,
                     worker>>
  BY DEF IInv, OnTimer, AtCallbacks, ClaimToComplete, Claim, TypeOK, Ops
<1>4. TypeOK'
  BY OpsAssumption, <1>1, <1>2, <1>3 DEF IInv, queueVars, loopVars, TypeOK
<1>5. ListInv'
  BY OpsAssumption, <1>1, <1>2, <1>3 DEF IInv, queueVars, loopVars, ListInv, InQ, InB,
     Listed
<1>6. NodeInv'
  BY OpsAssumption, <1>1, <1>2, <1>3 DEF IInv, queueVars, loopVars, NodeInv, TypeOK,
     Started, InQ, InB, Listed
<1>7. ClaimInv'
  BY OpsAssumption, <1>1, <1>2, <1>3 DEF IInv, queueVars, loopVars, ClaimInv, TypeOK,
     Ops, Unclaimed, Started
<1>8. HopInv'
  BY OpsAssumption, <1>1, <1>2, <1>3 DEF IInv, queueVars, loopVars, HopInv, NodeInv,
     TypeOK, Ops, Unclaimed, InQ, InB, Listed
<1>9. HandleInv'
  BY OpsAssumption, <1>1, <1>2, <1>3 DEF IInv, queueVars, loopVars, HandleInv, NodeInv,
     TypeOK, Started, InQ, InB, Listed
<1>10. CountInv'
  BY OpsAssumption, <1>1, <1>2, <1>3 DEF IInv, queueVars, loopVars, CountInv, NodeInv,
     TypeOK, Pend, Started, Ops, InQ, InB, Listed
<1>11. PhaseInv'
  BY OpsAssumption, <1>1, <1>2, <1>3 DEF IInv, queueVars, loopVars, PhaseInv, Drained,
     TypeOK
<1>12. HandsInv'
  BY OpsAssumption, <1>1, <1>2, <1>3 DEF IInv, queueVars, loopVars, HandsInv, ClaimInv,
     TypeOK, Started, Alive, Unclaimed, Ops, Pend, InQ, InB, Listed, Owed
<1> QED
  BY <1>4, <1>5, <1>6, <1>7, <1>8, <1>9, <1>10, <1>11, <1>12 DEF IInv

\* A close callback keeps the invariant.
LEMMA OnClosePreserves ==
  ASSUME IInv, NEW o \in Timers, OnClose(o)
  PROVE  IInv'
<1>1. handle[o] = "closing" /\ Started(o)
  BY DEF IInv, OnClose, HandleInv
<1>2. /\ o \in Ops
      /\ claim' = [claim EXCEPT ![o] = IF Unclaimed(o) THEN "stopped" ELSE @]
      /\ owes = {} /\ owes' = IF Unclaimed(o) THEN {[op |-> o, res |-> "stopped"]} ELSE owes
      /\ handle' = [handle EXCEPT ![o] = "closed"]
      /\ UNCHANGED <<start, result, cancel, gone, queueVars, inFlight, closing, job, batch, loop,
                     stopFlag, worker>>
  BY DEF IInv, OnClose, LoopRuns, ClaimToComplete, Claim, TypeOK, Ops
<1>3. TypeOK'
  BY OpsAssumption, <1>1, <1>2 DEF IInv, queueVars, loopVars, TypeOK
<1>4. ListInv'
  BY OpsAssumption, <1>1, <1>2 DEF IInv, queueVars, loopVars, ListInv, InQ, InB, Listed
<1>5. NodeInv'
  BY OpsAssumption, <1>1, <1>2 DEF IInv, queueVars, loopVars, NodeInv, TypeOK, Started,
     InQ, InB, Listed
<1>6. ClaimInv'
  BY OpsAssumption, <1>1, <1>2 DEF IInv, queueVars, loopVars, ClaimInv, TypeOK, Ops,
     Unclaimed, Started
<1>7. HopInv'
  BY OpsAssumption, <1>1, <1>2 DEF IInv, queueVars, loopVars, HopInv, NodeInv, TypeOK,
     Ops, Unclaimed, InQ, InB, Listed
<1>8. HandleInv'
  BY OpsAssumption, <1>1, <1>2 DEF IInv, queueVars, loopVars, HandleInv, NodeInv,
     TypeOK, Started, InQ, InB, Listed
<1>9. CountInv'
  BY OpsAssumption, <1>1, <1>2 DEF IInv, queueVars, loopVars, CountInv, NodeInv, TypeOK,
     Pend, Started, Ops, InQ, InB, Listed
<1>10. PhaseInv'
  BY OpsAssumption, <1>1, <1>2 DEF IInv, queueVars, loopVars, PhaseInv, Drained, TypeOK
<1>11. HandsInv'
  <2>1. \A p \in Timers : claim'[p] = "stopped" /\ result[p] = "none" =>
          cancel[p] = "enqueue" \/ Listed("cancel", p) \/ Owed(p)'
    <3>1. SUFFICES ASSUME NEW p \in Timers, claim'[p] = "stopped", result[p] = "none"
                   PROVE  cancel[p] = "enqueue" \/ Listed("cancel", p) \/ Owed(p)'
      OBVIOUS
    <3>2. CASE p = o /\ Unclaimed(o)
      <4>1. [op |-> o, res |-> "stopped"] \in owes' /\ [op |-> o, res |-> "stopped"].op = p
        BY <1>2, <3>2
      <4> QED
        BY <4>1 DEF Owed
    <3>3. CASE ~(p = o /\ Unclaimed(o))
      <4>1. claim[p] = "stopped"
        BY <1>2, <3>1, <3>3 DEF IInv, TypeOK, Unclaimed, Ops
      <4>2. ~Owed(p)
        BY <1>2 DEF Owed
      <4> QED
        BY <4>1, <4>2, <3>1 DEF IInv, HandsInv
    <3> QED
      BY <3>2, <3>3
  <2>2. \A p \in Ops : Unclaimed(p)' => Unclaimed(p)
    BY <1>2 DEF IInv, TypeOK, Unclaimed, Ops
  <2>3. \A p \in Scheds : Started(p)' /\ Alive(p)' => Listed("hop", p)'
    BY <1>2 DEF IInv, HandsInv, Started, Alive, queueVars, Listed, InQ, InB
  <2>4. \A p \in Works : Started(p)' /\ Unclaimed(p)' => (p \in Pend)'
    BY <1>2, <2>2 DEF IInv, HandsInv, Started, Ops, queueVars, Pend, Listed, InQ, InB
  <2>5. \A p \in Timers : Started(p)' /\ Unclaimed(p)' =>
          Listed("init", p)' \/ handle'[p] \in {"active", "closing"}
    <3>1. ~Unclaimed(o)'
      BY <1>2 DEF IInv, TypeOK, Unclaimed
    <3> QED
      BY <1>2, <2>2, <3>1 DEF IInv, TypeOK, HandsInv, Started, Ops, queueVars, Listed, InQ, InB
  <2> QED
    BY <1>2, <2>1, <2>3, <2>4, <2>5 DEF HandsInv, queueVars, Listed, InQ, InB
<1> QED
  BY <1>3, <1>4, <1>5, <1>6, <1>7, <1>8, <1>9, <1>10, <1>11 DEF IInv

\* Delivering what was owed keeps the invariant.
LEMMA LoopCompletesPreserves ==
  ASSUME IInv, OwnerInv, LoopCompletes
  PROVE  IInv'
<1>1. PICK c \in owes :
        /\ Complete(c.op, c.res) /\ owes' = owes \ {c}
        /\ UNCHANGED <<start, claim, cancel, gone, queueVars, inFlight, uvVars, batch, loop, stopFlag,
                       worker>>
  BY DEF LoopCompletes
<1>2. /\ c.op \in Ops /\ c.res \in {"value", "stopped", "error"}
      /\ result[c.op] = "none" /\ claim[c.op] \in {"value", "stopped", "complete"}
      /\ result' = [result EXCEPT ![c.op] = c.res]
  BY <1>1 DEF IInv, TypeOK, OwnerInv, OwesInv, Complete
<1>3. \A o : Owed(o) => Owed(o)' \/ o = c.op
  BY <1>1 DEF Owed
<1>4. TypeOK' /\ ListInv' /\ NodeInv'
  BY <1>1, <1>2 DEF IInv, queueVars, uvVars, TypeOK, ListInv, NodeInv, InQ, InB, Listed, Started
<1>5. ClaimInv'
  BY <1>1, <1>2 DEF IInv, ClaimInv, TypeOK, Unclaimed
<1>6. HopInv'
  BY <1>1, <1>2 DEF IInv, HopInv, ClaimInv, TypeOK, queueVars, InQ, InB
<1>7. HandleInv' /\ PhaseInv'
  BY <1>1 DEF IInv, queueVars, uvVars, HandleInv, PhaseInv, Drained, InQ, InB, Listed, Started
<1>8. CountInv'
  BY <1>1 DEF IInv, queueVars, uvVars, CountInv, Pend, InQ, InB, Listed, Started
<1>9. HandsInv'
  <2>1. \A o \in Ops : result'[o] = "none" => result[o] = "none" /\ o # c.op
    BY <1>2 DEF IInv, TypeOK
  <2>2. Timers \subseteq Ops /\ Scheds \subseteq Ops
    BY DEF Ops
  <2> QED
    BY <1>1, <1>3, <2>1, <2>2 DEF IInv, HandsInv, queueVars, uvVars, Alive, Unclaimed, Pend, InQ, InB,
       Listed, Started
<1> QED
  BY <1>4, <1>5, <1>6, <1>7, <1>8, <1>9 DEF IInv

\* A job that ran in the pool keeps the invariant: it is still counted.
LEMMA OnWorkPreserves ==
  ASSUME IInv, NEW o \in Works, OnWork(o)
  PROVE  IInv'
<1>1. TypeOK'
  BY OpsAssumption DEF IInv, OnWork, opVars, queueVars, loopVars, TypeOK
<1>2. ListInv'
  BY OpsAssumption DEF IInv, OnWork, opVars, queueVars, loopVars, ListInv, InQ, InB,
     Listed
<1>3. NodeInv'
  BY OpsAssumption DEF IInv, OnWork, opVars, queueVars, loopVars, NodeInv, TypeOK,
     Started, InQ, InB, Listed
<1>4. ClaimInv'
  BY OpsAssumption DEF IInv, OnWork, opVars, queueVars, loopVars, ClaimInv, TypeOK, Ops,
     Unclaimed
<1>5. HopInv'
  BY OpsAssumption DEF IInv, OnWork, opVars, queueVars, loopVars, HopInv, NodeInv,
     TypeOK, Ops, Unclaimed, InQ, InB, Listed
<1>6. HandleInv'
  BY OpsAssumption DEF IInv, OnWork, opVars, queueVars, loopVars, HandleInv, NodeInv,
     TypeOK, Started, InQ, InB, Listed
<1>7. CountInv'
  <2>1. Pend' = Pend
    BY DEF IInv, OnWork, loopVars, queueVars, TypeOK, Pend, Listed, InQ, InB
  <2> QED
    BY <2>1 DEF IInv, OnWork, opVars, loopVars, queueVars, TypeOK, CountInv, Started,
       Listed, InQ, InB
<1>8. PhaseInv'
  BY OpsAssumption DEF IInv, OnWork, opVars, queueVars, loopVars, PhaseInv, Drained,
     TypeOK
<1>9. HandsInv'
  BY OpsAssumption DEF IInv, OnWork, opVars, queueVars, loopVars, HandsInv, ClaimInv,
     TypeOK, Started, Alive, Unclaimed, Ops, Pend, InQ, InB, Listed, Owed
<1> QED
  BY <1>1, <1>2, <1>3, <1>4, <1>5, <1>6, <1>7, <1>8, <1>9 DEF IInv

\* Blocking in the poll keeps the invariant.
LEMMA SleepPreserves ==
  ASSUME IInv, Sleep
  PROVE  IInv'
<1>1. TypeOK'
  BY OpsAssumption DEF IInv, Sleep, AtCallbacks, opVars, queueVars, uvVars, TypeOK
<1>2. ListInv'
  BY OpsAssumption DEF IInv, Sleep, AtCallbacks, opVars, queueVars, uvVars, ListInv, InQ, InB, Listed
<1>3. NodeInv'
  BY OpsAssumption DEF IInv, Sleep, AtCallbacks, opVars, queueVars, uvVars, NodeInv, TypeOK, Started,
     InQ, InB, Listed
<1>4. ClaimInv'
  BY OpsAssumption DEF IInv, Sleep, AtCallbacks, opVars, queueVars, uvVars, ClaimInv, TypeOK, Ops,
     Unclaimed
<1>5. HopInv'
  BY OpsAssumption DEF IInv, Sleep, AtCallbacks, opVars, queueVars, uvVars, HopInv, NodeInv, TypeOK,
     Ops, Unclaimed, InQ, InB, Listed
<1>6. HandleInv'
  BY OpsAssumption DEF IInv, Sleep, AtCallbacks, opVars, queueVars, uvVars, HandleInv, NodeInv,
     TypeOK, Started, InQ, InB, Listed
<1>7. CountInv'
  BY OpsAssumption DEF IInv, Sleep, AtCallbacks, opVars, queueVars, uvVars, CountInv, NodeInv,
     TypeOK, Pend, Started, Ops, InQ, InB, Listed
<1>8. PhaseInv'
  BY OpsAssumption DEF IInv, Sleep, AtCallbacks, opVars, queueVars, uvVars, PhaseInv, Drained, TypeOK
<1>9. HandsInv'
  BY OpsAssumption DEF IInv, Sleep, AtCallbacks, opVars, queueVars, uvVars, HandsInv, ClaimInv,
     TypeOK, Started, Alive, Unclaimed, Ops, Pend, InQ, InB, Listed, Owed
<1> QED
  BY <1>1, <1>2, <1>3, <1>4, <1>5, <1>6, <1>7, <1>8, <1>9 DEF IInv

\* Waking up keeps the invariant.
LEMMA AwakePreserves ==
  ASSUME IInv, Awake
  PROVE  IInv'
<1>1. TypeOK'
  BY OpsAssumption DEF IInv, Awake, opVars, queueVars, uvVars, TypeOK
<1>2. ListInv'
  BY OpsAssumption DEF IInv, Awake, opVars, queueVars, uvVars, ListInv, InQ, InB, Listed
<1>3. NodeInv'
  BY OpsAssumption DEF IInv, Awake, opVars, queueVars, uvVars, NodeInv, TypeOK, Started,
     InQ, InB, Listed
<1>4. ClaimInv'
  BY OpsAssumption DEF IInv, Awake, opVars, queueVars, uvVars, ClaimInv, TypeOK, Ops,
     Unclaimed
<1>5. HopInv'
  BY OpsAssumption DEF IInv, Awake, opVars, queueVars, uvVars, HopInv, NodeInv, TypeOK,
     Ops, Unclaimed, InQ, InB, Listed
<1>6. HandleInv'
  BY OpsAssumption DEF IInv, Awake, opVars, queueVars, uvVars, HandleInv, NodeInv,
     TypeOK, Started, InQ, InB, Listed
<1>7. CountInv'
  BY OpsAssumption DEF IInv, Awake, opVars, queueVars, uvVars, CountInv, NodeInv,
     TypeOK, Pend, Started, Ops, InQ, InB, Listed
<1>8. PhaseInv'
  BY OpsAssumption DEF IInv, Awake, opVars, queueVars, uvVars, PhaseInv, Drained, TypeOK
<1>9. HandsInv'
  BY OpsAssumption DEF IInv, Awake, opVars, queueVars, uvVars, HandsInv, ClaimInv,
     TypeOK, Started, Alive, Unclaimed, Ops, Pend, InQ, InB, Listed, Owed
<1> QED
  BY <1>1, <1>2, <1>3, <1>4, <1>5, <1>6, <1>7, <1>8, <1>9 DEF IInv

\* Leaving uv_run keeps the invariant: no batch is left behind.
LEMMA LeaveLoopPreserves ==
  ASSUME IInv, LeaveLoop
  PROVE  IInv'
<1>1. TypeOK'
  BY OpsAssumption DEF IInv, LeaveLoop, AtCallbacks, opVars, queueVars, uvVars, TypeOK
<1>2. ListInv'
  BY OpsAssumption DEF IInv, LeaveLoop, AtCallbacks, opVars, queueVars, uvVars, ListInv, InQ, InB,
     Listed
<1>3. NodeInv'
  BY OpsAssumption DEF IInv, LeaveLoop, AtCallbacks, opVars, queueVars, uvVars, NodeInv, TypeOK,
     Started, InQ, InB, Listed
<1>4. ClaimInv'
  BY OpsAssumption DEF IInv, LeaveLoop, AtCallbacks, opVars, queueVars, uvVars, ClaimInv, TypeOK,
     Ops, Unclaimed
<1>5. HopInv'
  BY OpsAssumption DEF IInv, LeaveLoop, AtCallbacks, opVars, queueVars, uvVars, HopInv, NodeInv,
     TypeOK, Ops, Unclaimed, InQ, InB, Listed
<1>6. HandleInv'
  BY OpsAssumption DEF IInv, LeaveLoop, AtCallbacks, opVars, queueVars, uvVars, HandleInv, NodeInv,
     TypeOK, Started, InQ, InB, Listed
<1>7. CountInv'
  BY OpsAssumption DEF IInv, LeaveLoop, AtCallbacks, opVars, queueVars, uvVars, CountInv, NodeInv,
     TypeOK, Pend, Started, Ops, InQ, InB, Listed
<1>8. PhaseInv'
  BY OpsAssumption DEF IInv, LeaveLoop, AtCallbacks, opVars, queueVars, uvVars, PhaseInv, Drained,
     TypeOK
<1>9. HandsInv'
  BY OpsAssumption DEF IInv, LeaveLoop, AtCallbacks, opVars, queueVars, uvVars, HandsInv, ClaimInv,
     TypeOK, Started, Alive, Unclaimed, Ops, Pend, InQ, InB, Listed, Owed
<1> QED
  BY <1>1, <1>2, <1>3, <1>4, <1>5, <1>6, <1>7, <1>8, <1>9 DEF IInv

\* Closing the queue keeps the invariant.
LEMMA StopClosePreserves ==
  ASSUME IInv, StopClose
  PROVE  IInv'
<1>1. TypeOK'
  BY OpsAssumption DEF IInv, StopClose, opVars, uvVars, loopVars, TypeOK
<1>2. ListInv'
  BY OpsAssumption DEF IInv, StopClose, opVars, uvVars, loopVars, ListInv, InQ, InB,
     Listed
<1>3. NodeInv'
  BY OpsAssumption DEF IInv, StopClose, opVars, uvVars, loopVars, NodeInv, TypeOK,
     Started, InQ, InB, Listed
<1>4. ClaimInv'
  BY OpsAssumption DEF IInv, StopClose, opVars, uvVars, loopVars, ClaimInv, TypeOK, Ops,
     Unclaimed
<1>5. HopInv'
  BY OpsAssumption DEF IInv, StopClose, opVars, uvVars, loopVars, HopInv, NodeInv,
     TypeOK, Ops, Unclaimed, InQ, InB, Listed
<1>6. HandleInv'
  BY OpsAssumption DEF IInv, StopClose, opVars, uvVars, loopVars, HandleInv, NodeInv,
     TypeOK, Started, InQ, InB, Listed
<1>7. CountInv'
  BY OpsAssumption DEF IInv, StopClose, opVars, uvVars, loopVars, CountInv, NodeInv,
     TypeOK, Pend, Started, Ops, InQ, InB, Listed
<1>8. PhaseInv'
  BY OpsAssumption DEF IInv, StopClose, opVars, uvVars, loopVars, PhaseInv, Drained,
     TypeOK
<1>9. HandsInv'
  BY OpsAssumption DEF IInv, StopClose, opVars, uvVars, loopVars, HandsInv, ClaimInv,
     TypeOK, Started, Alive, Unclaimed, Ops, Pend, InQ, InB, Listed, Owed
<1> QED
  BY <1>1, <1>2, <1>3, <1>4, <1>5, <1>6, <1>7, <1>8, <1>9 DEF IInv

\* stop()'s first wake-up keeps the invariant.
LEMMA StopWakePreserves ==
  ASSUME IInv, StopWake
  PROVE  IInv'
<1>1. TypeOK'
  BY OpsAssumption DEF IInv, StopWake, Wake, opVars, uvVars, loopVars, TypeOK
<1>2. ListInv'
  BY OpsAssumption DEF IInv, StopWake, Wake, opVars, uvVars, loopVars, ListInv, InQ,
     InB, Listed
<1>3. NodeInv'
  BY OpsAssumption DEF IInv, StopWake, Wake, opVars, uvVars, loopVars, NodeInv, TypeOK,
     Started, InQ, InB, Listed
<1>4. ClaimInv'
  BY OpsAssumption DEF IInv, StopWake, Wake, opVars, uvVars, loopVars, ClaimInv, TypeOK,
     Ops, Unclaimed
<1>5. HopInv'
  BY OpsAssumption DEF IInv, StopWake, Wake, opVars, uvVars, loopVars, HopInv, NodeInv,
     TypeOK, Ops, Unclaimed, InQ, InB, Listed
<1>6. HandleInv'
  BY OpsAssumption DEF IInv, StopWake, Wake, opVars, uvVars, loopVars, HandleInv,
     NodeInv, TypeOK, Started, InQ, InB, Listed
<1>7. CountInv'
  BY OpsAssumption DEF IInv, StopWake, Wake, opVars, uvVars, loopVars, CountInv,
     NodeInv, TypeOK, Pend, Started, Ops, InQ, InB, Listed
<1>8. PhaseInv'
  BY OpsAssumption DEF IInv, StopWake, Wake, opVars, uvVars, loopVars, PhaseInv,
     Drained, TypeOK
<1>9. HandsInv'
  BY OpsAssumption DEF IInv, StopWake, Wake, opVars, uvVars, loopVars, HandsInv,
     ClaimInv, TypeOK, Started, Alive, Unclaimed, Ops, Pend, InQ, InB, Listed, Owed
<1> QED
  BY <1>1, <1>2, <1>3, <1>4, <1>5, <1>6, <1>7, <1>8, <1>9 DEF IInv

\* Seeing the queue empty keeps the invariant: nothing is pushed any more.
LEMMA SeeQueueEmptyPreserves ==
  ASSUME IInv, SeeQueueEmpty
  PROVE  IInv'
<1>1. TypeOK'
  BY OpsAssumption DEF IInv, SeeQueueEmpty, opVars, queueVars, uvVars, loopVars, TypeOK
<1>2. ListInv'
  BY OpsAssumption DEF IInv, SeeQueueEmpty, opVars, queueVars, uvVars, loopVars,
     ListInv, InQ, InB, Listed
<1>3. NodeInv'
  BY OpsAssumption DEF IInv, SeeQueueEmpty, opVars, queueVars, uvVars, loopVars,
     NodeInv, TypeOK, Started, InQ, InB, Listed
<1>4. ClaimInv'
  BY OpsAssumption DEF IInv, SeeQueueEmpty, opVars, queueVars, uvVars, loopVars,
     ClaimInv, TypeOK, Ops, Unclaimed
<1>5. HopInv'
  BY OpsAssumption DEF IInv, SeeQueueEmpty, opVars, queueVars, uvVars, loopVars, HopInv,
     NodeInv, TypeOK, Ops, Unclaimed, InQ, InB, Listed
<1>6. HandleInv'
  BY OpsAssumption DEF IInv, SeeQueueEmpty, opVars, queueVars, uvVars, loopVars,
     HandleInv, NodeInv, TypeOK, Started, InQ, InB, Listed
<1>7. CountInv'
  BY OpsAssumption DEF IInv, SeeQueueEmpty, opVars, queueVars, uvVars, loopVars,
     CountInv, NodeInv, TypeOK, Pend, Started, Ops, InQ, InB, Listed
<1>8. PhaseInv'
  BY OpsAssumption DEF IInv, SeeQueueEmpty, opVars, queueVars, uvVars, loopVars,
     PhaseInv, Drained, TypeOK
<1>9. HandsInv'
  BY OpsAssumption DEF IInv, SeeQueueEmpty, opVars, queueVars, uvVars, loopVars,
     HandsInv, ClaimInv, TypeOK, Started, Alive, Unclaimed, Ops, Pend, InQ, InB, Listed, Owed
<1> QED
  BY <1>1, <1>2, <1>3, <1>4, <1>5, <1>6, <1>7, <1>8, <1>9 DEF IInv

\* Reading the counter keeps the invariant.
LEMMA SeeCounterPreserves ==
  ASSUME IInv, SeeCounter
  PROVE  IInv'
<1>1. TypeOK'
  BY OpsAssumption DEF IInv, SeeCounter, opVars, queueVars, uvVars, loopVars, TypeOK
<1>2. ListInv'
  BY OpsAssumption DEF IInv, SeeCounter, opVars, queueVars, uvVars, loopVars, ListInv,
     InQ, InB, Listed
<1>3. NodeInv'
  BY OpsAssumption DEF IInv, SeeCounter, opVars, queueVars, uvVars, loopVars, NodeInv,
     TypeOK, Started, InQ, InB, Listed
<1>4. ClaimInv'
  BY OpsAssumption DEF IInv, SeeCounter, opVars, queueVars, uvVars, loopVars, ClaimInv,
     TypeOK, Ops, Unclaimed
<1>5. HopInv'
  BY OpsAssumption DEF IInv, SeeCounter, opVars, queueVars, uvVars, loopVars, HopInv,
     NodeInv, TypeOK, Ops, Unclaimed, InQ, InB, Listed
<1>6. HandleInv'
  BY OpsAssumption DEF IInv, SeeCounter, opVars, queueVars, uvVars, loopVars, HandleInv,
     NodeInv, TypeOK, Started, InQ, InB, Listed
<1>7. CountInv'
  BY OpsAssumption DEF IInv, SeeCounter, opVars, queueVars, uvVars, loopVars, CountInv,
     NodeInv, TypeOK, Pend, Started, Ops, InQ, InB, Listed
<1>8. PhaseInv'
  BY OpsAssumption DEF IInv, SeeCounter, opVars, queueVars, uvVars, loopVars, PhaseInv,
     Drained, TypeOK
<1>9. HandsInv'
  BY OpsAssumption DEF IInv, SeeCounter, opVars, queueVars, uvVars, loopVars, HandsInv,
     ClaimInv, TypeOK, Started, Alive, Unclaimed, Ops, Pend, InQ, InB, Listed, Owed
<1> QED
  BY <1>1, <1>2, <1>3, <1>4, <1>5, <1>6, <1>7, <1>8, <1>9 DEF IInv

\* Setting the stop flag keeps the invariant.
LEMMA UvStopPreserves ==
  ASSUME IInv, UvStop
  PROVE  IInv'
<1>1. TypeOK'
  BY OpsAssumption DEF IInv, UvStop, opVars, queueVars, uvVars, TypeOK
<1>2. ListInv'
  BY OpsAssumption DEF IInv, UvStop, opVars, queueVars, uvVars, ListInv, InQ, InB,
     Listed
<1>3. NodeInv'
  BY OpsAssumption DEF IInv, UvStop, opVars, queueVars, uvVars, NodeInv, TypeOK,
     Started, InQ, InB, Listed
<1>4. ClaimInv'
  BY OpsAssumption DEF IInv, UvStop, opVars, queueVars, uvVars, ClaimInv, TypeOK, Ops,
     Unclaimed
<1>5. HopInv'
  BY OpsAssumption DEF IInv, UvStop, opVars, queueVars, uvVars, HopInv, NodeInv, TypeOK,
     Ops, Unclaimed, InQ, InB, Listed
<1>6. HandleInv'
  BY OpsAssumption DEF IInv, UvStop, opVars, queueVars, uvVars, HandleInv, NodeInv,
     TypeOK, Started, InQ, InB, Listed
<1>7. CountInv'
  BY OpsAssumption DEF IInv, UvStop, opVars, queueVars, uvVars, CountInv, NodeInv,
     TypeOK, Pend, Started, Ops, InQ, InB, Listed
<1>8. PhaseInv'
  BY OpsAssumption DEF IInv, UvStop, opVars, queueVars, uvVars, PhaseInv, Drained,
     TypeOK
<1>9. HandsInv'
  BY OpsAssumption DEF IInv, UvStop, opVars, queueVars, uvVars, HandsInv, ClaimInv,
     TypeOK, Started, Alive, Unclaimed, Ops, Pend, InQ, InB, Listed, Owed
<1> QED
  BY <1>1, <1>2, <1>3, <1>4, <1>5, <1>6, <1>7, <1>8, <1>9 DEF IInv

\* stop()'s second wake-up keeps the invariant.
LEMMA WakeAfterStopPreserves ==
  ASSUME IInv, WakeAfterStop
  PROVE  IInv'
<1>1. TypeOK'
  BY OpsAssumption DEF IInv, WakeAfterStop, Wake, opVars, uvVars, loopVars, TypeOK
<1>2. ListInv'
  BY OpsAssumption DEF IInv, WakeAfterStop, Wake, opVars, uvVars, loopVars, ListInv,
     InQ, InB, Listed
<1>3. NodeInv'
  BY OpsAssumption DEF IInv, WakeAfterStop, Wake, opVars, uvVars, loopVars, NodeInv,
     TypeOK, Started, InQ, InB, Listed
<1>4. ClaimInv'
  BY OpsAssumption DEF IInv, WakeAfterStop, Wake, opVars, uvVars, loopVars, ClaimInv,
     TypeOK, Ops, Unclaimed
<1>5. HopInv'
  BY OpsAssumption DEF IInv, WakeAfterStop, Wake, opVars, uvVars, loopVars, HopInv,
     NodeInv, TypeOK, Ops, Unclaimed, InQ, InB, Listed
<1>6. HandleInv'
  BY OpsAssumption DEF IInv, WakeAfterStop, Wake, opVars, uvVars, loopVars, HandleInv,
     NodeInv, TypeOK, Started, InQ, InB, Listed
<1>7. CountInv'
  BY OpsAssumption DEF IInv, WakeAfterStop, Wake, opVars, uvVars, loopVars, CountInv,
     NodeInv, TypeOK, Pend, Started, Ops, InQ, InB, Listed
<1>8. PhaseInv'
  BY OpsAssumption DEF IInv, WakeAfterStop, Wake, opVars, uvVars, loopVars, PhaseInv,
     Drained, TypeOK
<1>9. HandsInv'
  BY OpsAssumption DEF IInv, WakeAfterStop, Wake, opVars, uvVars, loopVars, HandsInv,
     ClaimInv, TypeOK, Started, Alive, Unclaimed, Ops, Pend, InQ, InB, Listed, Owed
<1> QED
  BY <1>1, <1>2, <1>3, <1>4, <1>5, <1>6, <1>7, <1>8, <1>9 DEF IInv

\* Joining and closing the open handles keeps the invariant.
LEMMA JoinAndCloseHandlesPreserves ==
  ASSUME IInv, JoinAndCloseHandles
  PROVE  IInv'
<1>1. TypeOK'
  BY OpsAssumption DEF IInv, JoinAndCloseHandles, UvClose, opVars, loopVars, TypeOK
<1>2. ListInv'
  BY OpsAssumption DEF IInv, JoinAndCloseHandles, UvClose, opVars, loopVars, ListInv,
     InQ, InB, Listed
<1>3. NodeInv'
  BY OpsAssumption DEF IInv, JoinAndCloseHandles, UvClose, opVars, loopVars, NodeInv,
     TypeOK, Started, InQ, InB, Listed
<1>4. ClaimInv'
  BY OpsAssumption DEF IInv, JoinAndCloseHandles, UvClose, opVars, loopVars, ClaimInv,
     TypeOK, Ops, Unclaimed
<1>5. HopInv'
  BY OpsAssumption DEF IInv, JoinAndCloseHandles, UvClose, opVars, loopVars, HopInv,
     NodeInv, TypeOK, Ops, Unclaimed, InQ, InB, Listed
<1>6. HandleInv'
  BY OpsAssumption DEF IInv, JoinAndCloseHandles, UvClose, opVars, loopVars, HandleInv,
     NodeInv, TypeOK, Started, InQ, InB, Listed
<1>7. CountInv'
  BY OpsAssumption DEF IInv, JoinAndCloseHandles, UvClose, opVars, loopVars, CountInv,
     NodeInv, TypeOK, Pend, Started, Ops, InQ, InB, Listed
<1>8. PhaseInv'
  BY OpsAssumption DEF IInv, JoinAndCloseHandles, UvClose, opVars, loopVars, PhaseInv,
     Drained, TypeOK
<1>9. HandsInv'
  BY OpsAssumption DEF IInv, JoinAndCloseHandles, UvClose, opVars, loopVars, HandsInv,
     ClaimInv, TypeOK, Started, Alive, Unclaimed, Ops, Pend, InQ, InB, Listed, Owed
<1> QED
  BY <1>1, <1>2, <1>3, <1>4, <1>5, <1>6, <1>7, <1>8, <1>9 DEF IInv

\* The end of the second uv_run keeps the invariant.
LEMMA CloseLoopPreserves ==
  ASSUME IInv, CloseLoop
  PROVE  IInv'
<1>1. TypeOK'
  BY OpsAssumption DEF IInv, CloseLoop, opVars, queueVars, uvVars, loopVars, TypeOK
<1>2. ListInv'
  BY OpsAssumption DEF IInv, CloseLoop, opVars, queueVars, uvVars, loopVars, ListInv,
     InQ, InB, Listed
<1>3. NodeInv'
  BY OpsAssumption DEF IInv, CloseLoop, opVars, queueVars, uvVars, loopVars, NodeInv,
     TypeOK, Started, InQ, InB, Listed
<1>4. ClaimInv'
  BY OpsAssumption DEF IInv, CloseLoop, opVars, queueVars, uvVars, loopVars, ClaimInv,
     TypeOK, Ops, Unclaimed
<1>5. HopInv'
  BY OpsAssumption DEF IInv, CloseLoop, opVars, queueVars, uvVars, loopVars, HopInv,
     NodeInv, TypeOK, Ops, Unclaimed, InQ, InB, Listed
<1>6. HandleInv'
  BY OpsAssumption DEF IInv, CloseLoop, opVars, queueVars, uvVars, loopVars, HandleInv,
     NodeInv, TypeOK, Started, InQ, InB, Listed
<1>7. CountInv'
  BY OpsAssumption DEF IInv, CloseLoop, opVars, queueVars, uvVars, loopVars, CountInv,
     NodeInv, TypeOK, Pend, Started, Ops, InQ, InB, Listed
<1>8. PhaseInv'
  BY OpsAssumption DEF IInv, CloseLoop, opVars, queueVars, uvVars, loopVars, PhaseInv,
     Drained, TypeOK
<1>9. HandsInv'
  BY OpsAssumption DEF IInv, CloseLoop, opVars, queueVars, uvVars, loopVars, HandsInv,
     ClaimInv, TypeOK, Started, Alive, Unclaimed, Ops, Pend, InQ, InB, Listed, Owed
<1> QED
  BY <1>1, <1>2, <1>3, <1>4, <1>5, <1>6, <1>7, <1>8, <1>9 DEF IInv

-----------------------------------------------------------------------------
(* The invariant.                                                          *)

\* The initial state satisfies the invariant.
LEMMA InitIInv == Init => IInv
<1> SUFFICES ASSUME Init PROVE IInv
  OBVIOUS
<1>1. /\ \A k, o : ~InQ(k, o)
      /\ \A k, o : ~InB(k, o)
  BY EmptyLists DEF Init
<1>2. TypeOK
  <2>1. claim \in [Ops -> {"queued", "running", "pending", "value", "stopped", "complete",
                          "cancelled"}]
    BY DEF Init
  <2>2. queue \in Seq(Nodes) /\ batch \in Seq(Nodes)
    BY DEF Init
  <2>3. /\ start \in [Ops -> {"idle", "prepared", "wake", "returned"}]
        /\ result \in [Ops -> {"none", "value", "stopped", "error", "twice"}]
        /\ cancel \in [Timers -> {"no", "enqueue", "wake", "done"}]
    BY DEF Init
  <2>4. /\ handle \in [Timers -> {"none", "inited", "active", "closing", "closed", "misused"}]
        /\ closing \in [Timers -> BOOLEAN]
        /\ job \in [Works -> {"none", "pool", "after", "over"}]
    BY DEF Init
  <2>5. /\ closed \in BOOLEAN /\ asyncReady \in BOOLEAN /\ asyncOpen \in BOOLEAN
        /\ pendingWake \in BOOLEAN /\ stopFlag \in BOOLEAN
    BY DEF Init
  <2>6. /\ inFlight \in Int /\ loop = "callbacks" /\ worker = "running"
        /\ gone = {} /\ owes = {}
    BY DEF Init
  <2> QED
    BY <2>1, <2>2, <2>3, <2>4, <2>5, <2>6 DEF TypeOK
<1>3. ListInv
  BY <1>1 DEF Init, ListInv, Distinct
<1>4. NodeInv
  BY <1>1 DEF Init, NodeInv, Listed
<1>5. ClaimInv
  BY OpsAssumption DEF Init, ClaimInv, Unclaimed, Ops
<1>6. HopInv /\ HandleInv
  BY <1>1 DEF Init, HopInv, HandleInv, Listed
<1>7. CountInv
  <2>1. Pend = {}
    BY <1>1 DEF Init, Pend, Listed
  <2> QED
    BY <1>1, <2>1, FS_EmptySet DEF Init, CountInv, Listed
<1>8. PhaseInv
  BY DEF Init, PhaseInv, Drained
<1>9. HandsInv
  BY <1>1, OpsAssumption DEF Init, HandsInv, Started, Ops
<1> QED
  BY <1>2, <1>3, <1>4, <1>5, <1>6, <1>7, <1>8, <1>9 DEF IInv

\* Nothing is owed and nothing destroyed at first.
LEMMA InitOwnerInv == Init => OwnerInv
BY OpsAssumption DEF Init, OwnerInv, OwesInv, GoneInv, Ops

\* start() in either of its outcomes keeps the invariant.
LEMMA StartPreserves ==
  ASSUME IInv, NEW o \in Ops, Start(o)
  PROVE  IInv'
<1> DEFINE rest == UNCHANGED <<cancel, gone, closed, asyncReady, asyncOpen, pendingWake, uvVars,
                               loopVars, worker>>
<1>1. rest
  BY DEF Start
<1>2. CASE o \in Scheds /\ start[o] = "idle" /\ StartOpen(o, "hop")
  BY <1>1, <1>2, StartOpenPreserves
<1>3. CASE o \in Timers /\ start[o] = "prepared" /\ StartOpen(o, "init")
  BY <1>1, <1>3, StartOpenPreserves
<1>4. CASE o \in Works /\ start[o] = "idle" /\ StartOpen(o, "work")
  BY <1>1, <1>4, StartOpenPreserves
<1>5. CASE o \in Scheds /\ start[o] = "idle" /\ StartClosed(o, "cancelled", "stopped")
  <2>1. o \notin Timers
    BY <1>5, OpsAssumption
  <2> QED
    BY <1>1, <1>5, <2>1, StartClosedPreserves
<1>6. CASE o \in Timers /\ start[o] = "prepared" /\ StartClosed(o, "stopped", "stopped")
  BY <1>1, <1>6, StartClosedPreserves
<1>7. CASE o \in Works /\ start[o] = "idle" /\ StartClosed(o, "cancelled", "error")
  <2>1. o \notin Timers
    BY <1>7, OpsAssumption
  <2> QED
    BY <1>1, <1>7, <2>1, StartClosedPreserves
<1> QED
  BY <1>2, <1>3, <1>4, <1>5, <1>6, <1>7 DEF Start

\* Running a node keeps the invariant.
LEMMA RunNodePreserves ==
  ASSUME IInv, RunNode
  PROVE  IInv'
<1>1. PICK o \in Ops :
        \/ Popped("hop", o) /\ RunHop(o)
        \/ Popped("init", o) /\ RunInit(o)
        \/ Popped("cancel", o) /\ RunCancel(o)
        \/ Popped("work", o) /\ RunWork(o)
  BY RunNodePops
<1> QED
  BY <1>1, RunHopPreserves, RunInitPreserves, RunCancelPreserves, RunWorkPreserves

\* A step that changes nothing keeps the invariant.
LEMMA StutterPreserves ==
  ASSUME IInv, UNCHANGED vars
  PROVE  IInv'
<1>1. TypeOK' /\ ListInv' /\ NodeInv' /\ ClaimInv' /\ HopInv' /\ HandleInv'
  BY DEF IInv, vars, opVars, queueVars, uvVars, loopVars, TypeOK, ListInv, NodeInv,
     ClaimInv, HopInv, HandleInv, InQ, InB, Listed, Started, Unclaimed, Owed
<1>2. CountInv' /\ PhaseInv' /\ HandsInv'
  BY DEF IInv, vars, opVars, queueVars, uvVars, loopVars, CountInv, PhaseInv, HandsInv,
     Pend, InQ, InB, Listed, Started, Unclaimed, Alive, Owed
<1> QED
  BY <1>1, <1>2 DEF IInv

\* Every step keeps the invariant.
LEMMA StepIInv == IInv /\ OwnerInv /\ [Next]_vars => IInv'
<1> SUFFICES ASSUME IInv, OwnerInv, [Next]_vars PROVE IInv'
  OBVIOUS
<1>1. ASSUME NEW o \in Ops, PrepareTimer(o) \/ StartStep(o) \/ OnStop(o)
      PROVE  IInv'
  BY <1>1, PrepareTimerPreserves, StartPreserves, StartWakePreserves, OnStopPreserves
     DEF StartStep
<1>2. ASSUME NEW o \in Ops, CancelStep(o) \/ DestroyStep(o)
      PROVE  IInv'
  <2>1. EnqueueCancel(o) => o \in Timers
    BY DEF EnqueueCancel
  <2> QED
    BY <1>2, <2>1, EnqueueCancelPreserves, CancelWakePreserves, DestroyTimerPreserves,
       DestroyHopPreserves, DestroyWorkPreserves DEF CancelStep, DestroyStep
<1>3. ASSUME LoopStep \/ Sleep PROVE IInv'
  BY <1>3, OnAsyncPreserves, RunNodePreserves, AwakePreserves, LeaveLoopPreserves,
     LoopCompletesPreserves, OnTimerPreserves, OnClosePreserves, AfterWorkPreserves,
     SleepPreserves DEF LoopStep, TimerCallback
<1>4. ASSUME NEW o \in Works, OnWork(o) PROVE IInv'
  BY <1>4, OnWorkPreserves
<1>5. ASSUME StopClose \/ StopStep PROVE IInv'
  BY <1>5, StopClosePreserves, StopWakePreserves, SeeQueueEmptyPreserves,
     SeeCounterPreserves, UvStopPreserves, WakeAfterStopPreserves,
     JoinAndCloseHandlesPreserves, CloseLoopPreserves DEF StopStep
<1> QED
  BY <1>1, <1>2, <1>3, <1>4, <1>5, StutterPreserves DEF Next

\* A claim of an operation nobody has claimed, and a completion it will owe.
LEMMA OwingStep ==
  ASSUME TypeOK, OwnerInv, NEW o \in Ops, NEW c \in {"value", "stopped", "complete"},
         NEW r \in {"value", "stopped", "error"},
         c = "stopped" => o \in Timers /\ (Unclaimed(o) => cancel[o] = "no"),
         Unclaimed(o) => result[o] = "none",
         owes = {}, loop = "callbacks" \/ loop = "batch" \/ worker = "closing",
         loop' = loop \/ (loop = "batch" /\ loop' = "callbacks"),
         ClaimToComplete(o, c, r), UNCHANGED <<start, result, cancel, gone, worker>>
  PROVE  OwnerInv'
<1>1. CASE ~Unclaimed(o)
  BY <1>1 DEF ClaimToComplete, OwnerInv, OwesInv, GoneInv, Unclaimed, Owed
<1>2. CASE Unclaimed(o)
  <2>1. /\ claim' = [claim EXCEPT ![o] = c] /\ owes' = {[op |-> o, res |-> r]}
        /\ o \notin gone
    BY <1>2 DEF ClaimToComplete, Claim, OwnerInv, GoneInv
  <2>2. OwesInv'
    <3>1. \A p : Owed(p)' <=> p = o
      BY <2>1 DEF Owed
    <3>2. \A p \in Ops : ~Owed(p) /\ (p # o => claim'[p] = claim[p])
      BY <2>1 DEF Owed, TypeOK
    <3> QED
      BY <1>2, <2>1, <3>1, <3>2 DEF OwnerInv, OwesInv, TypeOK
  <2>3. GoneInv'
    BY <2>1 DEF OwnerInv, GoneInv, TypeOK, Unclaimed
  <2> QED
    BY <2>2, <2>3 DEF OwnerInv
<1> QED
  BY <1>1, <1>2

\* Steps that leave what is owed and destroyed alone, and change the claims and
\* results of nobody it concerns.
LEMMA OwnerUntouched ==
  ASSUME OwnerInv, UNCHANGED <<owes, gone>>,
         \A o \in gone : start'[o] = start[o] /\ claim'[o] = claim[o],
         \A o \in Ops : claim'[o] = "cancelled" =>
           result'[o] # "none" \/ (claim[o] = "cancelled" /\ result'[o] = result[o]),
         \A o \in Ops : claim'[o] \in {"value", "complete"} =>
           claim[o] = claim'[o] /\ (result'[o] = "none" => result[o] = "none"),
         \A c \in owes : /\ result'[c.op] = result[c.op] /\ claim'[c.op] = claim[c.op]
                         /\ claim[c.op] = "stopped" => cancel'[c.op] = cancel[c.op],
         owes = {} \/ loop' \in {"callbacks", "batch"} \/ worker' = "closing"
  PROVE  OwnerInv'
<1>1. \A o : Owed(o)' <=> Owed(o)
  BY DEF Owed
<1> QED
  BY <1>1 DEF OwnerInv, OwesInv, GoneInv, Unclaimed

\* Every step keeps who owes what and who is destroyed in order.
LEMMA StepOwnerInv == IInv /\ OwnerInv /\ [Next]_vars => OwnerInv'
<1> SUFFICES ASSUME IInv, OwnerInv, [Next]_vars PROVE OwnerInv'
  OBVIOUS
<1>1. /\ TypeOK /\ OwesInv /\ GoneInv
      /\ gone \subseteq Ops /\ \A c \in owes : c.op \in Ops
      /\ \A o \in Ops : Unclaimed(o) => result[o] = "none"
      /\ \A o \in Timers : Unclaimed(o) => cancel[o] = "no"
      /\ Timers \subseteq Ops /\ Works \subseteq Ops /\ Scheds \subseteq Ops
      /\ Timers \cap Works = {} /\ Scheds \cap Works = {} /\ Scheds \cap Timers = {}
  BY OpsAssumption DEF IInv, TypeOK, OwnerInv, ClaimInv, Ops
<1>2. ASSUME NEW o \in Ops, Start(o) PROVE OwnerInv'
  <2>1. /\ start[o] \in {"idle", "prepared"} /\ UNCHANGED <<cancel, gone, owes, loop, worker>>
        /\ \E x \in {"wake", "returned"} : start' = [start EXCEPT ![o] = x]
        /\ \/ UNCHANGED <<claim, result>>
           \/ /\ Unclaimed(o) /\ \E r \in {"stopped", "error"} : Complete(o, r)
              /\ \E c \in {"stopped", "cancelled"} : Claim(o, c)
    BY <1>2 DEF Start, StartOpen, StartClosed, loopVars
  <2>2. o \notin gone /\ \A c \in owes : Unclaimed(o) => c.op # o
    BY <1>1, <2>1 DEF OwesInv, GoneInv, Unclaimed
  <2>3. CASE UNCHANGED <<claim, result>>
    BY <1>1, <2>1, <2>2, <2>3, OwnerUntouched DEF OwesInv, TypeOK
  <2>4. CASE ~UNCHANGED <<claim, result>>
    <3>1. Unclaimed(o) /\ result[o] = "none"
      BY <1>1, <2>1, <2>4
    <3>2. PICK r \in {"stopped", "error"}, c \in {"stopped", "cancelled"} :
            result' = [result EXCEPT ![o] = r] /\ claim' = [claim EXCEPT ![o] = c]
      BY <1>1, <2>1, <2>4, <3>1 DEF Complete, Claim, TypeOK
    <3> QED
      BY <1>1, <2>1, <2>2, <3>1, <3>2, OwnerUntouched DEF OwesInv, TypeOK
  <2> QED
    BY <2>3, <2>4
<1>3. ASSUME NEW o \in Ops, PrepareTimer(o) \/ StartWake(o) PROVE OwnerInv'
  <2>1. /\ start[o] \in {"idle", "wake"}
        /\ UNCHANGED <<claim, result, cancel, gone, owes, loop, worker>>
        /\ \E x \in {"prepared", "returned"} : start' = [start EXCEPT ![o] = x]
    BY <1>3 DEF PrepareTimer, StartWake, loopVars
  <2>2. o \notin gone
    BY <1>1, <2>1 DEF GoneInv
  <2> QED
    BY <1>1, <2>1, <2>2, OwnerUntouched DEF OwesInv, TypeOK
<1>4. ASSUME NEW o \in Ops, OnStop(o) PROVE OwnerInv'
  <2>1. /\ o \in Timers /\ Unclaimed(o) /\ claim' = [claim EXCEPT ![o] = "stopped"]
        /\ cancel' = [cancel EXCEPT ![o] = "enqueue"]
        /\ UNCHANGED <<start, result, gone, owes, loop, worker>>
    BY <1>4 DEF OnStop, Claim, loopVars
  <2>2. o \notin gone /\ \A c \in owes : c.op # o
    BY <1>1, <2>1 DEF OwesInv, GoneInv, Unclaimed
  <2> QED
    BY <1>1, <2>1, <2>2, OwnerUntouched DEF OwesInv, TypeOK
<1>5. ASSUME NEW o \in Ops, CancelStep(o) PROVE OwnerInv'
  <2>1. /\ o \in Timers /\ cancel[o] \in {"enqueue", "wake"}
        /\ \E x \in {"wake", "done"} : cancel' = [cancel EXCEPT ![o] = x]
        /\ UNCHANGED <<start, claim, gone, owes, loop, worker>>
        /\ \/ UNCHANGED result
           \/ claim[o] = "stopped" /\ result[o] = "none" /\ Complete(o, "stopped")
    BY <1>5 DEF CancelStep, EnqueueCancel, CancelWake, loopVars, opVars
  <2>2. \A c \in owes : claim[c.op] = "stopped" => c.op # o
    BY <1>1, <2>1 DEF OwesInv
  <2>3. /\ \A p \in Ops : result'[p] = result[p] \/ (p = o /\ claim[o] = "stopped")
        /\ \A p \in Timers : p # o => cancel'[p] = cancel[p]
    BY <1>1, <2>1 DEF Complete, TypeOK
  <2> QED
    BY <1>1, <2>1, <2>2, <2>3, OwnerUntouched DEF OwesInv
<1>6. ASSUME NEW o \in Ops, DestroyStep(o) PROVE OwnerInv'
  <2>1. /\ start[o] = "returned" /\ gone' = gone \cup {o}
        /\ UNCHANGED <<start, result, owes, loop, worker>>
        /\ \/ /\ Unclaimed(o) /\ claim' = [claim EXCEPT ![o] = "cancelled"]
              /\ \A p \in Timers : p # o => cancel'[p] = cancel[p]
           \/ o \notin Scheds /\ ~Unclaimed(o) /\ UNCHANGED <<claim, cancel>>
    <3>1. CASE DestroyTimer(o)
      BY <1>1, <3>1 DEF DestroyTimer, GiveUp, Claim, loopVars, TypeOK
    <3>2. CASE DestroyHop(o)
      BY <1>1, <3>2 DEF DestroyHop, GiveUp, Claim, loopVars, TypeOK
    <3>3. CASE DestroyWork(o)
      BY <1>1, <3>3 DEF DestroyWork, GiveUp, Claim, loopVars, TypeOK
    <3> QED
      BY <1>6, <3>1, <3>2, <3>3 DEF DestroyStep
  <2>2. \A c \in owes : Unclaimed(o) => c.op # o
    BY <1>1 DEF OwesInv, Unclaimed
  <2>3. OwesInv'
    <3>1. \A p : Owed(p)' <=> Owed(p)
      BY <2>1 DEF Owed
    <3> QED
      BY <1>1, <2>1, <2>2, <3>1 DEF OwesInv, TypeOK
  <2>4. GoneInv'
    BY <1>1, <2>1 DEF GoneInv, TypeOK, Unclaimed
  <2> QED
    BY <2>3, <2>4 DEF OwnerInv
<1>7. ASSUME OnAsync PROVE OwnerInv'
  <2>1. /\ owes = {} /\ UNCHANGED <<start, result, cancel, gone, owes>>
        /\ \A p \in Ops : claim'[p] = claim[p] \/ (claim[p] = "queued" /\ claim'[p] = "running")
    BY <1>7 DEF OnAsync, AtCallbacks
  <2>2. \A p \in gone : claim[p] # "queued"
    BY <1>1 DEF GoneInv, Unclaimed
  <2> QED
    BY <1>1, <2>1, <2>2, OwnerUntouched
<1>8. ASSUME RunNode PROVE OwnerInv'
  <2>1. PICK o \in Ops :
          \/ Popped("hop", o) /\ RunHop(o)
          \/ Popped("init", o) /\ RunInit(o)
          \/ Popped("cancel", o) /\ RunCancel(o)
          \/ Popped("work", o) /\ RunWork(o)
    BY <1>8, RunNodePops
  <2>2. /\ owes = {} /\ loop = "batch" /\ UNCHANGED <<start, cancel, gone, worker>>
        /\ loop' \in {"callbacks", "batch"}
    <3>1. UNCHANGED gone
      BY <1>8 DEF RunNode
    <3> QED
      BY <2>1, <3>1 DEF Popped
  <2>3. CASE UNCHANGED <<claim, owes>>
    <3>1. \A p \in Ops : result[p] # "none" => result'[p] # "none"
      BY <1>1, <2>1 DEF RunHop, RunInit, RunCancel, RunWork, Complete, TypeOK
    <3>2. \A p : Owed(p)' <=> Owed(p)
      BY <2>3 DEF Owed
    <3> QED
      BY <1>1, <2>2, <2>3, <3>1, <3>2 DEF OwnerInv, OwesInv, GoneInv, Unclaimed
  <2>4. CASE RunWork(o) /\ ClaimToComplete(o, "complete", "error")
    BY <1>1, <2>2, <2>4, OwingStep DEF RunWork
  <2> QED
    BY <2>1, <2>3, <2>4 DEF RunHop, RunInit, RunCancel, RunWork
<1>9. ASSUME NEW o \in Timers, TimerCallback(o) PROVE OwnerInv'
  <2>1. CASE OnTimer(o)
    BY <1>1, <2>1, OwingStep DEF OnTimer, AtCallbacks
  <2>2. CASE OnClose(o)
    BY <1>1, <2>2, OwingStep DEF OnClose, LoopRuns
  <2> QED
    BY <1>9, <2>1, <2>2 DEF TimerCallback
<1>10. ASSUME NEW o \in Works, AfterWork(o) PROVE OwnerInv'
  <2>1. PICK r \in {"value", "error"} : ClaimToComplete(o, "complete", r)
    BY <1>10 DEF AfterWork
  <2> QED
    BY <1>1, <1>10, <2>1, OwingStep DEF AfterWork, LoopRuns
<1>11. ASSUME LoopCompletes PROVE OwnerInv'
  <2>1. PICK c \in owes : /\ Complete(c.op, c.res) /\ owes' = owes \ {c}
                          /\ UNCHANGED <<start, claim, cancel, gone, loop, worker>>
    BY <1>11 DEF LoopCompletes
  <2>2. /\ owes' = {} /\ c.op \in Ops /\ c.res # "none"
        /\ result' = [result EXCEPT ![c.op] = c.res]
    BY <1>1, <2>1 DEF OwesInv, TypeOK, Complete
  <2>3. \A o : Owed(o) => o = c.op
    BY <1>1 DEF OwesInv, Owed
  <2> QED
    BY <1>1, <2>1, <2>2, <2>3 DEF OwnerInv, OwesInv, GoneInv, Unclaimed, TypeOK
<1>12. ASSUME Awake \/ LeaveLoop \/ Sleep PROVE OwnerInv'
  <2>1. /\ UNCHANGED <<start, claim, result, cancel, gone, owes, worker>>
        /\ owes = {} \/ loop' = "callbacks"
    BY <1>12 DEF Awake, LeaveLoop, Sleep, AtCallbacks, opVars
  <2> QED
    BY <1>1, <2>1, OwnerUntouched
<1>13. ASSUME NEW o \in Works, OnWork(o) PROVE OwnerInv'
  <2>1. UNCHANGED <<start, claim, result, cancel, gone, owes, loop, worker>>
    BY <1>13 DEF OnWork, opVars, loopVars
  <2> QED
    BY <1>1, <2>1, OwnerUntouched DEF OwesInv
<1>14. ASSUME StopClose \/ StopStep PROVE OwnerInv'
  <2>1. /\ UNCHANGED <<start, claim, result, cancel, gone, owes, loop>>
        /\ owes = {} \/ worker # "closing" \/ worker' = "closing"
    BY <1>14 DEF StopClose, StopStep, StopWake, SeeQueueEmpty, SeeCounter, UvStop, WakeAfterStop,
       JoinAndCloseHandles, CloseLoop, opVars, loopVars
  <2> QED
    BY <1>1, <2>1, OwnerUntouched DEF OwesInv
<1>15. CASE UNCHANGED vars
  <2>1. UNCHANGED <<start, claim, result, cancel, gone, owes, loop, worker>>
    BY <1>15 DEF vars, opVars, loopVars
  <2> QED
    BY <1>1, <2>1, OwnerUntouched DEF OwesInv
<1> QED
  BY <1>2, <1>3, <1>4, <1>5, <1>6, <1>7, <1>8, <1>9, <1>10, <1>11, <1>12, <1>13, <1>14, <1>15
     DEF Next, StartStep, LoopStep

\* The invariant holds in every reachable state.
THEOREM SchedulerInvariant == Spec => [](IInv /\ OwnerInv)
<1>1. Init => IInv /\ OwnerInv
  BY InitIInv, InitOwnerInv
<1>2. IInv /\ OwnerInv /\ [Next]_vars => (IInv /\ OwnerInv)'
  BY StepIInv, StepOwnerInv
<1> QED
  BY <1>1, <1>2, PTL DEF Spec

-----------------------------------------------------------------------------
(* What it says.                                                           *)

\* The shared state, the operations and the handles keep their types.
THEOREM SchedulerTypes == Spec => []TypeOK
<1>1. IInv => TypeOK
  BY DEF IInv
<1> QED
  BY <1>1, SchedulerInvariant, PTL

\* Neither the queue nor a popped batch holds the node of a hop whose operation
\* is gone, so the loop never runs freed memory and on_discarded never runs.
THEOREM HopsAreAlive == Spec => []QueuedHopsAreAlive
<1>1. IInv /\ OwnerInv => QueuedHopsAreAlive
  <2> SUFFICES ASSUME IInv, OwnerInv PROVE QueuedHopsAreAlive
    OBVIOUS
  <2>1. ASSUME NEW i \in DOMAIN queue, queue[i].kind = "hop"
        PROVE  Alive(queue[i].op) /\ claim[queue[i].op] = "queued"
    <3>1. queue[i] \in Range(queue) /\ queue[i] \in Nodes
      BY DEF IInv, TypeOK, Range
    <3>2. queue[i].op \in Ops /\ InQ("hop", queue[i].op)
      BY <2>1, <3>1, NodeFacts DEF InQ
    <3> QED
      BY <3>2 DEF IInv, OwnerInv, GoneInv, NodeInv, HopInv, ClaimInv, Listed, Unclaimed, Alive
  <2>2. ASSUME NEW i \in DOMAIN batch, batch[i].kind = "hop"
        PROVE  Alive(batch[i].op) /\ claim[batch[i].op] = "running"
    <3>1. batch[i] \in Range(batch) /\ batch[i] \in Nodes
      BY DEF IInv, TypeOK, Range
    <3>2. batch[i].op \in Ops /\ InB("hop", batch[i].op)
      BY <2>2, <3>1, NodeFacts DEF InB
    <3> QED
      BY <3>2 DEF IInv, OwnerInv, GoneInv, NodeInv, HopInv, Listed, Alive
  <2> QED
    BY <2>1, <2>2 DEF QueuedHopsAreAlive
<1> QED
  BY <1>1, SchedulerInvariant, PTL

\* However init node, callback, cancel node, destructor and uv_walk meet, a
\* timer's handle is given to uv_close at most once and never before uv_timer_init.
THEOREM HandlesAreClosedOnce == Spec => []HandlesCloseOnce
<1>1. IInv => HandlesCloseOnce
  BY DEF IInv, HandleInv, HandlesCloseOnce
<1> QED
  BY <1>1, SchedulerInvariant, PTL

\* The counter of stop()'s drain loop is exact, so a loop is never closed with
\* work of uv_queue_work in flight.
THEOREM WorkIsDrained == Spec => []WorkDrainsBeforeStop
<1>1. IInv => WorkDrainsBeforeStop
  <2> SUFFICES ASSUME IInv, worker \in Drained PROVE WorkDrainsBeforeStop
    BY DEF WorkDrainsBeforeStop, Drained
  <2>1. inFlight = 0 /\ Pend = {}
    BY FS_EmptySet DEF IInv, PhaseInv, CountInv
  <2>2. \A o \in Works : Queued("work", o) <=> Listed("work", o)
    BY ContainsIsListed DEF IInv, Queued, Listed
  <2> QED
    BY <2>1, <2>2 DEF WorkDrainsBeforeStop, Pend
<1> QED
  BY <1>1, SchedulerInvariant, PTL

\* When stop() returns nothing is queued or open, and every operation that was
\* started is completed, dropped by a destructor that won the claim, or about
\* to be completed by the stop callback that is in enqueue_cancel.
THEOREM StopIsComplete == Spec => []StopLeavesNothing
<1>1. IInv /\ OwnerInv => StopLeavesNothing
  <2> SUFFICES ASSUME IInv, OwnerInv, worker = "stopped" PROVE StopLeavesNothing
    BY DEF StopLeavesNothing
  <2>1. queue = <<>> /\ batch = <<>>
    BY DEF IInv, PhaseInv, ListInv, Drained
  <2>2. \A k, o : ~Listed(k, o)
    BY <2>1, EmptyLists DEF Listed
  <2>3. Pend = {}
    BY FS_EmptySet DEF IInv, PhaseInv, CountInv, Drained
  <2>4. \A o \in Timers : handle[o] \in {"none", "closed"}
    BY DEF IInv, HandleInv, PhaseInv
  <2>5. ASSUME NEW o \in Ops, Started(o), result[o] = "none", ~Dropped(o)
        PROVE  o \in Timers /\ cancel[o] = "enqueue"
    <3>0. claim[o] # "cancelled" /\ ~Owed(o)
      BY <2>5 DEF IInv, PhaseInv, OwnerInv, OwesInv, GoneInv, Dropped, Owed
    <3>1. o \notin Scheds
      BY <2>2, <2>5, <3>0 DEF IInv, HandsInv, OwnerInv, GoneInv, Alive
    <3>2. ~Unclaimed(o)
      BY <2>2, <2>3, <2>4, <2>5, <3>1 DEF IInv, HandsInv, Ops
    <3>3. o \in Timers /\ claim[o] = "stopped"
      BY <2>5, <3>0, <3>1, <3>2 DEF IInv, OwnerInv, OwesInv, ClaimInv, Unclaimed, Ops
    <3> QED
      BY <2>2, <2>5, <3>0, <3>3 DEF IInv, HandsInv
  <2>6. \A o \in Ops : Started(o) \/ start[o] \in {"idle", "prepared"}
    BY DEF IInv, TypeOK, Started
  <2> QED
    BY <2>1, <2>4, <2>5, <2>6 DEF StopLeavesNothing
<1> QED
  BY <1>1, SchedulerInvariant, PTL

CompletedInTime(o) == result[o] = "none" /\ ~Dropped(o)

\* No step changes a result that is there, or that of a dropped operation.
LEMMA OnlyTheOwedComplete ==
  ASSUME IInv, OwnerInv, [Next]_vars, NEW p \in Ops, result'[p] # result[p]
  PROVE  CompletedInTime(p)
<1> USE DEF CompletedInTime, Dropped, Complete
<1>1. ASSUME NEW o \in Ops, Start(o) PROVE CompletedInTime(p)
  BY <1>1 DEF Start, StartOpen, StartClosed, IInv, TypeOK, ClaimInv, Unclaimed
<1>2. ASSUME NEW o \in Ops, EnqueueCancel(o) PROVE CompletedInTime(p)
  BY <1>2 DEF EnqueueCancel, IInv, TypeOK
<1>3. ASSUME RunNode PROVE CompletedInTime(p)
  <2>1. PICK o \in Ops :
          \/ Popped("hop", o) /\ RunHop(o)
          \/ Popped("init", o) /\ RunInit(o)
          \/ Popped("cancel", o) /\ RunCancel(o)
          \/ Popped("work", o) /\ RunWork(o)
    BY <1>3, RunNodePops
  <2>2. CASE Popped("hop", o) /\ RunHop(o)
    <3>1. claim[o] = "running" /\ result[o] = "none"
      BY <2>2 DEF Popped, IInv, NodeInv, HopInv, Listed
    <3> QED
      BY <2>2, <3>1 DEF RunHop, IInv, TypeOK
  <2>3. CASE RunInit(o)
    BY <2>3 DEF RunInit
  <2>4. CASE RunCancel(o)
    BY <2>4 DEF RunCancel, IInv, TypeOK
  <2>5. CASE RunWork(o)
    BY <2>5 DEF RunWork
  <2> QED
    BY <2>1, <2>2, <2>3, <2>4, <2>5
<1>4. ASSUME LoopCompletes PROVE CompletedInTime(p)
  BY <1>4 DEF LoopCompletes, IInv, TypeOK, OwnerInv, OwesInv
<1>5. ASSUME (\E o \in Timers : OnTimer(o) \/ OnClose(o)) \/ \E o \in Works : AfterWork(o)
      PROVE  FALSE
  BY <1>5 DEF OnTimer, OnClose, AfterWork
<1>6. ASSUME NEW o \in Ops, PrepareTimer(o) \/ StartWake(o) \/ OnStop(o) \/ CancelWake(o)
                             \/ DestroyStep(o)
      PROVE  FALSE
  BY <1>6 DEF PrepareTimer, StartWake, OnStop, CancelWake, DestroyStep, DestroyTimer,
     DestroyHop, DestroyWork, opVars
<1>7. ASSUME OnAsync \/ Awake \/ LeaveLoop \/ Sleep PROVE FALSE
  BY <1>7 DEF OnAsync, Awake, LeaveLoop, Sleep, opVars
<1>8. ASSUME NEW o \in Works, OnWork(o) PROVE FALSE
  BY <1>8 DEF OnWork, opVars
<1>9. ASSUME StopClose \/ StopStep PROVE FALSE
  BY <1>9 DEF StopClose, StopStep, StopWake, SeeQueueEmpty, SeeCounter, UvStop,
     WakeAfterStop, JoinAndCloseHandles, CloseLoop, opVars
<1>10. Next
  BY DEF vars, opVars
<1> QED
  BY <1>1, <1>2, <1>3, <1>4, <1>5, <1>6, <1>7, <1>8, <1>9, <1>10
     DEF Next, StartStep, CancelStep, LoopStep, TimerCallback

\* A receiver is completed at most once, and never after a destructor has won
\* the claim, whatever timer, stop request, destructor, pool, closed loop and
\* teardown race for it.  A destructor that loses the claim is no part of the
\* promise: the completion it came too late for still arrives.
THEOREM EachCompletesOnce == Spec => CompletionIsFinal
<1>1. IInv /\ OwnerInv /\ [Next]_vars =>
        [\A o \in Ops : result'[o] # result[o] => result[o] = "none" /\ ~Dropped(o)]_vars
  BY OnlyTheOwedComplete DEF CompletedInTime
<1> QED
  BY <1>1, SchedulerInvariant, PTL DEF Spec, CompletionIsFinal

-----------------------------------------------------------------------------
(* No wake-up is lost.                                                     *)

\* The stop flag, the loop and stop() go together: the flag stays up until the
\* loop has seen it, and the second wake() of stop() reaches a loop that polls.
LeaveInv ==
  /\ asyncReady <=> worker \notin {"closing", "stopped"}
  /\ asyncOpen <=> worker \notin {"closing", "stopped"}
  /\ loop = "exited" => worker \in {"flagged", "joining", "closing", "stopped"}
  /\ stopFlag => worker \in {"flagged", "joining"}
  /\ worker \in {"flagged", "joining"} => (stopFlag <=> loop # "exited")
  /\ worker = "joining" /\ loop = "polling" => pendingWake

Woken == pendingWake \/ worker = "waking"

\* Whoever has put a node into the queue that somebody waits for has woken the
\* loop or is about to.  (The wake-up for a timer whose operation is gone may
\* be lost: start() reads the loop through it.)
WakeInv ==
  /\ \A o \in Scheds : InQ("hop", o) => Woken \/ start[o] = "wake"
  /\ \A o \in Works : InQ("work", o) => Woken \/ start[o] = "wake"
  /\ \A o \in Timers : InQ("init", o) /\ Unclaimed(o) => Woken \/ start[o] = "wake"
  /\ \A o \in Timers : InQ("cancel", o) => Woken \/ cancel[o] = "wake"
  /\ \A o \in Works : InQ("work", o) /\ start[o] = "wake" => Unclaimed(o)
  /\ worker \notin {"running", "waking"} /\ queue # <<>> => pendingWake

LEMMA LeaveStep ==
  ASSUME IInv, LeaveInv, [Next]_vars
  PROVE  LeaveInv'
\* A step that leaves flag, loop and stop() alone and takes no wake-up back.
<1>1. ASSUME UNCHANGED <<asyncReady, asyncOpen, loop, stopFlag, worker>>,
             pendingWake => pendingWake'
      PROVE  LeaveInv'
  BY <1>1 DEF LeaveInv
<1>2. ASSUME NEW o \in Ops, PrepareTimer(o) \/ StartStep(o) \/ OnStop(o) \/ CancelStep(o)
                             \/ DestroyStep(o)
      PROVE  LeaveInv'
  <2>1. /\ UNCHANGED <<asyncReady, asyncOpen, worker>> /\ UNCHANGED loopVars
        /\ pendingWake => pendingWake'
    <3>1. StartStep(o) => /\ UNCHANGED <<asyncReady, asyncOpen, worker>> /\ UNCHANGED loopVars
                          /\ pendingWake => pendingWake'
      <4>1. Start(o) => /\ UNCHANGED <<asyncReady, asyncOpen, worker>> /\ UNCHANGED loopVars
                        /\ pendingWake' = pendingWake
        BY DEF Start
      <4>2. StartWake(o) => /\ UNCHANGED <<asyncReady, asyncOpen, worker>> /\ UNCHANGED loopVars
                            /\ pendingWake => pendingWake'
        <5>1. StartWake(o) => UNCHANGED <<asyncReady, asyncOpen, worker>> /\ UNCHANGED loopVars
          BY DEF StartWake
        <5>2. StartWake(o) => (pendingWake => pendingWake')
          BY DEF StartWake, Wake
        <5> QED
          BY <5>1, <5>2
      <4> QED
        BY <4>1, <4>2 DEF StartStep
    <3>2. CancelStep(o) => /\ UNCHANGED <<asyncReady, asyncOpen, worker>> /\ UNCHANGED loopVars
                           /\ pendingWake => pendingWake'
      <4>1. EnqueueCancel(o) => /\ UNCHANGED <<asyncReady, asyncOpen, worker>> /\ UNCHANGED loopVars
                                /\ pendingWake' = pendingWake
        BY DEF EnqueueCancel
      <4>2. CancelWake(o) => /\ UNCHANGED <<asyncReady, asyncOpen, worker>> /\ UNCHANGED loopVars
                             /\ pendingWake => pendingWake'
        BY DEF CancelWake, Wake
      <4> QED
        BY <4>1, <4>2 DEF CancelStep
    <3>3. DestroyStep(o) => /\ UNCHANGED <<asyncReady, asyncOpen, worker>> /\ UNCHANGED loopVars
                            /\ pendingWake => pendingWake'
      BY DEF DestroyStep, DestroyTimer, DestroyHop, DestroyWork, queueVars
    <3>4. PrepareTimer(o) \/ OnStop(o) =>
            /\ UNCHANGED <<asyncReady, asyncOpen, worker>> /\ UNCHANGED loopVars
            /\ pendingWake => pendingWake'
      BY DEF PrepareTimer, OnStop, queueVars
    <3> QED
      BY <1>2, <3>1, <3>2, <3>3, <3>4
  <2> QED
    BY <1>1, <2>1 DEF loopVars
<1>3. ASSUME NEW o \in Timers, TimerCallback(o) PROVE LeaveInv'
  BY <1>1, <1>3 DEF TimerCallback, OnTimer, OnClose, queueVars, loopVars
<1>4. ASSUME NEW o \in Works, OnWork(o) \/ AfterWork(o) PROVE LeaveInv'
  BY <1>1, <1>4 DEF OnWork, AfterWork, queueVars, loopVars
<1>5. ASSUME OnAsync \/ RunNode PROVE LeaveInv'
  <2>1. /\ UNCHANGED <<asyncReady, asyncOpen, stopFlag, worker>>
        /\ loop \in {"callbacks", "batch"} /\ loop' \in {"callbacks", "batch"}
    BY <1>5 DEF OnAsync, AtCallbacks, RunNode, queueVars
  <2> QED
    BY <2>1 DEF LeaveInv
<1>6. ASSUME Sleep \/ Awake \/ LeaveLoop PROVE LeaveInv'
  BY <1>6 DEF Sleep, Awake, LeaveLoop, AtCallbacks, LeaveInv, queueVars
<1>7. ASSUME StopClose \/ StopStep PROVE LeaveInv'
  <2>1. CASE StopClose \/ StopWake
    BY <2>1 DEF StopClose, StopWake, Wake, LeaveInv, loopVars
  <2>2. CASE SeeQueueEmpty \/ SeeCounter
    BY <2>2 DEF SeeQueueEmpty, SeeCounter, LeaveInv, queueVars, loopVars
  <2>3. CASE UvStop
    BY <2>3 DEF UvStop, LeaveInv, queueVars
  <2>4. CASE WakeAfterStop
    BY <2>4 DEF WakeAfterStop, Wake, LeaveInv, loopVars
  <2>5. CASE JoinAndCloseHandles
    BY <2>5 DEF JoinAndCloseHandles, LeaveInv, loopVars, IInv, TypeOK
  <2>6. CASE CloseLoop
    BY <2>6 DEF CloseLoop, LeaveInv, queueVars, loopVars
  <2> QED
    BY <1>7, <2>1, <2>2, <2>3, <2>4, <2>5, <2>6 DEF StopStep
<1>8. CASE UNCHANGED vars \/ LoopCompletes
  BY <1>1, <1>8 DEF vars, LoopCompletes, queueVars, loopVars
<1> QED
  BY <1>2, <1>3, <1>4, <1>5, <1>6, <1>7, <1>8 DEF Next, LoopStep

\* A step that queues nothing, takes no wake-up back and claims no work that
\* start() has just queued.
LEMMA WakeKept ==
  ASSUME WakeInv,
         \A k, o : InQ(k, o)' => InQ(k, o),
         queue' # <<>> => queue # <<>>,
         Woken => Woken',
         worker' \notin {"running", "waking"} =>
           pendingWake' \/ (worker \notin {"running", "waking"} /\ (pendingWake => pendingWake')),
         \A o \in Ops : start[o] = "wake" => start'[o] = "wake" \/ Woken',
         \A o \in Timers : cancel[o] = "wake" => cancel'[o] = "wake" \/ Woken',
         \A o \in Timers : Unclaimed(o)' => Unclaimed(o),
         \A o \in Works : start'[o] = "wake" /\ InQ("work", o)' =>
           start[o] = "wake" /\ (Unclaimed(o) => Unclaimed(o)')
  PROVE  WakeInv'
<1>1. Scheds \subseteq Ops /\ Timers \subseteq Ops /\ Works \subseteq Ops
  BY DEF Ops
<1>2. (\A o \in Scheds : InQ("hop", o) => Woken \/ start[o] = "wake")'
  BY <1>1 DEF WakeInv
<1>3. (\A o \in Works : InQ("work", o) => Woken \/ start[o] = "wake")'
  BY <1>1 DEF WakeInv
<1>4. (\A o \in Timers : InQ("init", o) /\ Unclaimed(o) => Woken \/ start[o] = "wake")'
  BY <1>1 DEF WakeInv
<1>5. (\A o \in Timers : InQ("cancel", o) => Woken \/ cancel[o] = "wake")'
  BY <1>1 DEF WakeInv
<1>6. (\A o \in Works : InQ("work", o) /\ start[o] = "wake" => Unclaimed(o))'
  BY <1>1 DEF WakeInv
<1>7. (worker \notin {"running", "waking"} /\ queue # <<>> => pendingWake)'
  BY DEF WakeInv
<1> QED
  BY <1>2, <1>3, <1>4, <1>5, <1>6, <1>7 DEF WakeInv

\* start() of an operation: its node, and the wake-up it still owes.
LEMMA StartWakes ==
  ASSUME IInv, WakeInv, NEW o \in Ops, Start(o)
  PROVE  WakeInv'
<1>1. /\ start[o] \in {"idle", "prepared"} /\ \A p \in Ops : p # o => start'[p] = start[p]
      /\ UNCHANGED <<cancel, closed, pendingWake, worker>>
  BY DEF Start, StartOpen, StartClosed, IInv, TypeOK
<1>2. ~InQ("hop", o) /\ ~InQ("init", o) /\ ~InQ("work", o)
  BY <1>1 DEF IInv, NodeInv, Listed, Started
<1>3. CASE closed
  <2>1. /\ start' = [start EXCEPT ![o] = "returned"] /\ queue' = queue
        /\ \A p \in Ops : p # o => claim'[p] = claim[p]
        /\ Unclaimed(o)' => Unclaimed(o)
    BY <1>3 DEF Start, StartOpen, StartClosed, Claim, IInv, TypeOK, Unclaimed
  <2>2. \A p \in Ops : Unclaimed(p)' => Unclaimed(p)
    BY <2>1 DEF Unclaimed
  <2>3. \A k, p : InQ(k, p)' <=> InQ(k, p)
    BY <2>1 DEF InQ
  <2>4. \A p \in Ops : start'[p] = "wake" => p # o
    BY <2>1 DEF IInv, TypeOK
  <2>5. \A p \in Works : start'[p] = "wake" /\ InQ("work", p)' =>
          start[p] = "wake" /\ (Unclaimed(p) => Unclaimed(p)')
    BY <1>1, <2>1, <2>4 DEF Ops, Unclaimed
  <2>6. \A p \in Ops : start[p] = "wake" => start'[p] = "wake"
    BY <1>1
  <2>7. Woken' <=> Woken
    BY <1>1 DEF Woken
  <2>8. \A p \in Timers : Unclaimed(p)' => Unclaimed(p)
    BY <2>2 DEF Ops
  <2> QED
    BY <1>1, <2>1, <2>3, <2>5, <2>6, <2>7, <2>8, WakeKept
<1>4. CASE ~closed
  <2>1. /\ start' = [start EXCEPT ![o] = "wake"] /\ UNCHANGED claim /\ worker = "running"
        /\ \E k \in {"hop", "init", "work"} :
             queue' = Append(queue, Node(k, o)) /\ (k = "work" => start[o] = "idle")
    BY <1>4 DEF Start, StartOpen, StartClosed, IInv, PhaseInv
  <2>2. PICK k \in {"hop", "init", "work"} :
          queue' = Append(queue, Node(k, o)) /\ (k = "work" => start[o] = "idle")
    BY <2>1
  <2>3. \A l, p : InQ(l, p)' <=> InQ(l, p) \/ (l = k /\ p = o)
    BY <1>2, <2>2, PushNode DEF IInv, ListInv, Kinds
  <2>4. /\ \A p \in Ops : start[p] = "wake" \/ p = o => start'[p] = "wake"
        /\ \A p \in Ops : p # o => start'[p] = start[p]
        /\ Woken' <=> Woken
        /\ \A p \in Ops : Unclaimed(p)' <=> Unclaimed(p)
    BY <1>1, <2>1 DEF IInv, TypeOK, Woken, Unclaimed
  <2>5. k = "work" => Unclaimed(o)
    BY <2>2 DEF IInv, ClaimInv
  <2>6. Scheds \subseteq Ops /\ Timers \subseteq Ops /\ Works \subseteq Ops
    BY DEF Ops
  <2>7. (\A p \in Scheds : InQ("hop", p) => Woken \/ start[p] = "wake")'
    BY <2>3, <2>4, <2>6 DEF WakeInv
  <2>8. (\A p \in Works : InQ("work", p) => Woken \/ start[p] = "wake")'
    BY <2>3, <2>4, <2>6 DEF WakeInv
  <2>9. (\A p \in Timers : InQ("init", p) /\ Unclaimed(p) => Woken \/ start[p] = "wake")'
    BY <2>3, <2>4, <2>6 DEF WakeInv
  <2>10. (\A p \in Timers : InQ("cancel", p) => Woken \/ cancel[p] = "wake")'
    BY <1>1, <2>3, <2>4 DEF WakeInv
  <2>11. (\A p \in Works : InQ("work", p) /\ start[p] = "wake" => Unclaimed(p))'
    BY <1>2, <2>3, <2>4, <2>5, <2>6 DEF WakeInv
  <2>12. (worker \notin {"running", "waking"} /\ queue # <<>> => pendingWake)'
    BY <1>1, <2>1
  <2> QED
    BY <2>7, <2>8, <2>9, <2>10, <2>11, <2>12 DEF WakeInv
<1> QED
  BY <1>3, <1>4

\* After wake() the loop is woken, unless it is closed and its queue empty.
LEMMA WakeWakes ==
  ASSUME IInv, LeaveInv, Wake, worker' = worker, queue' = queue
  PROVE  /\ pendingWake => pendingWake'
         /\ pendingWake' \/ (worker \in {"closing", "stopped"} /\ queue = <<>>)
BY DEF Wake, LeaveInv, IInv, PhaseInv, Drained

\* The wake-up at the end of start().
LEMMA StartWakeWakes ==
  ASSUME IInv, OwnerInv, LeaveInv, WakeInv, NEW o \in Ops, StartWake(o)
  PROVE  WakeInv'
<1>1. /\ start[o] = "wake" /\ start' = [start EXCEPT ![o] = "returned"]
      /\ UNCHANGED <<claim, cancel, gone, queue, worker>>
      /\ Wake \/ (~Alive(o) /\ UNCHANGED pendingWake)
  BY DEF StartWake
<1>2. /\ \A k, p : InQ(k, p)' <=> InQ(k, p)
      /\ \A p \in Ops : Unclaimed(p)' <=> Unclaimed(p)
      /\ \A p \in Ops : p # o => start'[p] = start[p]
      /\ start'[o] # "wake"
  BY <1>1 DEF InQ, Unclaimed, IInv, TypeOK
<1>3. pendingWake => pendingWake'
  BY <1>1, WakeWakes
<1>4. Woken => Woken'
  BY <1>1, <1>3 DEF Woken
<1>5. Scheds \subseteq Ops /\ Timers \subseteq Ops /\ Works \subseteq Ops
  BY DEF Ops
<1>6. CASE pendingWake'
  <2>1. Woken'
    BY <1>6 DEF Woken
  <2> QED
    BY <1>1, <1>2, <1>5, <1>6, <2>1, WakeKept
<1>7. CASE queue = <<>>
  <2>1. \A k, p : ~InQ(k, p)'
    BY <1>2, <1>7, EmptyLists
  <2> QED
    BY <1>1, <1>7, <2>1 DEF WakeInv
<1>8. CASE ~Alive(o)
  <2>1. /\ o \in Scheds => ~InQ("hop", o)
        /\ o \in Works => ~InQ("work", o)
        /\ o \in Timers => ~Unclaimed(o)
    BY <1>1, <1>8 DEF IInv, OwnerInv, GoneInv, HopInv, ClaimInv, WakeInv, Alive, Unclaimed
  <2>2. (\A p \in Scheds : InQ("hop", p) => Woken \/ start[p] = "wake")'
    BY <1>2, <1>4, <1>5, <2>1 DEF WakeInv
  <2>3. (\A p \in Works : InQ("work", p) => Woken \/ start[p] = "wake")'
    BY <1>2, <1>4, <1>5, <2>1 DEF WakeInv
  <2>4. (\A p \in Timers : InQ("init", p) /\ Unclaimed(p) => Woken \/ start[p] = "wake")'
    BY <1>2, <1>4, <1>5, <2>1 DEF WakeInv
  <2>5. (\A p \in Timers : InQ("cancel", p) => Woken \/ cancel[p] = "wake")'
    BY <1>1, <1>2, <1>4 DEF WakeInv
  <2>6. (\A p \in Works : InQ("work", p) /\ start[p] = "wake" => Unclaimed(p))'
    BY <1>2, <1>5 DEF WakeInv
  <2>7. (worker \notin {"running", "waking"} /\ queue # <<>> => pendingWake)'
    BY <1>1, <1>3 DEF WakeInv
  <2> QED
    BY <2>2, <2>3, <2>4, <2>5, <2>6, <2>7 DEF WakeInv
<1> QED
  BY <1>1, <1>6, <1>7, <1>8, WakeWakes

\* The cancel node of a timer, and its wake-up.
LEMMA CancelWakes ==
  ASSUME IInv, LeaveInv, WakeInv, NEW o \in Ops, CancelStep(o)
  PROVE  WakeInv'
<1>1. o \in Timers /\ cancel[o] \in {"enqueue", "wake"} /\ UNCHANGED <<start, claim, worker>>
  BY DEF CancelStep, EnqueueCancel, CancelWake, opVars
<1>2. /\ \A p \in Ops : Unclaimed(p)' <=> Unclaimed(p)
      /\ Timers \subseteq Ops /\ Works \subseteq Ops
  BY <1>1 DEF Unclaimed, Ops
<1>3. CASE EnqueueCancel(o) /\ closed
  <2>1. /\ cancel[o] = "enqueue" /\ cancel' = [cancel EXCEPT ![o] = "done"]
        /\ UNCHANGED <<queue, pendingWake>>
    BY <1>3 DEF EnqueueCancel
  <2>2. /\ \A k, p : InQ(k, p)' <=> InQ(k, p)
        /\ Woken' <=> Woken
        /\ \A p \in Timers : cancel[p] = "wake" => cancel'[p] = "wake"
    BY <1>1, <2>1 DEF InQ, Woken, IInv, TypeOK
  <2> QED
    BY <1>1, <1>2, <2>1, <2>2, WakeKept
<1>4. CASE EnqueueCancel(o) /\ ~closed
  <2>1. /\ cancel' = [cancel EXCEPT ![o] = "wake"] /\ worker = "running"
        /\ queue' = Append(queue, Node("cancel", o)) /\ UNCHANGED pendingWake
        /\ ~InQ("cancel", o)
    BY <1>4 DEF EnqueueCancel, IInv, PhaseInv, NodeInv, Listed
  <2>2. \A l, p : InQ(l, p)' <=> InQ(l, p) \/ (l = "cancel" /\ p = o)
    BY <1>1, <1>2, <2>1, PushNode DEF IInv, ListInv, Kinds
  <2>3. /\ Woken' <=> Woken
        /\ \A p \in Timers : cancel[p] = "wake" \/ p = o => cancel'[p] = "wake"
    BY <1>1, <2>1 DEF Woken, IInv, TypeOK
  <2>4. (\A p \in Scheds : InQ("hop", p) => Woken \/ start[p] = "wake")'
    BY <1>1, <2>2, <2>3 DEF WakeInv
  <2>5. (\A p \in Works : InQ("work", p) => Woken \/ start[p] = "wake")'
    BY <1>1, <2>2, <2>3 DEF WakeInv
  <2>6. (\A p \in Timers : InQ("init", p) /\ Unclaimed(p) => Woken \/ start[p] = "wake")'
    BY <1>1, <1>2, <2>2, <2>3 DEF WakeInv
  <2>7. (\A p \in Timers : InQ("cancel", p) => Woken \/ cancel[p] = "wake")'
    BY <2>2, <2>3 DEF WakeInv
  <2>8. (\A p \in Works : InQ("work", p) /\ start[p] = "wake" => Unclaimed(p))'
    BY <1>1, <1>2, <2>2 DEF WakeInv
  <2>9. (worker \notin {"running", "waking"} /\ queue # <<>> => pendingWake)'
    BY <1>1, <2>1
  <2> QED
    BY <2>4, <2>5, <2>6, <2>7, <2>8, <2>9 DEF WakeInv
<1>5. CASE CancelWake(o)
  <2>1. UNCHANGED queue /\ Wake
    BY <1>5 DEF CancelWake
  <2>2. \A k, p : InQ(k, p)' <=> InQ(k, p)
    BY <2>1 DEF InQ
  <2>3. CASE queue = <<>>
    <3>1. \A k, p : ~InQ(k, p)'
      BY <2>2, <2>3, EmptyLists
    <3> QED
      BY <2>1, <2>3, <3>1 DEF WakeInv
  <2>4. CASE pendingWake'
    <3>1. Woken'
      BY <2>4 DEF Woken
    <3> QED
      BY <1>1, <1>2, <2>1, <2>2, <2>4, <3>1, WakeKept
  <2> QED
    BY <1>1, <2>1, <2>3, <2>4, WakeWakes
<1> QED
  BY <1>3, <1>4, <1>5 DEF CancelStep

\* Steps that leave queue, wake-up and stop() alone: a claim of a timer, or of
\* work that is not queued by a start() under way, disturbs nothing.
LEMMA WakeUntouched ==
  ASSUME WakeInv,
         UNCHANGED <<queue, pendingWake, worker, cancel>>,
         \A o \in Ops : start'[o] = "wake" <=> start[o] = "wake",
         \A o \in Timers : Unclaimed(o)' => Unclaimed(o),
         \A o \in Works : start[o] = "wake" /\ InQ("work", o) => (Unclaimed(o) => Unclaimed(o)')
  PROVE  WakeInv'
<1>1. /\ \A k, p : InQ(k, p)' <=> InQ(k, p)
      /\ Woken' <=> Woken
      /\ Works \subseteq Ops
  BY DEF InQ, Woken, Ops
<1> QED
  BY <1>1, WakeKept

LEMMA WakeStep ==
  ASSUME IInv, OwnerInv, LeaveInv, WakeInv, [Next]_vars
  PROVE  WakeInv'
<1> USE DEF Claim, Unclaimed
<1>1. TypeOK /\ Timers \cap Works = {} /\ Scheds \cap Works = {} /\ Scheds \cap Timers = {}
      /\ Timers \subseteq Ops /\ Works \subseteq Ops /\ Scheds \subseteq Ops
  BY OpsAssumption DEF IInv, Ops
<1>2. ASSUME NEW o \in Ops, StartStep(o) \/ CancelStep(o) PROVE WakeInv'
  BY <1>2, StartWakes, StartWakeWakes, CancelWakes DEF StartStep
<1>3. ASSUME NEW o \in Ops, PrepareTimer(o) PROVE WakeInv'
  <2>1. /\ start' = [start EXCEPT ![o] = "prepared"] /\ start[o] = "idle"
        /\ UNCHANGED <<claim, cancel, gone, queue, pendingWake, worker>>
    BY <1>3 DEF PrepareTimer, queueVars
  <2> QED
    BY <1>1, <2>1, WakeUntouched DEF TypeOK
<1>4. ASSUME NEW o \in Timers, OnStop(o) \/ (DestroyTimer(o) /\ Unclaimed(o)) PROVE WakeInv'
  <2>1. /\ Unclaimed(o) /\ \E c \in {"stopped", "cancelled"} : claim' = [claim EXCEPT ![o] = c]
        /\ cancel' = [cancel EXCEPT ![o] = "enqueue"]
        /\ UNCHANGED <<start, queue, pendingWake, worker>>
    BY <1>4 DEF OnStop, DestroyTimer, queueVars
  <2>2. cancel[o] = "no"
    BY <2>1 DEF IInv, ClaimInv
  <2>3. /\ \A k, p : InQ(k, p)' <=> InQ(k, p)
        /\ Woken' <=> Woken
    BY <2>1 DEF InQ, Woken
  <2>4. \A p \in Timers : cancel[p] = "wake" => cancel'[p] = "wake"
    BY <1>1, <2>1, <2>2 DEF TypeOK
  <2>5. /\ \A p \in Timers : Unclaimed(p)' => Unclaimed(p)
        /\ \A p \in Works : Unclaimed(p) => Unclaimed(p)'
    BY <1>1, <2>1 DEF TypeOK
  <2> HIDE DEF Unclaimed
  <2> QED
    BY <1>1, <2>1, <2>3, <2>4, <2>5, WakeKept
<1>5. ASSUME NEW o \in Works, DestroyWork(o) PROVE WakeInv'
  <2>1. /\ start[o] = "returned"
        /\ claim' = [claim EXCEPT ![o] = IF Unclaimed(o) THEN "cancelled" ELSE @]
        /\ UNCHANGED <<start, cancel, queue, pendingWake, worker>>
    BY <1>1, <1>5 DEF DestroyWork, GiveUp, queueVars, TypeOK
  <2>2. /\ \A p \in Timers : Unclaimed(p)' => Unclaimed(p)
        /\ \A p \in Works : start[p] = "wake" => (Unclaimed(p) => Unclaimed(p)')
    BY <1>1, <2>1 DEF TypeOK
  <2> HIDE DEF Unclaimed
  <2> QED
    BY <2>1, <2>2, WakeUntouched
<1>6. ASSUME NEW o \in Scheds, DestroyHop(o) PROVE WakeInv'
  <2>1. /\ claim' = [claim EXCEPT ![o] = "cancelled"]
        /\ UNCHANGED <<start, cancel, pendingWake, worker>>
    BY <1>6 DEF DestroyHop
  <2>2. PICK i \in 1..Len(queue) : queue[i] = Node("hop", o) /\ queue' = RemoveAt(queue, i)
    BY <1>6 DEF DestroyHop
  <2>3. /\ InQ("hop", o)
        /\ \A l, p : InQ(l, p)' <=> InQ(l, p) /\ ~(l = "hop" /\ p = o)
    BY <1>1, <2>2, UnlinkNode DEF IInv, ListInv, Kinds
  <2>4. queue # <<>>
    BY <2>3, EmptyLists
  <2>5. /\ \A p \in Timers : Unclaimed(p)' => Unclaimed(p)
        /\ \A p \in Works : Unclaimed(p) => Unclaimed(p)'
        /\ Woken' <=> Woken
    BY <1>1, <2>1 DEF TypeOK, Woken
  <2> HIDE DEF Unclaimed
  <2> QED
    BY <1>1, <2>1, <2>3, <2>4, <2>5, WakeKept
<1>7. ASSUME OnAsync PROVE WakeInv'
  <2>1. queue' = <<>> /\ worker' = worker
    BY <1>7 DEF OnAsync
  <2>2. \A k, p : ~InQ(k, p)'
    <3>1. Range(<<>>) = {}
      BY DEF Range
    <3> QED
      BY <2>1, <3>1 DEF InQ
  <2> QED
    BY <2>1, <2>2 DEF WakeInv
<1>8. ASSUME RunNode PROVE WakeInv'
  <2>1. PICK o \in Ops :
          \/ Popped("hop", o) /\ RunHop(o)
          \/ Popped("init", o) /\ RunInit(o)
          \/ Popped("cancel", o) /\ RunCancel(o)
          \/ Popped("work", o) /\ RunWork(o)
    BY <1>8, RunNodePops
  <2>2. UNCHANGED <<start, cancel, gone, queue, pendingWake, worker>>
    BY <2>1 DEF Popped
  <2>3. CASE UNCHANGED claim
    BY <2>2, <2>3, WakeUntouched
  <2>4. CASE Popped("work", o) /\ RunWork(o) /\ claim' # claim
    <3>1. ~InQ("work", o) /\ claim' = [claim EXCEPT ![o] = "complete"]
      BY <2>4 DEF Popped, IInv, ListInv, Kinds, RunWork, ClaimToComplete
    <3>2. /\ \A p \in Timers : Unclaimed(p)' => Unclaimed(p)
          /\ \A p \in Works : InQ("work", p) => (Unclaimed(p) => Unclaimed(p)')
      BY <1>1, <3>1 DEF TypeOK
    <3> HIDE DEF Unclaimed
    <3> QED
      BY <2>2, <3>2, WakeUntouched
  <2> QED
    BY <2>1, <2>3, <2>4 DEF RunHop, RunInit, RunCancel
<1>9. ASSUME NEW o \in Timers, TimerCallback(o) PROVE WakeInv'
  <2>1. /\ \E c \in {"value", "stopped"} :
             claim' = [claim EXCEPT ![o] = IF Unclaimed(o) THEN c ELSE @]
        /\ UNCHANGED <<start, cancel, gone, queue, pendingWake, worker>>
    BY <1>1, <1>9 DEF TimerCallback, OnTimer, OnClose, ClaimToComplete, queueVars, TypeOK
  <2>2. /\ \A p \in Timers : Unclaimed(p)' => Unclaimed(p)
        /\ \A p \in Works : Unclaimed(p) => Unclaimed(p)'
    BY <1>1, <2>1 DEF TypeOK
  <2> HIDE DEF Unclaimed
  <2> QED
    BY <2>1, <2>2, WakeUntouched
<1>10. ASSUME NEW o \in Works, AfterWork(o) PROVE WakeInv'
  <2>1. /\ claim' = [claim EXCEPT ![o] = IF Unclaimed(o) THEN "complete" ELSE @] /\ job[o] = "after"
        /\ UNCHANGED <<start, cancel, gone, queue, pendingWake, worker>>
    BY <1>1, <1>10 DEF AfterWork, ClaimToComplete, queueVars, TypeOK
  <2>2. ~InQ("work", o)
    BY <2>1 DEF IInv, CountInv, Listed
  <2>3. /\ \A p \in Timers : Unclaimed(p)' => Unclaimed(p)
        /\ \A p \in Works : InQ("work", p) => (Unclaimed(p) => Unclaimed(p)')
    BY <1>1, <2>1, <2>2 DEF TypeOK
  <2> HIDE DEF Unclaimed
  <2> QED
    BY <2>1, <2>3, WakeUntouched
<1>11. ASSUME (\E o \in Works : OnWork(o)) \/ LoopCompletes \/ Awake \/ LeaveLoop \/ Sleep
       PROVE  WakeInv'
  <2>1. UNCHANGED <<start, claim, cancel, gone, queue, pendingWake, worker>>
    BY <1>11 DEF OnWork, LoopCompletes, Awake, LeaveLoop, Sleep, opVars, queueVars
  <2> QED
    BY <2>1, WakeUntouched
<1>12. ASSUME StopClose \/ StopStep PROVE WakeInv'
  <2>1. /\ UNCHANGED <<start, claim, cancel, gone, queue>>
        /\ \A k, p : InQ(k, p)' <=> InQ(k, p)
        /\ pendingWake => pendingWake'
    <3>1. CASE StopClose \/ StopWake \/ WakeAfterStop
      <4>1. UNCHANGED <<start, claim, cancel, gone, queue>>
        BY <3>1 DEF StopClose, StopWake, WakeAfterStop, opVars
      <4>2. pendingWake => pendingWake'
        BY <3>1 DEF StopClose, StopWake, WakeAfterStop, Wake
      <4> QED
        BY <4>1, <4>2 DEF InQ
    <3>2. CASE SeeQueueEmpty \/ SeeCounter \/ UvStop
      BY <3>2 DEF SeeQueueEmpty, SeeCounter, UvStop, opVars, queueVars, InQ
    <3>3. CASE JoinAndCloseHandles \/ CloseLoop
      BY <3>3 DEF JoinAndCloseHandles, CloseLoop, opVars, queueVars, InQ
    <3> QED
      BY <1>12, <3>1, <3>2, <3>3 DEF StopStep
  <2>2. \/ worker' = "waking"
        \/ worker \notin {"running", "waking"}
        \/ pendingWake'
    BY <1>12 DEF StopClose, StopStep, StopWake, SeeQueueEmpty, SeeCounter, UvStop, WakeAfterStop,
       JoinAndCloseHandles, CloseLoop, Wake, LeaveInv
  <2>3. Woken => Woken'
    BY <2>1, <2>2 DEF Woken
  <2> HIDE DEF Unclaimed
  <2>4. UNCHANGED claim => \A p \in Ops : Unclaimed(p)' <=> Unclaimed(p)
    BY DEF Unclaimed
  <2> QED
    BY <1>1, <2>1, <2>2, <2>3, <2>4, WakeKept
<1>13. CASE UNCHANGED vars
  BY <1>13, WakeUntouched DEF vars, opVars, queueVars
<1>14. ASSUME NEW o \in Ops, DestroyStep(o) PROVE WakeInv'
  <2>1. ASSUME DestroyTimer(o), ~Unclaimed(o) PROVE WakeInv'
    <3>1. UNCHANGED <<start, claim, cancel, queue, pendingWake, worker>>
      BY <2>1 DEF DestroyTimer, queueVars
    <3> QED
      BY <3>1, WakeUntouched
  <2>2. /\ DestroyTimer(o) => o \in Timers
        /\ DestroyWork(o) => o \in Works
        /\ DestroyHop(o) => o \in Scheds
    BY DEF DestroyTimer, DestroyWork, DestroyHop
  <2> HIDE DEF Unclaimed
  <2> QED
    BY <1>4, <1>5, <1>6, <1>14, <2>1, <2>2 DEF DestroyStep
<1>15. ASSUME NEW o \in Ops, OnStop(o) PROVE WakeInv'
  BY <1>4, <1>15 DEF OnStop
<1> QED
  BY <1>2, <1>3, <1>7, <1>8, <1>9, <1>10, <1>11, <1>12, <1>13, <1>14, <1>15 DEF Next, LoopStep

-----------------------------------------------------------------------------
(* At rest.                                                                *)

\* No thread is inside start(), a stop callback or a job of the pool, the loop
\* has no callback to run, and stop() can only look at the queue again: no
\* step that the specification is fair to but those of the drain loop can be
\* taken.
LoopAtRest ==
  /\ loop # "batch" /\ owes = {}
  /\ loop = "callbacks" => ~stopFlag
  /\ loop \in {"callbacks", "polling"} => Quiet

StopAtRest ==
  /\ worker \notin {"waking", "drained", "flagged", "closing"}
  /\ worker = "joining" => loop # "exited"

AtRest ==
  /\ \A o \in Ops : start[o] \in {"idle", "returned"}
  /\ \A o \in Timers : cancel[o] \in {"no", "done"}
  /\ \A o \in Works : job[o] # "pool"
  /\ LoopAtRest /\ StopAtRest

\* Then stop() has not been called, or has returned, or has only to look once
\* more at an empty queue and a counter that is zero; and every operation that
\* was started has completed or was dropped by a destructor that won the claim.
NobodyIsStuck ==
  AtRest =>
    /\ \/ worker \in {"running", "stopped"}
       \/ worker \in {"draining", "counting"} /\ queue = <<>> /\ inFlight = 0
    /\ \A o \in Ops : start[o] = "returned" => result[o] # "none" \/ Dropped(o)

\* Nothing is stuck: neither stop(), wherever the loop polls when it is called,
\* nor an operation, whoever races for it.  The steps left do not wait for each
\* other in vain; that they are taken is what fairness adds.
THEOREM NobodyIsEverStuck == Spec => []NobodyIsStuck
<1>1. Init => LeaveInv /\ WakeInv
  <2>1. Range(<<>>) = {}
    BY DEF Range
  <2> QED
    BY <2>1 DEF Init, LeaveInv, WakeInv, InQ
<1>2. IInv /\ OwnerInv /\ LeaveInv /\ WakeInv => NobodyIsStuck
  <2>1. SUFFICES ASSUME IInv, OwnerInv, LeaveInv, WakeInv, AtRest
                 PROVE  /\ \/ worker \in {"running", "stopped"}
                           \/ worker \in {"draining", "counting"} /\ queue = <<>> /\ inFlight = 0
                        /\ \A o \in Ops : start[o] = "returned" =>
                             result[o] # "none" \/ Dropped(o)
    BY DEF NobodyIsStuck
  <2>2. TypeOK /\ batch = <<>> /\ \A k, o : ~InB(k, o)
    BY <2>1, EmptyLists DEF IInv, ListInv, AtRest, LoopAtRest
  <2>3. worker # "joining"
    BY <2>1, <2>2 DEF AtRest, LoopAtRest, StopAtRest, LeaveInv, Quiet, TypeOK
  <2>4. worker \in {"running", "draining", "counting", "stopped"}
    BY <2>1, <2>2, <2>3 DEF AtRest, StopAtRest, TypeOK
  <2>5. loop = "exited" => worker = "stopped"
    BY <2>1, <2>4 DEF LeaveInv
  <2>6. worker # "stopped" => ~Woken /\ Quiet
    BY <2>1, <2>2, <2>4, <2>5 DEF AtRest, LoopAtRest, Quiet, TypeOK, Woken
  <2>7. worker = "stopped" => queue = <<>>
    BY <2>1 DEF IInv, PhaseInv, Drained
  <2>8. Timers \subseteq Ops /\ Works \subseteq Ops /\ Scheds \subseteq Ops
    BY DEF Ops
  <2>9. /\ \A o \in Scheds : ~InQ("hop", o)
        /\ \A o \in Works : ~InQ("work", o)
        /\ \A o \in Timers : InQ("init", o) => ~Unclaimed(o)
        /\ \A o \in Timers : ~InQ("cancel", o)
    <3>1. CASE worker = "stopped"
      BY <2>7, <3>1, EmptyLists
    <3>2. CASE worker # "stopped"
      BY <2>1, <2>6, <2>8, <3>2 DEF WakeInv, AtRest
    <3> QED
      BY <3>1, <3>2
  <2>10. \A o \in Works : job[o] \notin {"pool", "after"}
    <3>1. CASE worker = "stopped"
      <4>1. inFlight = 0 /\ Pend = {}
        BY <2>1, <3>1, FS_EmptySet DEF IInv, PhaseInv, Drained, CountInv
      <4> QED
        BY <4>1 DEF Pend
    <3>2. CASE worker # "stopped"
      BY <2>1, <2>6, <3>2 DEF Quiet, AtRest
    <3> QED
      BY <3>1, <3>2
  <2>11. \A o \in Timers : handle[o] \notin {"active", "closing"}
    BY <2>1, <2>6 DEF Quiet, IInv, PhaseInv
  <2>12. Pend = {} /\ inFlight = 0
    <3>1. Pend = {}
      BY <2>2, <2>9, <2>10 DEF Pend, Listed
    <3> QED
      BY <2>1, <3>1, FS_EmptySet DEF IInv, CountInv
  <2>13. \/ worker \in {"running", "stopped"}
         \/ worker \in {"draining", "counting"} /\ queue = <<>> /\ inFlight = 0
    BY <2>1, <2>4, <2>6, <2>12 DEF WakeInv, Woken
  <2>14. ASSUME NEW o \in Ops, start[o] = "returned", result[o] = "none", ~Dropped(o)
         PROVE  FALSE
    <3>1. Started(o) /\ claim[o] # "cancelled" /\ ~Owed(o)
      BY <2>1, <2>14 DEF Started, Dropped, OwnerInv, GoneInv, Owed, AtRest, LoopAtRest
    <3>2. CASE o \in Scheds
      <4>1. Alive(o)
        BY <2>1, <2>14, <3>1, <3>2 DEF Alive, OwnerInv, GoneInv
      <4> QED
        BY <2>1, <2>2, <2>9, <3>1, <3>2, <4>1 DEF IInv, HandsInv, Listed
    <3>3. CASE o \in Works
      <4>1. Unclaimed(o)
        BY <2>1, <2>14, <3>1, <3>3 DEF IInv, OwnerInv, OwesInv, ClaimInv, Unclaimed, Ops
      <4> QED
        BY <2>1, <2>12, <3>1, <3>3, <4>1 DEF IInv, HandsInv
    <3>4. CASE o \in Timers
      <4>1. claim[o] \in {"pending", "stopped"}
        BY <2>1, <2>14, <3>1, <3>4 DEF IInv, OwnerInv, OwesInv, ClaimInv, Ops
      <4>2. CASE claim[o] = "pending"
        <5>1. Unclaimed(o)
          BY <4>2 DEF Unclaimed
        <5> QED
          BY <2>1, <2>2, <2>9, <2>11, <3>1, <3>4, <5>1 DEF IInv, HandsInv, Listed
      <4>3. CASE claim[o] = "stopped"
        BY <2>1, <2>2, <2>9, <2>14, <3>1, <3>4, <4>3 DEF IInv, HandsInv, Listed, AtRest
      <4> QED
        BY <4>1, <4>2, <4>3
    <3> QED
      BY <3>2, <3>3, <3>4 DEF Ops
  <2> QED
    BY <2>13, <2>14
<1>3. IInv /\ OwnerInv /\ (LeaveInv /\ WakeInv) /\ [Next]_vars => (LeaveInv /\ WakeInv)'
  BY LeaveStep, WakeStep
<1> QED
  BY <1>1, <1>2, <1>3, SchedulerInvariant, PTL DEF Spec
=============================================================================
