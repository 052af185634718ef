-------------------------------- MODULE Mpsc --------------------------------
(***************************************************************************)
(* co::mpsc, the multi-producer single-consumer channel of the C++         *)
(* runtime (dart/native/include/dart_cpp_bridge/channel.hpp).              *)
(*                                                                         *)
(* A channel is unbounded (synchronous send, growing buffer), bounded      *)
(* (ring buffer, a send that finds it full parks) or a rendezvous          *)
(* (Capacity = 0, nothing is ever buffered).  Every operation runs in two  *)
(* parts: it arbitrates under State::mu, which is one step here, and then, *)
(* the mutex released, it runs the completions it owes one after the       *)
(* other.  Between the two any other thread may enter the channel, a stop  *)
(* callback may fire, or a parked operation may be destroyed.              *)
(*                                                                         *)
(* A send operation stands for the value it carries.  Waiting for an       *)
(* in-flight stop callback (stop_reg_.reset()) is not a step: a callback   *)
(* that lost the arbitration changes nothing and one that won owns the     *)
(* only completion.                                                        *)
(***************************************************************************)
EXTENDS Naturals, Sequences, FiniteSets, SequencesExt

CONSTANTS
  Sends,       \* send operations, each also the value it sends
  Recvs,       \* awaited receive operations
  Bounded,     \* bounded_mode: FALSE for co::mpsc::unbounded
  Capacity,    \* capacity of the ring buffer (bounded only; 0 = rendezvous)
  MaxSenders,  \* bound on the number of live sender handles
  None         \* "no parked receiver"

ASSUME MpscAssumption ==
  /\ Sends \cap Recvs = {}
  /\ None \notin Sends \cup Recvs
  /\ Bounded \in BOOLEAN
  /\ Capacity \in Nat
  /\ MaxSenders \in Nat \ {0}

Ops == Sends \cup Recvs

VARIABLES
  buffer,    \* bq / uq: accepted values, oldest first
  parked,    \* ws_head .. ws_tail: parked sends, oldest first
  slot,      \* recv_slot: the parked receive, or None
  closed,    \* the closed flag
  count,     \* the atomic count of values in bq
  senders,   \* the atomic number of sender handles
  dropping,  \* a handle took senders to 0 and has not called close() yet
  stage,     \* SendNode::stage / RecvNode::stage of every operation
  stopreq,   \* stop_requested_ of every operation
  began,     \* operations whose start() has arbitrated
  calls,     \* completions owed by threads that released mu, in order
  outcome,   \* how every operation completed
  taken      \* history: the values handed to the consumer side, in order

mutexVars == <<buffer, parked, slot, closed, count>>
handleVars == <<senders, dropping>>
opVars == <<stage, stopreq, began>>
vars == <<buffer, parked, slot, closed, count, senders, dropping,
          stage, stopreq, began, calls, outcome, taken>>

Stages == {"init", "queued", "claimed", "closed", "stopped", "gone"}
SendResults == {"accepted", "rejected", "stopped"}
RecvResults == {"value", "end", "violation", "stopped"}

Completion(op, res) == [op |-> op, res |-> res]
Completions == [op : Sends, res : SendResults] \cup [op : Recvs, res : RecvResults]

\* The calling thread releases mu and owes the completions of c, in order.
Owe(c) == calls' = calls \cup ({c} \ {<<>>})

Init ==
  /\ buffer = <<>>
  /\ parked = <<>>
  /\ slot = None
  /\ closed = FALSE
  /\ count = 0
  /\ senders = 1
  /\ dropping = FALSE
  /\ stage = [op \in Ops |-> "init"]
  /\ stopreq = [op \in Ops |-> FALSE]
  /\ began = {}
  /\ calls = {}
  /\ outcome = [op \in Ops |-> "none"]
  /\ taken = <<>>

-----------------------------------------------------------------------------
(* Sending: send_opstate::start for a bounded channel, State::try_send for *)
(* an unbounded one, which needs a live handle for the whole call.         *)

Push(b, v) == IF Len(b) < Capacity THEN Append(b, v) ELSE b

\* A send that has not arbitrated yet; it starts if the guard lets it.
SendStarts(s) ==
  /\ s \notin began
  /\ Bounded \/ senders > 0
  /\ began' = began \cup {s}
  /\ UNCHANGED <<handleVars, stopreq, outcome>>

SendStopped(s) ==
  /\ SendStarts(s)
  /\ stopreq[s]
  /\ Owe(<<Completion(s, "stopped")>>)
  /\ UNCHANGED <<mutexVars, stage, taken>>

SendClosed(s) ==
  /\ SendStarts(s)
  /\ ~stopreq[s]
  /\ closed
  /\ Owe(<<Completion(s, "rejected")>>)
  /\ UNCHANGED <<mutexVars, stage, taken>>

\* Hand-off to the parked receive: its completion runs before the send's own.
SendDirect(s) ==
  /\ SendStarts(s)
  /\ ~stopreq[s] /\ ~closed
  /\ slot # None
  /\ slot' = None
  /\ stage' = [stage EXCEPT ![slot] = "claimed"]
  /\ taken' = Append(taken, s)
  /\ Owe(<<Completion(slot, "value"), Completion(s, "accepted")>>)
  /\ UNCHANGED <<buffer, parked, closed, count>>

SendBuffered(s) ==
  /\ SendStarts(s)
  /\ ~stopreq[s] /\ ~closed
  /\ slot = None
  /\ Bounded => Len(buffer) < Capacity
  /\ buffer' = Append(buffer, s)
  /\ count' = IF Bounded THEN count + 1 ELSE count
  /\ Owe(<<Completion(s, "accepted")>>)
  /\ UNCHANGED <<parked, slot, closed, stage, taken>>

SendParked(s) ==
  /\ SendStarts(s)
  /\ ~stopreq[s] /\ ~closed
  /\ slot = None
  /\ Bounded /\ Len(buffer) >= Capacity
  /\ parked' = Append(parked, s)
  /\ stage' = [stage EXCEPT ![s] = "queued"]
  /\ UNCHANGED <<buffer, slot, closed, count, calls, taken>>

SendStart(s) == SendStopped(s) \/ SendClosed(s) \/ SendDirect(s)
                  \/ SendBuffered(s) \/ SendParked(s)

-----------------------------------------------------------------------------
(* Receiving: recv_opstate::start and State::try_recv take a value the     *)
(* same way.  A slot freed in the ring buffer is refilled at once with the *)
(* value of the oldest parked send; with nothing buffered that value goes  *)
(* straight to the consumer.                                               *)

HasValue == buffer # <<>> \/ parked # <<>>

\* The completion owed to the parked send whose value is claimed, if any.
ClaimOldest ==
  IF parked = <<>> THEN <<>> ELSE <<Completion(Head(parked), "accepted")>>

\* Mutation of TakeValue: the freed slot is refilled before it is freed.
TakeRefillFirst ==
  /\ HasValue
  /\ taken' = Append(taken, IF buffer # <<>> THEN Head(buffer) ELSE Head(parked))
  /\ parked' = IF parked = <<>> THEN <<>> ELSE Tail(parked)
  /\ stage' = IF parked = <<>> THEN stage
              ELSE [stage EXCEPT ![Head(parked)] = "claimed"]
  /\ buffer' = IF buffer = <<>> THEN <<>>
               ELSE IF parked = <<>> THEN Tail(buffer)
               ELSE Tail(Push(buffer, Head(parked)))
  /\ count' = IF Bounded /\ buffer # <<>> /\ parked = <<>> THEN count - 1 ELSE count
  /\ UNCHANGED <<slot, closed>>

\* Mutation of TakeValue: the wait list and the buffer are used as stacks.
TakeNewest ==
  /\ HasValue
  /\ taken' = Append(taken, IF buffer # <<>> THEN Last(buffer) ELSE Last(parked))
  /\ parked' = IF parked = <<>> THEN <<>> ELSE Front(parked)
  /\ stage' = IF parked = <<>> THEN stage
              ELSE [stage EXCEPT ![Last(parked)] = "claimed"]
  /\ buffer' = IF buffer = <<>> THEN <<>>
               ELSE IF parked = <<>> THEN Front(buffer)
               ELSE Push(Front(buffer), Last(parked))
  /\ count' = IF Bounded /\ buffer # <<>> /\ parked = <<>> THEN count - 1 ELSE count
  /\ UNCHANGED <<slot, closed>>

TakeValue ==
  /\ HasValue
  /\ taken' = Append(taken, IF buffer # <<>> THEN Head(buffer) ELSE Head(parked))
  /\ parked' = IF parked = <<>> THEN <<>> ELSE Tail(parked)
  /\ stage' = IF parked = <<>> THEN stage
              ELSE [stage EXCEPT ![Head(parked)] = "claimed"]
  /\ buffer' = IF buffer = <<>> THEN <<>>
               ELSE IF parked = <<>> THEN Tail(buffer)
               ELSE Push(Tail(buffer), Head(parked))
  /\ count' = IF Bounded /\ buffer # <<>> /\ parked = <<>> THEN count - 1 ELSE count
  /\ UNCHANGED <<slot, closed>>

RecvStarts(r) ==
  /\ r \notin began
  /\ began' = began \cup {r}
  /\ UNCHANGED <<handleVars, stopreq, outcome>>

RecvStopped(r) ==
  /\ RecvStarts(r)
  /\ stopreq[r]
  /\ Owe(<<Completion(r, "stopped")>>)
  /\ UNCHANGED <<mutexVars, stage, taken>>

RecvValue(r) ==
  /\ RecvStarts(r)
  /\ ~stopreq[r]
  /\ TakeValue
  /\ Owe(Append(ClaimOldest, Completion(r, "value")))

\* Mutation of RecvClosed: closed is looked at before the buffer is.
RecvClosedFirst(r) ==
  /\ RecvStarts(r)
  /\ ~stopreq[r]
  /\ closed
  /\ Owe(<<Completion(r, "end")>>)
  /\ UNCHANGED <<mutexVars, stage, taken>>

RecvClosed(r) ==
  /\ RecvStarts(r)
  /\ ~stopreq[r] /\ ~HasValue
  /\ closed
  /\ Owe(<<Completion(r, "end")>>)
  /\ UNCHANGED <<mutexVars, stage, taken>>

\* A second receive while one is parked is refused with a logic_error.
RecvViolation(r) ==
  /\ RecvStarts(r)
  /\ ~stopreq[r] /\ ~HasValue /\ ~closed
  /\ slot # None
  /\ Owe(<<Completion(r, "violation")>>)
  /\ UNCHANGED <<mutexVars, stage, taken>>

\* Mutation of RecvParked: closed is read before the mutex is taken only.
RecvParkedUnchecked(r) ==
  /\ RecvStarts(r)
  /\ ~stopreq[r] /\ ~HasValue
  /\ slot = None
  /\ slot' = r
  /\ stage' = [stage EXCEPT ![r] = "queued"]
  /\ UNCHANGED <<buffer, parked, closed, count, calls, taken>>

RecvParked(r) ==
  /\ RecvStarts(r)
  /\ ~stopreq[r] /\ ~HasValue /\ ~closed
  /\ slot = None
  /\ slot' = r
  /\ stage' = [stage EXCEPT ![r] = "queued"]
  /\ UNCHANGED <<buffer, parked, closed, count, calls, taken>>

RecvStart(r) == RecvStopped(r) \/ RecvValue(r) \/ RecvClosed(r)
                  \/ RecvViolation(r) \/ RecvParked(r)

\* Receiver::try_recv; one that finds nothing changes nothing.
TryRecv ==
  /\ TakeValue
  /\ Owe(ClaimOldest)
  /\ UNCHANGED <<handleVars, stopreq, began, outcome>>

-----------------------------------------------------------------------------
(* Cancellation: a stop request on the awaiting receiver's token, or the   *)
(* destruction of the operation state while it is parked.                  *)

\* unlink_send for a send, clearing recv_slot for a receive.
Unlink(op) ==
  /\ stage[op] = "queued"
  /\ IF op \in Sends
     THEN \E i \in 1..Len(parked) : parked[i] = op /\ parked' = RemoveAt(parked, i)
     ELSE UNCHANGED parked
  /\ slot' = IF op \in Recvs THEN None ELSE slot
  /\ UNCHANGED <<buffer, closed, count, handleVars, began, outcome, taken>>

\* Mutation of StopParked: a node that was already claimed is stopped too.
StopParkedLate(op) ==
  /\ stage[op] = "claimed"
  /\ stage' = [stage EXCEPT ![op] = "stopped"]
  /\ Owe(<<Completion(op, "stopped")>>)
  /\ UNCHANGED <<mutexVars, handleVars, stopreq, began, outcome, taken>>

\* on_stop of a parked operation.
StopParked(op) ==
  /\ Unlink(op)
  /\ stage' = [stage EXCEPT ![op] = "stopped"]
  /\ Owe(<<Completion(op, "stopped")>>)
  /\ UNCHANGED stopreq

\* on_stop racing start(): leave the flag for the arbitration.  It also fires
\* after an arbitration that did not park, and is then ignored.
StopEarly(op) ==
  /\ Bounded \/ op \in Recvs
  /\ stage[op] = "init"
  /\ outcome[op] = "none"
  /\ ~stopreq[op]
  /\ stopreq' = [stopreq EXCEPT ![op] = TRUE]
  /\ UNCHANGED <<mutexVars, handleVars, stage, began, calls, outcome, taken>>

\* ~send_opstate / ~recv_opstate of a parked operation: no completion.
Destroy(op) ==
  /\ Unlink(op)
  /\ stage' = [stage EXCEPT ![op] = "gone"]
  /\ UNCHANGED <<stopreq, calls>>

-----------------------------------------------------------------------------
(* Closing and the sender handles.                                         *)

\* Mutation of CloseState: only the oldest parked send is woken.
CloseWakesOne ==
  /\ ~closed
  /\ closed' = TRUE
  /\ slot' = None
  /\ parked' = <<>>
  /\ stage' = [op \in Ops |-> IF op = slot \/ op \in Range(parked) THEN "closed"
                              ELSE stage[op]]
  /\ Owe((IF slot = None THEN <<>> ELSE <<Completion(slot, "end")>>)
           \o (IF parked = <<>> THEN <<>> ELSE <<Completion(Head(parked), "rejected")>>))
  /\ UNCHANGED <<buffer, count, stopreq, began, outcome, taken>>

\* State::close() the first time; the parked receive completes first, then
\* the parked sends from the oldest on.
CloseState ==
  /\ ~closed
  /\ closed' = TRUE
  /\ slot' = None
  /\ parked' = <<>>
  /\ stage' = [op \in Ops |-> IF op = slot \/ op \in Range(parked) THEN "closed"
                              ELSE stage[op]]
  /\ Owe((IF slot = None THEN <<>> ELSE <<Completion(slot, "end")>>)
           \o [i \in DOMAIN parked |-> Completion(parked[i], "rejected")])
  /\ UNCHANGED <<buffer, count, stopreq, began, outcome, taken>>

\* An explicit close(), or the Receiver destroyed or moved over.
Close == CloseState /\ UNCHANGED handleVars

CloneSender ==
  /\ senders \in 1..(MaxSenders - 1)
  /\ senders' = senders + 1
  /\ UNCHANGED <<mutexVars, dropping, opVars, calls, outcome, taken>>

\* Mutation of DropSender: fetch_sub's old value is taken for the new one.
DropSenderOffByOne ==
  /\ senders > 0
  /\ senders' = senders - 1
  /\ dropping' = (senders = 0)
  /\ UNCHANGED <<mutexVars, opVars, calls, outcome, taken>>

\* release(): the handle that takes the count to 0 goes on to close().
DropSender ==
  /\ senders > 0
  /\ senders' = senders - 1
  /\ dropping' = (senders = 1)
  /\ UNCHANGED <<mutexVars, opVars, calls, outcome, taken>>

DropClose ==
  /\ dropping
  /\ dropping' = FALSE
  /\ UNCHANGED senders
  /\ \/ CloseState
     \/ closed /\ UNCHANGED <<mutexVars, opVars, calls, outcome, taken>>

-----------------------------------------------------------------------------
\* The next completion a thread owes.
Fire(c) ==
  /\ outcome' = [outcome EXCEPT ![Head(c).op] = Head(c).res]
  /\ calls' = (calls \ {c}) \cup ({Tail(c)} \ {<<>>})
  /\ UNCHANGED <<mutexVars, handleVars, opVars, taken>>

FireNext == \E c \in calls : Fire(c)

Next ==
  \/ \E s \in Sends : SendStart(s)
  \/ \E r \in Recvs : RecvStart(r)
  \/ TryRecv
  \/ \E op \in Ops : StopParked(op) \/ StopEarly(op) \/ Destroy(op)
  \/ Close \/ CloneSender \/ DropSender \/ DropClose
  \/ FireNext

Spec == Init /\ [][Next]_vars

\* Threads that released mu run on, and the last handle's destructor does too.
FairSpec == Spec /\ WF_vars(FireNext) /\ WF_vars(DropClose)

-----------------------------------------------------------------------------
(* Properties.                                                             *)

\* Types of the channel state and of what is known of the operations.
TypeOK ==
  /\ buffer \in Seq(Sends)
  /\ parked \in Seq(Sends)
  /\ slot \in Recvs \cup {None}
  /\ closed \in BOOLEAN
  /\ count \in Nat
  /\ senders \in 0..MaxSenders
  /\ dropping \in BOOLEAN
  /\ stage \in [Ops -> Stages]
  /\ stopreq \in [Ops -> BOOLEAN]
  /\ began \subseteq Ops
  /\ \A c \in calls : c \in Seq(Completions) /\ c # <<>>
  /\ outcome \in [Ops -> SendResults \cup RecvResults \cup {"none"}]
  /\ taken \in Seq(Sends)

\* The parked receive is the one live queued node ("non-null <=> a live node
\* in kQueued"), and it waits only while there is nothing it could have got:
\* no value, no parked send, no close.  This is what "no lost wake-up" means.
ParkedReceiveHasNothing ==
  /\ \A r \in Recvs : stage[r] = "queued" <=> slot = r
  /\ slot # None => buffer = <<>> /\ parked = <<>> /\ ~closed

\* A send waits only on an open, bounded channel whose buffer is full, and
\* the wait list links exactly the queued nodes, each once.
ParkedSendsFindItFull ==
  /\ \A s \in Sends : stage[s] = "queued" <=> s \in Range(parked)
  /\ \A i, j \in 1..Len(parked) : parked[i] = parked[j] => i = j
  /\ parked # <<>> => Bounded /\ Len(buffer) = Capacity /\ ~closed

\* The lock-free count that remaining_capacity() reads is exact whenever the
\* mutex is free, and a bounded channel never holds more than its capacity.
CountIsExact ==
  Bounded => count = Len(buffer) /\ count <= Capacity

\* The completions of op that some thread still owes.
Owed(op) == {p \in UNION {{c} \X DOMAIN c : c \in calls} : p[1][p[2]].op = op}

\* The arbitration has decided about op: it has started, is not parked, and
\* was not destroyed while it was.
Settled(op) == op \in began /\ stage[op] \notin {"queued", "gone"}

\* Every operation completes exactly once, whoever wins the race between a
\* peer, close(), a stop request and the destruction of the operation: once
\* the arbitration has decided about it, and not before, it has completed or
\* one thread owes it one completion.
CompletesOnce ==
  \A op \in Ops :
    Cardinality(Owed(op)) + (IF outcome[op] = "none" THEN 0 ELSE 1)
      = (IF Settled(op) THEN 1 ELSE 0)

\* The result op has completed with or is about to.
HasResult(op, res) ==
  \/ outcome[op] = res
  \/ \E c \in calls : \E i \in 1..Len(c) : c[i] = Completion(op, res)

\* "accepted" is told to exactly those sends whose value the consumer got or
\* will find in the buffer; a send that was rejected, stopped or destroyed
\* has had no effect, and no value is in two places.
AcceptedIsKept ==
  LET kept == taken \o buffer IN
  /\ \A s \in Sends : HasResult(s, "accepted") <=> s \in Range(kept)
  /\ \A i, j \in 1..Len(kept) : kept[i] = kept[j] => i = j

\* Once a receive has reported the end of the channel nothing is left in it
\* and nothing can come any more: what was buffered at the close came before.
EndIsFinal ==
  (\E r \in Recvs : HasResult(r, "end")) => closed /\ buffer = <<>> /\ parked = <<>>

\* The channel keeps the promise of ChannelSpec: one FIFO line.
Line == INSTANCE ChannelSpec WITH
  Values <- Sends, line <- buffer \o parked, accepted <- Len(buffer),
  delivered <- taken, open <- ~closed
IsOneFifoLine == Line!Spec

\* When the last sender handle is dropped, every receive that has started
\* completes: none stays parked behind a channel nobody can send to.
LastSenderEndsReceives ==
  \A r \in Recvs :
    (senders = 0 /\ r \in began) ~> (outcome[r] # "none" \/ stage[r] = "gone")

\* Closing releases every send that has started.
CloseReleasesSends ==
  \A s \in Sends :
    (closed /\ s \in began) ~> (outcome[s] # "none" \/ stage[s] = "gone")
=============================================================================
