----------------------------- MODULE MergeQueue -----------------------------
(***************************************************************************)
(* merge_concurrent (dart/native/include/dart_cpp_bridge/stream.hpp): one  *)
(* driver coroutine per source pushes into a MergeQueue, one consumer pops *)
(* the merged stream.  A pop that finds nothing leaves the sender of a     *)
(* oneshot channel in the queue of waiters and parks on its receiver.      *)
(*                                                                         *)
(* The parked pop may be destroyed; its sender then stays in the queue,    *)
(* dead, and the next pop leaves another one behind it.  There is one      *)
(* consumer ("single-reader by contract"), so a waiter is represented by   *)
(* whether its receiver is still the consumer's: at most one is live.  A   *)
(* driver that has taken a waiter sends to it after releasing the mutex.   *)
(***************************************************************************)
EXTENDS Naturals, Sequences, FiniteSets, SequencesExt

CONSTANTS
  Sources,      \* the sources that are not empty handles
  Items,        \* number of values every source yields before it ends
  MayFail,      \* whether a source may throw instead of going on
  MaxAbandons,  \* bound on the parked pops that are destroyed
  WakeUp,       \* the nullopt sent to a waiter when a source ends
  Closed,       \* what a waiter sees whose sender was destroyed
  None

Values == Sources \X (1..Items)
Waiter == {"live", "dead"}

ASSUME MergeAssumption ==
  /\ IsFiniteSet(Sources)
  /\ Items \in Nat /\ MaxAbandons \in Nat
  /\ MayFail \in BOOLEAN
  /\ WakeUp # Closed /\ WakeUp # None /\ Closed # None
  /\ {WakeUp, Closed, None} \cap Values = {}
  /\ None \notin Waiter

Total == Cardinality(Sources)

VARIABLES
  q,          \* queued values
  waiters,    \* parked senders, oldest first: "live" or "dead"
  done,       \* sources that have ended
  error,      \* whether a source has failed
  driver,     \* where every driver is
  yielded,    \* how many values its source has yielded
  chosen,     \* the waiter a driver has taken out of the queue, or None
  consumer,   \* where the consumer is
  reply,      \* what the channel of the live waiter has settled with, or None
  out,        \* history: the values the merged stream has yielded
  abandons

queueVars == <<q, waiters, done, error>>
driverVars == <<driver, yielded, chosen>>
consumerVars == <<consumer, reply, out, abandons>>
vars == <<q, waiters, done, error, driver, yielded, chosen, consumer, reply, out, abandons>>

Init ==
  /\ q = <<>> /\ waiters = <<>> /\ done = 0 /\ error = FALSE
  /\ driver = [s \in Sources |-> "pulling"]
  /\ yielded = [s \in Sources |-> 0]
  /\ chosen = [s \in Sources |-> None]
  /\ consumer = "popping" /\ reply = None /\ out = <<>>
  /\ abandons = 0

-----------------------------------------------------------------------------
(* The drivers. *)

\* merge_driver: what co_await src.next() brings.
Pull(s) ==
  /\ driver[s] = "pulling"
  /\ \/ /\ yielded[s] < Items
        /\ yielded' = [yielded EXCEPT ![s] = @ + 1]
        /\ driver' = [driver EXCEPT ![s] = "pushing"]
     \/ /\ yielded[s] = Items
        /\ driver' = [driver EXCEPT ![s] = "ending"]
        /\ UNCHANGED yielded
     \/ /\ MayFail
        /\ driver' = [driver EXCEPT ![s] = "failing"]
        /\ UNCHANGED yielded
  /\ UNCHANGED <<queueVars, chosen, consumerVars>>

Value(s) == <<s, yielded[s]>>

\* push after an error: the value is dropped.
PushRefused(s) ==
  /\ driver[s] = "pushing" /\ error
  /\ driver' = [driver EXCEPT ![s] = "pulling"]
  /\ UNCHANGED <<queueVars, yielded, chosen, consumerVars>>

\* push with nobody waiting: dead waiters are thrown away on the way.
PushQueued(s) ==
  /\ driver[s] = "pushing" /\ ~error
  /\ ~Contains(waiters, "live")
  /\ waiters' = <<>>
  /\ q' = Append(q, Value(s))
  /\ driver' = [driver EXCEPT ![s] = "pulling"]
  /\ UNCHANGED <<done, error, yielded, chosen, consumerVars>>

\* push takes the first waiter that is not detached, and the mutex is released.
PushChooses(s) ==
  /\ driver[s] = "pushing" /\ ~error
  /\ \E i \in 1..Len(waiters) :
       /\ waiters[i] = "live"
       /\ \A j \in 1..(i - 1) : waiters[j] = "dead"
       /\ waiters' = SubSeq(waiters, i + 1, Len(waiters))
  /\ chosen' = [chosen EXCEPT ![s] = "live"]
  /\ driver' = [driver EXCEPT ![s] = "sending"]
  /\ UNCHANGED <<q, done, error, yielded, consumerVars>>

\* Mutation of PushSends: the result of send() is not looked at.
PushSendsBlindly(s) ==
  /\ driver[s] = "sending"
  /\ IF chosen[s] = "live" THEN reply' = Value(s) ELSE UNCHANGED reply
  /\ driver' = [driver EXCEPT ![s] = "pulling"]
  /\ chosen' = [chosen EXCEPT ![s] = None]
  /\ UNCHANGED <<queueVars, yielded, consumer, out, abandons>>

\* send(pending): refused by a receiver detached in between; push starts over.
PushSends(s) ==
  /\ driver[s] = "sending"
  /\ IF chosen[s] = "live"
     THEN reply' = Value(s) /\ driver' = [driver EXCEPT ![s] = "pulling"]
     ELSE UNCHANGED reply /\ driver' = [driver EXCEPT ![s] = "pushing"]
  /\ chosen' = [chosen EXCEPT ![s] = None]
  /\ UNCHANGED <<queueVars, yielded, consumer, out, abandons>>

\* Take the oldest waiter, detached or not, to be woken without the mutex.
TakeOldest(s) ==
  chosen' = [chosen EXCEPT ![s] = IF waiters = <<>> THEN None ELSE Head(waiters)]

\* Mutation of OneDone: the end of a source wakes nobody.
OneDoneSilent(s) ==
  /\ driver[s] = "ending"
  /\ done' = IF error THEN done ELSE done + 1
  /\ driver' = [driver EXCEPT ![s] = "waking"]
  /\ UNCHANGED <<q, waiters, error, yielded, chosen, consumerVars>>

\* one_done.
OneDone(s) ==
  /\ driver[s] = "ending"
  /\ driver' = [driver EXCEPT ![s] = "waking"]
  /\ IF error THEN UNCHANGED <<done, waiters, chosen>>
     ELSE /\ done' = done + 1
          /\ TakeOldest(s)
          /\ waiters' = IF waiters = <<>> THEN <<>> ELSE Tail(waiters)
  /\ UNCHANGED <<q, error, yielded, consumerVars>>

\* fail: a waiter behind the oldest one is closed with its sender.
Fail(s) ==
  /\ driver[s] = "failing"
  /\ driver' = [driver EXCEPT ![s] = "waking"]
  /\ IF error THEN UNCHANGED <<queueVars, chosen, reply>>
     ELSE /\ error' = TRUE /\ done' = Total
          /\ q' = <<>> /\ waiters' = <<>>
          /\ TakeOldest(s)
          /\ reply' = IF waiters # <<>> /\ Contains(Tail(waiters), "live")
                      THEN Closed ELSE reply
  /\ UNCHANGED <<yielded, consumer, out, abandons>>

\* The nullopt sent to the waiter taken, if there was one and it still lives.
Wake(s) ==
  /\ driver[s] = "waking"
  /\ reply' = IF chosen[s] = "live" THEN WakeUp ELSE reply
  /\ chosen' = [chosen EXCEPT ![s] = None]
  /\ driver' = [driver EXCEPT ![s] = "done"]
  /\ UNCHANGED <<queueVars, yielded, consumer, out, abandons>>

DriverStep(s) ==
  \/ Pull(s) \/ PushRefused(s) \/ PushQueued(s) \/ PushChooses(s) \/ PushSends(s)
  \/ OneDone(s) \/ Fail(s) \/ Wake(s)

-----------------------------------------------------------------------------
(* The consumer: pop looks twice before it parks. *)

Looks == consumer \in {"popping", "looked"}

PopError ==
  /\ Looks /\ error
  /\ consumer' = "failed"
  /\ UNCHANGED <<queueVars, driverVars, reply, out, abandons>>

PopValue ==
  /\ Looks /\ ~error /\ q # <<>>
  /\ q' = Tail(q)
  /\ out' = Append(out, Head(q))
  /\ consumer' = "popping"
  /\ UNCHANGED <<waiters, done, error, driverVars, reply, abandons>>

\* Mutation of PopEnd: the number of sources is compared before the queue.
PopEndEarly ==
  /\ Looks /\ ~error
  /\ done = Total
  /\ consumer' = "ended"
  /\ UNCHANGED <<queueVars, driverVars, reply, out, abandons>>

PopEnd ==
  /\ Looks /\ ~error /\ q = <<>>
  /\ done = Total
  /\ consumer' = "ended"
  /\ UNCHANGED <<queueVars, driverVars, reply, out, abandons>>

PopLooks ==
  /\ consumer = "popping"
  /\ ~error /\ q = <<>> /\ done # Total
  /\ consumer' = "looked"
  /\ UNCHANGED <<queueVars, driverVars, reply, out, abandons>>

\* Mutation of PopParks: there is no second look under the mutex.
PopParksUnchecked ==
  /\ consumer = "looked"
  /\ waiters' = Append(waiters, "live")
  /\ consumer' = "parked"
  /\ UNCHANGED <<q, done, error, driverVars, reply, out, abandons>>

PopParks ==
  /\ consumer = "looked"
  /\ ~error /\ q = <<>> /\ done # Total
  /\ waiters' = Append(waiters, "live")
  /\ consumer' = "parked"
  /\ UNCHANGED <<q, done, error, driverVars, reply, out, abandons>>

\* The parked pop resumes with a value, with a wake-up or with a closed channel.
PopResumes ==
  /\ consumer = "parked" /\ reply # None
  /\ out' = IF reply \in Values THEN Append(out, reply) ELSE out
  /\ consumer' = IF reply = Closed THEN "ended" ELSE "popping"
  /\ reply' = None
  /\ UNCHANGED <<queueVars, driverVars, abandons>>

\* The parked pop is destroyed and the consumer calls next() again later.
Abandon ==
  /\ consumer = "parked" /\ reply = None
  /\ abandons < MaxAbandons
  /\ abandons' = abandons + 1
  /\ waiters' = [i \in DOMAIN waiters |-> "dead"]
  /\ chosen' = [s \in Sources |-> IF chosen[s] = "live" THEN "dead" ELSE chosen[s]]
  /\ consumer' = "popping"
  /\ UNCHANGED <<q, done, error, driver, yielded, reply, out>>

ConsumerStep == PopError \/ PopValue \/ PopEnd \/ PopLooks \/ PopParks \/ PopResumes

Next == (\E s \in Sources : DriverStep(s)) \/ ConsumerStep \/ Abandon

Spec == Init /\ [][Next]_vars

\* The sources yield, the io threads run the drivers and the consumer goes on
\* pulling.
FairSpec ==
  Spec /\ WF_vars(ConsumerStep) /\ \A s \in Sources : WF_vars(DriverStep(s))

-----------------------------------------------------------------------------
(* Properties. *)

DriverPcs == {"pulling", "pushing", "sending", "ending", "failing", "waking", "done"}

\* Types.
TypeOK ==
  /\ q \in Seq(Values) /\ waiters \in Seq(Waiter)
  /\ done \in 0..Total /\ error \in BOOLEAN
  /\ driver \in [Sources -> DriverPcs]
  /\ yielded \in [Sources -> 0..Items]
  /\ chosen \in [Sources -> Waiter \cup {None}]
  /\ consumer \in {"popping", "looked", "parked", "ended", "failed"}
  /\ reply \in Values \cup {WakeUp, Closed, None}
  /\ out \in Seq(Values)
  /\ abandons \in 0..MaxAbandons

\* What the consumer has got, is being sent and will find, in its order.
Reached == out \o (IF reply \in Values THEN <<reply>> ELSE <<>>) \o q

\* The values of s that its driver has let go of.
Handed(s) == 1..(IF driver[s] \in {"pushing", "sending"} THEN yielded[s] - 1 ELSE yielded[s])

\* As long as nothing has failed every value a source has yielded is in one
\* place, and those of one source keep their order, however often a parked
\* pop is destroyed under a driver that has already chosen it.
EveryValueInItsPlace ==
  ~error =>
    /\ \A s \in Sources, k \in 1..Items : Contains(Reached, <<s, k>>) <=> k \in Handed(s)
    /\ \A i, j \in 1..Len(Reached) :
         i < j /\ Reached[i][1] = Reached[j][1] => Reached[i][2] < Reached[j][2]

\* The merged stream ends, without an error, only when every source has ended
\* and all their values have come out.
EndMeansComplete ==
  consumer = "ended" /\ ~error =>
    \A s \in Sources : \A k \in 1..Items : Contains(out, <<s, k>>)

\* A waiter that a driver can still reach waits for something: nothing is
\* queued for it.  The parked consumer is reachable or already answered.
ParkedPopIsReachable ==
  /\ Contains(waiters, "live") => q = <<>> /\ ~error
  /\ consumer = "parked" =>
       \/ reply # None
       \/ Contains(waiters, "live")
       \/ \E s \in Sources : chosen[s] = "live"

\* "Ends when every source has ended": the consumer reaches the end, or the
\* error of a source, if it never destroys a parked pop.
MergedStreamEnds == <>(abandons > 0 \/ consumer \in {"ended", "failed"})

\* The same, as the documentation of merge_concurrent promises it, for a
\* consumer that may have destroyed a parked pop before: the source that ends
\* last wakes the pop that is parked (stream_base.hpp:124).
EndsWhenEverySourceHasEnded ==
  (\A s \in Sources : driver[s] = "done") => ~(consumer = "parked" /\ reply = None)
=============================================================================
