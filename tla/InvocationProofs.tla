-------------------------- MODULE InvocationProofs --------------------------
(***************************************************************************)
(* Proofs about Invocation, for any number of requests and items: between  *)
(* dispatch and dispose() no request is lost, and a stream that Dart or a  *)
(* producer has closed is forgotten and stays silent, and a listener hears *)
(* the items without a gap and an end only after all of them.  When there  *)
(* is nothing left to do, nobody waits for a frame that was lost.          *)
(***************************************************************************)
EXTENDS Invocation, Integers, SequenceTheorems, TLAPS

Frames == [type : {"ok", "err", "data", "end", "streamErr"}, req : Requests, item : 0..Items]

\* An item on its way has been counted, and a sink that adds is open.
ItemInv ==
  /\ \A i \in DOMAIN port : port[i].type = "data" => port[i].item \in 1..Items
  /\ \A r \in Requests : producer[r] = "adding" => added[r] \in 1..Items /\ sink[r] = "open"

\* What the isolate may rely on while nobody shuts the runtime down: an open
\* bridge has its session in the registry, and that session is alive.
BridgeInv ==
  /\ shut = "no" => running
  /\ shut = "no" /\ bridge = "open" => registered /\ ~disposed
  /\ bridge # "open" => pending = {}
  /\ \A r \in pending : HasFuture(r) /\ request[r] # "new"

\* A sink is constructed by the dispatch of its request, once, and a stream
\* that Dart closed afterwards is not opened again.
SinkInv ==
  /\ \A r \in Requests : sink[r] # "none" => request[r] \notin {"new", "queued"}
  /\ \A r \in muted : sink[r] # "none" /\ r \notin streamsOpen

IInv ==
  /\ TypeOK
  /\ ItemInv
  /\ BridgeInv
  /\ SinkInv
  /\ NoRequestIsLost
  /\ ClosedSinksAreForgotten

-----------------------------------------------------------------------------
(* The port.                                                                *)

\* A frame that is posted stands behind the others, or is lost alone.
LEMMA PostProperties ==
  ASSUME port \in Seq(Frames), NEW f \in Frames, Post(f)
  PROVE  /\ port' \in Seq(Frames)
         /\ \A i \in DOMAIN port : i \in DOMAIN port' /\ port'[i] = port[i]
         /\ \A i \in DOMAIN port' : i \in DOMAIN port \/ port'[i] = f
         /\ running /\ bridge # "closed" => \E i \in DOMAIN port' : port'[i] = f
<1>1. CASE running /\ bridge # "closed"
  <2>1. port' = Append(port, f)
    BY <1>1 DEF Post
  <2>2. Len(port') = Len(port) + 1 /\ port'[Len(port) + 1] = f
    BY <2>1
  <2> QED
    BY <1>1, <2>1, <2>2
<1>2. CASE ~(running /\ bridge # "closed")
  BY <1>2 DEF Post
<1> QED
  BY <1>1, <1>2

\* The frames behind the first one stay in order.
LEMMA TailProperties ==
  ASSUME NEW p \in Seq(Frames), p # <<>>
  PROVE  /\ Head(p) \in Frames /\ Head(p) = p[1]
         /\ Tail(p) \in Seq(Frames)
         /\ \A i \in DOMAIN p : i = 1 \/ (i - 1 \in DOMAIN Tail(p) /\ Tail(p)[i - 1] = p[i])
         /\ \A i \in DOMAIN Tail(p) : i + 1 \in DOMAIN p /\ Tail(p)[i] = p[i + 1]
  OBVIOUS

\* A posted frame keeps the answers that are on their way, and the items.
LEMMA PostKeeps ==
  ASSUME port \in Seq(Frames), NEW f \in Frames, Post(f)
  PROVE  /\ port' \in Seq(Frames)
         /\ \A r \in Requests : AnswerComes(r) => AnswerComes(r)'
         /\ running /\ bridge # "closed" /\ f.type \in {"ok", "err"} => AnswerComes(f.req)'
         /\ (\A i \in DOMAIN port : port[i].type = "data" => port[i].item \in 1..Items)
            /\ (f.type = "data" => f.item \in 1..Items)
            => \A i \in DOMAIN port' : port'[i].type = "data" => port'[i].item \in 1..Items
<1>1. port' \in Seq(Frames)
  BY PostProperties
<1>2. \A r \in Requests : AnswerComes(r) => AnswerComes(r)'
  BY PostProperties DEF AnswerComes
<1>3. running /\ bridge # "closed" /\ f.type \in {"ok", "err"} => AnswerComes(f.req)'
  BY PostProperties DEF AnswerComes
<1>4. (\A i \in DOMAIN port : port[i].type = "data" => port[i].item \in 1..Items)
      /\ (f.type = "data" => f.item \in 1..Items)
      => \A i \in DOMAIN port' : port'[i].type = "data" => port'[i].item \in 1..Items
  BY PostProperties
<1> QED
  BY <1>1, <1>2, <1>3, <1>4

-----------------------------------------------------------------------------
(* The initial state and one lemma per action.                              *)

\* The initial state satisfies the invariant.
LEMMA InitIInv == Init => IInv
<1> SUFFICES ASSUME Init PROVE IInv
  OBVIOUS
<1>1. heard \in [Requests -> Seq(1..Items)] /\ port \in Seq(Frames) /\ DOMAIN port = {}
  <2>1. <<>> \in Seq(1..Items) /\ <<>> \in Seq(Frames) /\ DOMAIN <<>> = {}
    OBVIOUS
  <2> QED
    BY <2>1 DEF Init
<1>2. TypeOK
  <2>1. kind \in [Requests -> Kinds \cup {"none"}] /\ added \in [Requests -> 0..Items]
    BY ItemsAssumption DEF Init
  <2>2. request \in [Requests -> {"new", "ignored", "queued", "dropped", "locking", "running",
                                  "replying", "done"}]
    BY DEF Init
  <2>3. /\ future \in [Requests -> {"none", "open", "value", "error"}]
        /\ listener \in [Requests -> {"none", "listening", "cancelled", "ended", "failed", "closed"}]
    BY DEF Init
  <2>4. /\ sink \in [Requests -> {"none", "open", "closed"}]
        /\ producer \in [Requests -> {"idle", "adding", "ending", "failing", "erasing"}]
    BY DEF Init
  <2> QED
    BY <1>1, <2>1, <2>2, <2>3, <2>4 DEF Init, TypeOK, Frames
<1>3. ItemInv /\ BridgeInv /\ SinkInv /\ NoRequestIsLost /\ ClosedSinksAreForgotten
  BY <1>1 DEF Init, ItemInv, BridgeInv, SinkInv, NoRequestIsLost, ClosedSinksAreForgotten
<1> QED
  BY <1>2, <1>3 DEF IInv

\* A call of the isolate keeps the invariant: an open bridge's request is queued.
LEMMA InvokeKeeps ==
  ASSUME IInv, NEW r \in Requests, Invoke(r)
  PROVE  IInv'
<1>1. TypeOK'
  <2>1. kind' \in [Requests -> Kinds \cup {"none"}]
    <3>1. PICK k \in MayCall[r] : kind' = [kind EXCEPT ![r] = k]
      BY DEF Invoke
    <3>2. k \in Kinds
      BY MayCallAssumption
    <3> QED
      BY <3>1, <3>2 DEF IInv, TypeOK
  <2>2. pending' \subseteq Requests /\ future' \in [Requests -> {"none", "open", "value", "error"}]
    <3>1. \/ pending' = pending \cup {r} /\ future' = [future EXCEPT ![r] = "open"]
          \/ UNCHANGED <<pending, future>>
      BY DEF Invoke, HasFuture
    <3> QED
      BY <3>1 DEF IInv, TypeOK
  <2>3. streams' \subseteq Requests
        /\ listener' \in [Requests -> {"none", "listening", "cancelled", "ended", "failed", "closed"}]
    <3>1. \/ streams' = streams \cup {r} /\ listener' = [listener EXCEPT ![r] = "listening"]
          \/ UNCHANGED <<streams, listener>>
      BY DEF Invoke, HasStream
    <3> QED
      BY <3>1 DEF IInv, TypeOK
  <2>4. request' \in [Requests -> {"new", "ignored", "queued", "dropped", "locking", "running",
                                 "replying", "done"}]
    BY DEF IInv, TypeOK, Invoke
  <2> QED
    BY <2>1, <2>2, <2>3, <2>4 DEF IInv, TypeOK, Invoke, sessionVars, runtimeVars, sinkVars
<1>2. ItemInv'
  BY MayCallAssumption, ItemsAssumption
     DEF IInv, TypeOK, ItemInv, Invoke, HasFuture, HasStream, dartVars, sessionVars, runtimeVars, sinkVars
<1>3. BridgeInv'
  <2>1. \A q \in Requests : q # r => kind'[q] = kind[q]
    BY DEF IInv, TypeOK, Invoke
  <2>2. \A q \in pending' : q \in pending \/ (q = r /\ HasFuture(r)')
    BY DEF Invoke
  <2>3. \A q \in pending' : HasFuture(q)' /\ request'[q] # "new"
    <3> TAKE q \in pending'
    <3>1. CASE q = r /\ HasFuture(r)'
      BY <3>1 DEF Invoke, IInv, TypeOK
    <3>2. CASE q # r
      BY <2>1, <2>2, <3>2 DEF IInv, TypeOK, BridgeInv, HasFuture, Invoke
    <3>3. CASE q = r /\ ~HasFuture(r)'
      <4>1. r \in pending
        BY <2>2, <3>3
      <4>2. request[r] = "new"
        BY DEF Invoke
      <4> QED
        BY <4>1, <4>2 DEF IInv, BridgeInv
    <3> QED
      BY <3>1, <3>2, <3>3
  <2>4. UNCHANGED <<bridge, shut, running, registered, disposed>> /\ bridge = "open"
    BY DEF Invoke, sessionVars, runtimeVars
  <2> QED
    BY <2>3, <2>4 DEF IInv, BridgeInv
<1>4. SinkInv'
  BY MayCallAssumption, ItemsAssumption
     DEF IInv, TypeOK, SinkInv, BridgeInv, Invoke, HasFuture, HasStream, dartVars, sessionVars, runtimeVars, sinkVars
<1>5. NoRequestIsLost'
  BY MayCallAssumption, ItemsAssumption
     DEF IInv, TypeOK, NoRequestIsLost, BridgeInv, AnswerComes, HasFuture, Invoke, HasFuture, HasStream, dartVars, sessionVars, runtimeVars, sinkVars
<1>6. ClosedSinksAreForgotten'
  BY MayCallAssumption, ItemsAssumption
     DEF IInv, TypeOK, ClosedSinksAreForgotten, ItemInv, Invoke, HasFuture, HasStream, dartVars, sessionVars, runtimeVars, sinkVars
<1> QED
  BY <1>1, <1>2, <1>3, <1>4, <1>5, <1>6 DEF IInv

\* The cancellation of a stream keeps it.
LEMMA CancelKeeps ==
  ASSUME IInv, NEW r \in Requests, Cancel(r)
  PROVE  IInv'
<1>1. TypeOK'
  BY MayCallAssumption, ItemsAssumption
     DEF IInv, TypeOK, Frames, Kinds, Cancel, dartVars, sessionVars, runtimeVars, sinkVars
<1>2. ItemInv'
  BY MayCallAssumption, ItemsAssumption
     DEF IInv, TypeOK, ItemInv, Cancel, dartVars, sessionVars, runtimeVars, sinkVars
<1>3. BridgeInv'
  BY MayCallAssumption, ItemsAssumption
     DEF IInv, TypeOK, BridgeInv, HasFuture, Cancel, dartVars, sessionVars, runtimeVars, sinkVars
<1>4. SinkInv'
  BY MayCallAssumption, ItemsAssumption
     DEF IInv, TypeOK, SinkInv, BridgeInv, Cancel, dartVars, sessionVars, runtimeVars, sinkVars
<1>5. NoRequestIsLost'
  BY MayCallAssumption, ItemsAssumption
     DEF IInv, TypeOK, NoRequestIsLost, BridgeInv, AnswerComes, HasFuture, Cancel, dartVars, sessionVars, runtimeVars, sinkVars
<1>6. ClosedSinksAreForgotten'
  BY MayCallAssumption, ItemsAssumption
     DEF IInv, TypeOK, ClosedSinksAreForgotten, ItemInv, Cancel, dartVars, sessionVars, runtimeVars, sinkVars
<1> QED
  BY <1>1, <1>2, <1>3, <1>4, <1>5, <1>6 DEF IInv

\* The first half of dispose() keeps it: nothing is pending any more.
LEMMA DartDisposesKeeps ==
  ASSUME IInv, DartDisposes
  PROVE  IInv'
<1>1. TypeOK'
  <2>1. future' \in [Requests -> {"none", "open", "value", "error"}]
    BY DEF IInv, TypeOK, DartDisposes
  <2>2. listener' \in [Requests -> {"none", "listening", "cancelled", "ended", "failed", "closed"}]
    BY DEF IInv, TypeOK, DartDisposes
  <2>3. port' \in Seq(Frames)
    BY DEF IInv, TypeOK, Frames, DartDisposes
  <2>4. bridge' \in {"open", "closing", "closed"} /\ pending' = {} /\ streams' = {} /\ registered' = FALSE
    BY DEF IInv, TypeOK, DartDisposes
  <2> QED
    BY <2>1, <2>2, <2>3, <2>4
       DEF IInv, TypeOK, Frames, DartDisposes, runtimeVars, sinkVars
<1>2. ItemInv'
  BY MayCallAssumption, ItemsAssumption
     DEF IInv, TypeOK, ItemInv, DartDisposes, dartVars, sessionVars, runtimeVars, sinkVars
<1>3. BridgeInv'
  BY MayCallAssumption, ItemsAssumption
     DEF IInv, TypeOK, BridgeInv, HasFuture, DartDisposes, dartVars, sessionVars, runtimeVars, sinkVars
<1>4. SinkInv'
  BY MayCallAssumption, ItemsAssumption
     DEF IInv, TypeOK, SinkInv, BridgeInv, DartDisposes, dartVars, sessionVars, runtimeVars, sinkVars
<1>5. NoRequestIsLost'
  BY MayCallAssumption, ItemsAssumption
     DEF IInv, TypeOK, NoRequestIsLost, BridgeInv, AnswerComes, HasFuture, DartDisposes, dartVars, sessionVars, runtimeVars, sinkVars
<1>6. ClosedSinksAreForgotten'
  BY MayCallAssumption, ItemsAssumption
     DEF IInv, TypeOK, ClosedSinksAreForgotten, ItemInv, DartDisposes, dartVars, sessionVars, runtimeVars, sinkVars
<1> QED
  BY <1>1, <1>2, <1>3, <1>4, <1>5, <1>6 DEF IInv

\* And so does the second.
LEMMA DartClosesKeeps ==
  ASSUME IInv, DartCloses
  PROVE  IInv'
<1>1. TypeOK'
  BY MayCallAssumption, ItemsAssumption
     DEF IInv, TypeOK, Frames, Kinds, DartCloses, dartVars, sessionVars, runtimeVars, sinkVars
<1>2. ItemInv'
  BY MayCallAssumption, ItemsAssumption
     DEF IInv, TypeOK, ItemInv, DartCloses, dartVars, sessionVars, runtimeVars, sinkVars
<1>3. BridgeInv'
  BY MayCallAssumption, ItemsAssumption
     DEF IInv, TypeOK, BridgeInv, HasFuture, DartCloses, dartVars, sessionVars, runtimeVars, sinkVars
<1>4. SinkInv'
  BY MayCallAssumption, ItemsAssumption
     DEF IInv, TypeOK, SinkInv, BridgeInv, DartCloses, dartVars, sessionVars, runtimeVars, sinkVars
<1>5. NoRequestIsLost'
  BY MayCallAssumption, ItemsAssumption
     DEF IInv, TypeOK, NoRequestIsLost, BridgeInv, AnswerComes, HasFuture, DartCloses, dartVars, sessionVars, runtimeVars, sinkVars
<1>6. ClosedSinksAreForgotten'
  BY MayCallAssumption, ItemsAssumption
     DEF IInv, TypeOK, ClosedSinksAreForgotten, ItemInv, DartCloses, dartVars, sessionVars, runtimeVars, sinkVars
<1> QED
  BY <1>1, <1>2, <1>3, <1>4, <1>5, <1>6 DEF IInv

\* A request dropped at a closed session has no Future that waits.
LEMMA DispatchDroppedKeeps ==
  ASSUME IInv, NEW r \in Requests, DispatchDropped(r)
  PROVE  IInv'
<1>1. TypeOK'
  BY MayCallAssumption, ItemsAssumption
     DEF IInv, TypeOK, Frames, Kinds, DispatchDropped, IoRuns, dartVars, sessionVars, runtimeVars, sinkVars
<1>2. ItemInv'
  BY MayCallAssumption, ItemsAssumption
     DEF IInv, TypeOK, ItemInv, DispatchDropped, IoRuns, dartVars, sessionVars, runtimeVars, sinkVars
<1>3. BridgeInv'
  BY MayCallAssumption, ItemsAssumption
     DEF IInv, TypeOK, BridgeInv, HasFuture, DispatchDropped, IoRuns, dartVars, sessionVars, runtimeVars, sinkVars
<1>4. SinkInv'
  BY MayCallAssumption, ItemsAssumption
     DEF IInv, TypeOK, SinkInv, BridgeInv, DispatchDropped, IoRuns, dartVars, sessionVars, runtimeVars, sinkVars
<1>5. NoRequestIsLost'
  BY MayCallAssumption, ItemsAssumption
     DEF IInv, TypeOK, NoRequestIsLost, BridgeInv, AnswerComes, HasFuture, DispatchDropped, IoRuns, dartVars, sessionVars, runtimeVars, sinkVars
<1>6. ClosedSinksAreForgotten'
  BY MayCallAssumption, ItemsAssumption
     DEF IInv, TypeOK, ClosedSinksAreForgotten, ItemInv, DispatchDropped, IoRuns, dartVars, sessionVars, runtimeVars, sinkVars
<1> QED
  BY <1>1, <1>2, <1>3, <1>4, <1>5, <1>6 DEF IInv

\* The dispatch that starts a coroutine or constructs a sink keeps it.
LEMMA DispatchStartsKeeps ==
  ASSUME IInv, NEW r \in Requests, DispatchStarts(r)
  PROVE  IInv'
<1>1. TypeOK'
  BY MayCallAssumption, ItemsAssumption
     DEF IInv, TypeOK, Frames, Kinds, DispatchStarts, IoRuns, HasFuture, HasStream, dartVars, sessionVars, runtimeVars, sinkVars
<1>2. ItemInv'
  BY MayCallAssumption, ItemsAssumption
     DEF IInv, TypeOK, ItemInv, DispatchStarts, IoRuns, HasFuture, HasStream, dartVars, sessionVars, runtimeVars, sinkVars
<1>3. BridgeInv'
  BY MayCallAssumption, ItemsAssumption
     DEF IInv, TypeOK, BridgeInv, HasFuture, DispatchStarts, IoRuns, HasFuture, HasStream, dartVars, sessionVars, runtimeVars, sinkVars
<1>4. SinkInv'
  BY MayCallAssumption, ItemsAssumption
     DEF IInv, TypeOK, SinkInv, BridgeInv, DispatchStarts, IoRuns, HasFuture, HasStream, dartVars, sessionVars, runtimeVars, sinkVars
<1>5. NoRequestIsLost'
  BY MayCallAssumption, ItemsAssumption
     DEF IInv, TypeOK, NoRequestIsLost, BridgeInv, AnswerComes, HasFuture, DispatchStarts, IoRuns, HasFuture, HasStream, dartVars, sessionVars, runtimeVars, sinkVars
<1>6. ClosedSinksAreForgotten'
  BY MayCallAssumption, ItemsAssumption
     DEF IInv, TypeOK, ClosedSinksAreForgotten, ItemInv, DispatchStarts, IoRuns, HasFuture, HasStream, dartVars, sessionVars, runtimeVars, sinkVars
<1> QED
  BY <1>1, <1>2, <1>3, <1>4, <1>5, <1>6 DEF IInv

\* An exception is answered.
LEMMA DispatchFailsKeeps ==
  ASSUME IInv, NEW r \in Requests, DispatchFails(r)
  PROVE  IInv'
<1>a. port \in Seq(Frames)
  BY DEF IInv, TypeOK, Frames
<1>b. /\ port' \in Seq(Frames)
      /\ \A q \in Requests : AnswerComes(q) => AnswerComes(q)'
      /\ \A i \in DOMAIN port' : port'[i].type = "data" => port'[i].item \in 1..Items
      /\ running /\ bridge # "closed" => AnswerComes(r)'
  <2>1. Frame("err", r, 0) \in Frames /\ Post(Frame("err", r, 0))
    BY ItemsAssumption DEF Frame, Frames, DispatchFails
  <2> QED
    BY <1>a, <2>1, PostKeeps DEF Frame, IInv, ItemInv
<1>1. TypeOK'
  BY MayCallAssumption, ItemsAssumption, <1>b
     DEF IInv, TypeOK, Frames, Kinds, DispatchFails, IoRuns, dartVars, sessionVars, runtimeVars, sinkVars
<1>2. ItemInv'
  BY MayCallAssumption, ItemsAssumption, <1>b
     DEF IInv, TypeOK, ItemInv, DispatchFails, IoRuns, dartVars, sessionVars, runtimeVars, sinkVars
<1>3. BridgeInv'
  BY MayCallAssumption, ItemsAssumption, <1>b
     DEF IInv, TypeOK, BridgeInv, HasFuture, DispatchFails, IoRuns, dartVars, sessionVars, runtimeVars, sinkVars
<1>4. SinkInv'
  BY MayCallAssumption, ItemsAssumption, <1>b
     DEF IInv, TypeOK, SinkInv, BridgeInv, DispatchFails, IoRuns, dartVars, sessionVars, runtimeVars, sinkVars
<1>5. NoRequestIsLost'
  BY MayCallAssumption, ItemsAssumption, <1>b
     DEF IInv, TypeOK, NoRequestIsLost, BridgeInv, HasFuture, DispatchFails, IoRuns, dartVars, sessionVars, runtimeVars, sinkVars
<1>6. ClosedSinksAreForgotten'
  BY MayCallAssumption, ItemsAssumption, <1>b
     DEF IInv, TypeOK, ClosedSinksAreForgotten, ItemInv, DispatchFails, IoRuns, dartVars, sessionVars, runtimeVars, sinkVars
<1> QED
  BY <1>1, <1>2, <1>3, <1>4, <1>5, <1>6 DEF IInv

\* A dispatch that waits for itself still has its request.
LEMMA DispatchLocksTwiceKeeps ==
  ASSUME IInv, NEW r \in Requests, DispatchLocksTwice(r)
  PROVE  IInv'
<1>1. TypeOK'
  BY MayCallAssumption, ItemsAssumption
     DEF IInv, TypeOK, Frames, Kinds, DispatchLocksTwice, IoRuns, dartVars, sessionVars, runtimeVars, sinkVars
<1>2. ItemInv'
  BY MayCallAssumption, ItemsAssumption
     DEF IInv, TypeOK, ItemInv, DispatchLocksTwice, IoRuns, dartVars, sessionVars, runtimeVars, sinkVars
<1>3. BridgeInv'
  BY MayCallAssumption, ItemsAssumption
     DEF IInv, TypeOK, BridgeInv, HasFuture, DispatchLocksTwice, IoRuns, dartVars, sessionVars, runtimeVars, sinkVars
<1>4. SinkInv'
  BY MayCallAssumption, ItemsAssumption
     DEF IInv, TypeOK, SinkInv, BridgeInv, DispatchLocksTwice, IoRuns, dartVars, sessionVars, runtimeVars, sinkVars
<1>5. NoRequestIsLost'
  BY MayCallAssumption, ItemsAssumption
     DEF IInv, TypeOK, NoRequestIsLost, BridgeInv, AnswerComes, HasFuture, DispatchLocksTwice, IoRuns, dartVars, sessionVars, runtimeVars, sinkVars
<1>6. ClosedSinksAreForgotten'
  BY MayCallAssumption, ItemsAssumption
     DEF IInv, TypeOK, ClosedSinksAreForgotten, ItemInv, DispatchLocksTwice, IoRuns, dartVars, sessionVars, runtimeVars, sinkVars
<1> QED
  BY <1>1, <1>2, <1>3, <1>4, <1>5, <1>6 DEF IInv

\* A response is dropped only when its session is disposed.
LEMMA ReplyLooksKeeps ==
  ASSUME IInv, NEW r \in Requests, ReplyLooks(r)
  PROVE  IInv'
<1>1. TypeOK'
  BY MayCallAssumption, ItemsAssumption
     DEF IInv, TypeOK, Frames, Kinds, ReplyLooks, IoRuns, dartVars, sessionVars, runtimeVars, sinkVars
<1>2. ItemInv'
  BY MayCallAssumption, ItemsAssumption
     DEF IInv, TypeOK, ItemInv, ReplyLooks, IoRuns, dartVars, sessionVars, runtimeVars, sinkVars
<1>3. BridgeInv'
  BY MayCallAssumption, ItemsAssumption
     DEF IInv, TypeOK, BridgeInv, HasFuture, ReplyLooks, IoRuns, dartVars, sessionVars, runtimeVars, sinkVars
<1>4. SinkInv'
  BY MayCallAssumption, ItemsAssumption
     DEF IInv, TypeOK, SinkInv, BridgeInv, ReplyLooks, IoRuns, dartVars, sessionVars, runtimeVars, sinkVars
<1>5. NoRequestIsLost'
  BY MayCallAssumption, ItemsAssumption
     DEF IInv, TypeOK, NoRequestIsLost, BridgeInv, AnswerComes, HasFuture, ReplyLooks, IoRuns, dartVars, sessionVars, runtimeVars, sinkVars
<1>6. ClosedSinksAreForgotten'
  BY MayCallAssumption, ItemsAssumption
     DEF IInv, TypeOK, ClosedSinksAreForgotten, ItemInv, ReplyLooks, IoRuns, dartVars, sessionVars, runtimeVars, sinkVars
<1> QED
  BY <1>1, <1>2, <1>3, <1>4, <1>5, <1>6 DEF IInv

\* A response goes into the port.
LEMMA ReplyPostsKeeps ==
  ASSUME IInv, NEW r \in Requests, ReplyPosts(r)
  PROVE  IInv'
<1>a. port \in Seq(Frames)
  BY DEF IInv, TypeOK, Frames
<1>b. /\ port' \in Seq(Frames)
      /\ \A q \in Requests : AnswerComes(q) => AnswerComes(q)'
      /\ \A i \in DOMAIN port' : port'[i].type = "data" => port'[i].item \in 1..Items
      /\ running /\ bridge # "closed" => AnswerComes(r)'
  <2>1. PICK type \in {"ok", "err"} : Post(Frame(type, r, 0))
    BY DEF ReplyPosts
  <2>2. Frame(type, r, 0) \in Frames
    BY ItemsAssumption DEF Frame, Frames
  <2> QED
    BY <1>a, <2>1, <2>2, PostKeeps DEF Frame, IInv, ItemInv
<1>1. TypeOK'
  BY MayCallAssumption, ItemsAssumption, <1>b
     DEF IInv, TypeOK, Frames, Kinds, ReplyPosts, dartVars, sessionVars, runtimeVars, sinkVars
<1>2. ItemInv'
  BY MayCallAssumption, ItemsAssumption, <1>b
     DEF IInv, TypeOK, ItemInv, ReplyPosts, dartVars, sessionVars, runtimeVars, sinkVars
<1>3. BridgeInv'
  BY MayCallAssumption, ItemsAssumption, <1>b
     DEF IInv, TypeOK, BridgeInv, HasFuture, ReplyPosts, dartVars, sessionVars, runtimeVars, sinkVars
<1>4. SinkInv'
  BY MayCallAssumption, ItemsAssumption, <1>b
     DEF IInv, TypeOK, SinkInv, BridgeInv, ReplyPosts, dartVars, sessionVars, runtimeVars, sinkVars
<1>5. NoRequestIsLost'
  BY MayCallAssumption, ItemsAssumption, <1>b
     DEF IInv, TypeOK, NoRequestIsLost, BridgeInv, HasFuture, ReplyPosts, dartVars, sessionVars, runtimeVars, sinkVars
<1>6. ClosedSinksAreForgotten'
  BY MayCallAssumption, ItemsAssumption, <1>b
     DEF IInv, TypeOK, ClosedSinksAreForgotten, ItemInv, ReplyPosts, dartVars, sessionVars, runtimeVars, sinkVars
<1> QED
  BY <1>1, <1>2, <1>3, <1>4, <1>5, <1>6 DEF IInv

\* An add() that is refused finds its stream forgotten.
LEMMA AddRefusedKeeps ==
  ASSUME IInv, NEW r \in Requests, AddRefused(r)
  PROVE  IInv'
<1>1. TypeOK'
  BY MayCallAssumption, ItemsAssumption
     DEF IInv, TypeOK, Frames, Kinds, AddRefused, SinkFree, dartVars, sessionVars, runtimeVars, sinkVars
<1>2. ItemInv'
  BY MayCallAssumption, ItemsAssumption
     DEF IInv, TypeOK, ItemInv, AddRefused, SinkFree, dartVars, sessionVars, runtimeVars, sinkVars
<1>3. BridgeInv'
  BY MayCallAssumption, ItemsAssumption
     DEF IInv, TypeOK, BridgeInv, HasFuture, AddRefused, SinkFree, dartVars, sessionVars, runtimeVars, sinkVars
<1>4. SinkInv'
  BY MayCallAssumption, ItemsAssumption
     DEF IInv, TypeOK, SinkInv, BridgeInv, AddRefused, SinkFree, dartVars, sessionVars, runtimeVars, sinkVars
<1>5. NoRequestIsLost'
  BY MayCallAssumption, ItemsAssumption
     DEF IInv, TypeOK, NoRequestIsLost, BridgeInv, AnswerComes, HasFuture, AddRefused, SinkFree, dartVars, sessionVars, runtimeVars, sinkVars
<1>6. ClosedSinksAreForgotten'
  BY MayCallAssumption, ItemsAssumption
     DEF IInv, TypeOK, ClosedSinksAreForgotten, ItemInv, AddRefused, SinkFree, dartVars, sessionVars, runtimeVars, sinkVars
<1> QED
  BY <1>1, <1>2, <1>3, <1>4, <1>5, <1>6 DEF IInv

\* An add() that passes its checks keeps it.
LEMMA AddLooksKeeps ==
  ASSUME IInv, NEW r \in Requests, AddLooks(r)
  PROVE  IInv'
<1>1. TypeOK'
  BY MayCallAssumption, ItemsAssumption
     DEF IInv, TypeOK, Frames, Kinds, AddLooks, SinkFree, dartVars, sessionVars, runtimeVars, sinkVars
<1>2. ItemInv'
  BY MayCallAssumption, ItemsAssumption
     DEF IInv, TypeOK, ItemInv, AddLooks, SinkFree, dartVars, sessionVars, runtimeVars, sinkVars
<1>3. BridgeInv'
  BY MayCallAssumption, ItemsAssumption
     DEF IInv, TypeOK, BridgeInv, HasFuture, AddLooks, SinkFree, dartVars, sessionVars, runtimeVars, sinkVars
<1>4. SinkInv'
  BY MayCallAssumption, ItemsAssumption
     DEF IInv, TypeOK, SinkInv, BridgeInv, AddLooks, SinkFree, dartVars, sessionVars, runtimeVars, sinkVars
<1>5. NoRequestIsLost'
  BY MayCallAssumption, ItemsAssumption
     DEF IInv, TypeOK, NoRequestIsLost, BridgeInv, AnswerComes, HasFuture, AddLooks, SinkFree, dartVars, sessionVars, runtimeVars, sinkVars
<1>6. ClosedSinksAreForgotten'
  BY MayCallAssumption, ItemsAssumption
     DEF IInv, TypeOK, ClosedSinksAreForgotten, ItemInv, AddLooks, SinkFree, dartVars, sessionVars, runtimeVars, sinkVars
<1> QED
  BY <1>1, <1>2, <1>3, <1>4, <1>5, <1>6 DEF IInv

\* Its item goes into the port.
LEMMA AddPostsKeeps ==
  ASSUME IInv, NEW r \in Requests, AddPosts(r)
  PROVE  IInv'
<1>a. port \in Seq(Frames)
  BY DEF IInv, TypeOK, Frames
<1>b. /\ port' \in Seq(Frames)
      /\ \A q \in Requests : AnswerComes(q) => AnswerComes(q)'
      /\ \A i \in DOMAIN port' : port'[i].type = "data" => port'[i].item \in 1..Items
  <2>1. CASE disposed
    BY <1>a, <2>1 DEF AddPosts, IInv, ItemInv, AnswerComes
  <2>2. CASE ~disposed
    <3>1. Frame("data", r, added[r]) \in Frames /\ added[r] \in 1..Items
      BY ItemsAssumption DEF Frame, Frames, AddPosts, IInv, ItemInv, TypeOK
    <3>2. Post(Frame("data", r, added[r]))
      BY <2>2 DEF AddPosts
    <3> QED
      BY <1>a, <3>1, <3>2, PostKeeps DEF Frame, IInv, ItemInv
  <2> QED
    BY <2>1, <2>2
<1>1. TypeOK'
  BY MayCallAssumption, ItemsAssumption, <1>b
     DEF IInv, TypeOK, Frames, Kinds, AddPosts, dartVars, sessionVars, runtimeVars, sinkVars
<1>2. ItemInv'
  BY MayCallAssumption, ItemsAssumption, <1>b
     DEF IInv, TypeOK, ItemInv, AddPosts, dartVars, sessionVars, runtimeVars, sinkVars
<1>3. BridgeInv'
  BY MayCallAssumption, ItemsAssumption, <1>b
     DEF IInv, TypeOK, BridgeInv, HasFuture, AddPosts, dartVars, sessionVars, runtimeVars, sinkVars
<1>4. SinkInv'
  BY MayCallAssumption, ItemsAssumption, <1>b
     DEF IInv, TypeOK, SinkInv, BridgeInv, AddPosts, dartVars, sessionVars, runtimeVars, sinkVars
<1>5. NoRequestIsLost'
  BY MayCallAssumption, ItemsAssumption, <1>b
     DEF IInv, TypeOK, NoRequestIsLost, BridgeInv, HasFuture, AddPosts, dartVars, sessionVars, runtimeVars, sinkVars
<1>6. ClosedSinksAreForgotten'
  BY MayCallAssumption, ItemsAssumption, <1>b
     DEF IInv, TypeOK, ClosedSinksAreForgotten, ItemInv, AddPosts, dartVars, sessionVars, runtimeVars, sinkVars
<1> QED
  BY <1>1, <1>2, <1>3, <1>4, <1>5, <1>6 DEF IInv

\* An item that cannot be encoded closes the sink.
LEMMA AddFailsKeeps ==
  ASSUME IInv, NEW r \in Requests, AddFails(r)
  PROVE  IInv'
<1>1. TypeOK'
  BY MayCallAssumption, ItemsAssumption
     DEF IInv, TypeOK, Frames, Kinds, AddFails, dartVars, sessionVars, runtimeVars, sinkVars
<1>2. ItemInv'
  BY MayCallAssumption, ItemsAssumption
     DEF IInv, TypeOK, ItemInv, AddFails, dartVars, sessionVars, runtimeVars, sinkVars
<1>3. BridgeInv'
  BY MayCallAssumption, ItemsAssumption
     DEF IInv, TypeOK, BridgeInv, HasFuture, AddFails, dartVars, sessionVars, runtimeVars, sinkVars
<1>4. SinkInv'
  BY MayCallAssumption, ItemsAssumption
     DEF IInv, TypeOK, SinkInv, BridgeInv, ItemInv, AddFails, dartVars, sessionVars, runtimeVars, sinkVars
<1>5. NoRequestIsLost'
  BY MayCallAssumption, ItemsAssumption
     DEF IInv, TypeOK, NoRequestIsLost, BridgeInv, AnswerComes, HasFuture, AddFails, dartVars, sessionVars, runtimeVars, sinkVars
<1>6. ClosedSinksAreForgotten'
  BY MayCallAssumption, ItemsAssumption
     DEF IInv, TypeOK, ClosedSinksAreForgotten, ItemInv, AddFails, dartVars, sessionVars, runtimeVars, sinkVars
<1> QED
  BY <1>1, <1>2, <1>3, <1>4, <1>5, <1>6 DEF IInv

\* end() and error() close the sink first.
LEMMA EndLooksKeeps ==
  ASSUME IInv, NEW r \in Requests, EndLooks(r)
  PROVE  IInv'
<1>1. TypeOK'
  BY MayCallAssumption, ItemsAssumption
     DEF IInv, TypeOK, Frames, Kinds, EndLooks, SinkFree, dartVars, sessionVars, runtimeVars, sinkVars
<1>2. ItemInv'
  BY MayCallAssumption, ItemsAssumption
     DEF IInv, TypeOK, ItemInv, EndLooks, SinkFree, dartVars, sessionVars, runtimeVars, sinkVars
<1>3. BridgeInv'
  BY MayCallAssumption, ItemsAssumption
     DEF IInv, TypeOK, BridgeInv, HasFuture, EndLooks, SinkFree, dartVars, sessionVars, runtimeVars, sinkVars
<1>4. SinkInv'
  BY MayCallAssumption, ItemsAssumption
     DEF IInv, TypeOK, SinkInv, BridgeInv, EndLooks, SinkFree, dartVars, sessionVars, runtimeVars, sinkVars
<1>5. NoRequestIsLost'
  BY MayCallAssumption, ItemsAssumption
     DEF IInv, TypeOK, NoRequestIsLost, BridgeInv, AnswerComes, HasFuture, EndLooks, SinkFree, dartVars, sessionVars, runtimeVars, sinkVars
<1>6. ClosedSinksAreForgotten'
  BY MayCallAssumption, ItemsAssumption
     DEF IInv, TypeOK, ClosedSinksAreForgotten, ItemInv, EndLooks, SinkFree, dartVars, sessionVars, runtimeVars, sinkVars
<1> QED
  BY <1>1, <1>2, <1>3, <1>4, <1>5, <1>6 DEF IInv

\* Their frame goes into the port.
LEMMA EndPostsKeeps ==
  ASSUME IInv, NEW r \in Requests, EndPosts(r)
  PROVE  IInv'
<1>a. port \in Seq(Frames)
  BY DEF IInv, TypeOK, Frames
<1>b. /\ port' \in Seq(Frames)
      /\ \A q \in Requests : AnswerComes(q) => AnswerComes(q)'
      /\ \A i \in DOMAIN port' : port'[i].type = "data" => port'[i].item \in 1..Items
  <2>1. CASE disposed
    BY <1>a, <2>1 DEF EndPosts, IInv, ItemInv, AnswerComes
  <2>2. CASE ~disposed
    <3>1. PICK type \in {"end", "streamErr"} : Post(Frame(type, r, 0))
      BY <2>2 DEF EndPosts
    <3>2. Frame(type, r, 0) \in Frames
      BY ItemsAssumption DEF Frame, Frames
    <3> QED
      BY <1>a, <3>1, <3>2, PostKeeps DEF Frame, IInv, ItemInv
  <2> QED
    BY <2>1, <2>2
<1>1. TypeOK'
  BY MayCallAssumption, ItemsAssumption, <1>b
     DEF IInv, TypeOK, Frames, Kinds, EndPosts, dartVars, sessionVars, runtimeVars, sinkVars
<1>2. ItemInv'
  BY MayCallAssumption, ItemsAssumption, <1>b
     DEF IInv, TypeOK, ItemInv, EndPosts, dartVars, sessionVars, runtimeVars, sinkVars
<1>3. BridgeInv'
  BY MayCallAssumption, ItemsAssumption, <1>b
     DEF IInv, TypeOK, BridgeInv, HasFuture, EndPosts, dartVars, sessionVars, runtimeVars, sinkVars
<1>4. SinkInv'
  BY MayCallAssumption, ItemsAssumption, <1>b
     DEF IInv, TypeOK, SinkInv, BridgeInv, EndPosts, dartVars, sessionVars, runtimeVars, sinkVars
<1>5. NoRequestIsLost'
  BY MayCallAssumption, ItemsAssumption, <1>b
     DEF IInv, TypeOK, NoRequestIsLost, BridgeInv, HasFuture, EndPosts, dartVars, sessionVars, runtimeVars, sinkVars
<1>6. ClosedSinksAreForgotten'
  BY MayCallAssumption, ItemsAssumption, <1>b
     DEF IInv, TypeOK, ClosedSinksAreForgotten, ItemInv, EndPosts, dartVars, sessionVars, runtimeVars, sinkVars
<1> QED
  BY <1>1, <1>2, <1>3, <1>4, <1>5, <1>6 DEF IInv

\* And the stream is forgotten.
LEMMA EndErasesKeeps ==
  ASSUME IInv, NEW r \in Requests, EndErases(r)
  PROVE  IInv'
<1>1. TypeOK'
  BY MayCallAssumption, ItemsAssumption
     DEF IInv, TypeOK, Frames, Kinds, EndErases, dartVars, sessionVars, runtimeVars, sinkVars
<1>2. ItemInv'
  BY MayCallAssumption, ItemsAssumption
     DEF IInv, TypeOK, ItemInv, EndErases, dartVars, sessionVars, runtimeVars, sinkVars
<1>3. BridgeInv'
  BY MayCallAssumption, ItemsAssumption
     DEF IInv, TypeOK, BridgeInv, HasFuture, EndErases, dartVars, sessionVars, runtimeVars, sinkVars
<1>4. SinkInv'
  BY MayCallAssumption, ItemsAssumption
     DEF IInv, TypeOK, SinkInv, BridgeInv, EndErases, dartVars, sessionVars, runtimeVars, sinkVars
<1>5. NoRequestIsLost'
  BY MayCallAssumption, ItemsAssumption
     DEF IInv, TypeOK, NoRequestIsLost, BridgeInv, AnswerComes, HasFuture, EndErases, dartVars, sessionVars, runtimeVars, sinkVars
<1>6. ClosedSinksAreForgotten'
  BY MayCallAssumption, ItemsAssumption
     DEF IInv, TypeOK, ClosedSinksAreForgotten, ItemInv, EndErases, dartVars, sessionVars, runtimeVars, sinkVars
<1> QED
  BY <1>1, <1>2, <1>3, <1>4, <1>5, <1>6 DEF IInv

\* A frame that is handled answers its request, or is no answer.
LEMMA OnMessageKeeps ==
  ASSUME IInv, OnMessage
  PROVE  IInv'
<1>a. port \in Seq(Frames) /\ port # <<>> /\ port' = Tail(port)
  BY DEF IInv, TypeOK, Frames, OnMessage
<1>b. /\ Head(port) \in Frames /\ port' \in Seq(Frames)
      /\ Head(port).type = "data" => Head(port).item \in 1..Items
      /\ \A i \in DOMAIN port' : port'[i].type = "data" => port'[i].item \in 1..Items
  BY <1>a, TailProperties DEF IInv, ItemInv
<1>c. \A r \in Requests :
        AnswerComes(r) => AnswerComes(r)' \/ (Head(port).req = r /\ Head(port).type \in {"ok", "err"})
  <2> SUFFICES ASSUME NEW r \in Requests, NEW i \in DOMAIN port,
                      port[i].req = r, port[i].type \in {"ok", "err"}
               PROVE  AnswerComes(r)' \/ (Head(port).req = r /\ Head(port).type \in {"ok", "err"})
    BY DEF AnswerComes
  <2>1. CASE i = 1
    BY <1>a, <2>1, TailProperties
  <2>2. CASE i # 1
    BY <1>a, <2>2, TailProperties DEF AnswerComes
  <2> QED
    BY <2>1, <2>2
<1>d. /\ pending' \subseteq pending
      /\ Head(port).type \in {"ok", "err"} => Head(port).req \notin pending'
      /\ UNCHANGED <<bridge, shut, running, registered, disposed, kind, request, sink, producer,
                    added, streamsOpen, muted>>
  BY DEF OnMessage, OnOk, OnErr, OnData, OnMalformed, OnEnd, Answers, sessionVars, runtimeVars,
     sinkVars
<1>1. TypeOK'
  <2> DEFINE f == Head(port)
  <2>1. f.req \in Requests
    BY <1>b DEF Frames
  <2>2. future' \in [Requests -> {"none", "open", "value", "error"}]
    BY <2>1 DEF IInv, TypeOK, OnMessage, OnOk, OnErr, OnData, OnMalformed, OnEnd, Answers
  <2>3. streams' \subseteq Requests
    BY DEF IInv, TypeOK, OnMessage, OnOk, OnErr, OnData, OnMalformed, OnEnd, EndsStream
  <2>4. listener' \in [Requests -> {"none", "listening", "cancelled", "ended", "failed", "closed"}]
    BY <2>1 DEF IInv, TypeOK, OnMessage, OnOk, OnErr, OnData, OnMalformed, OnEnd, EndsStream
  <2>5. heard' \in [Requests -> Seq(1..Items)]
    <3>1. CASE f.type = "data" /\ f.req \in streams /\ heard' = [heard EXCEPT ![f.req] = Append(@, f.item)]
      <4>1. Append(heard[f.req], f.item) \in Seq(1..Items)
        BY <1>b, <2>1, <3>1 DEF IInv, TypeOK
      <4> QED
        BY <2>1, <3>1, <4>1 DEF IInv, TypeOK
    <3>2. CASE UNCHANGED heard
      BY <3>2 DEF IInv, TypeOK
    <3>3. \/ f.type = "data" /\ f.req \in streams /\ heard' = [heard EXCEPT ![f.req] = Append(@, f.item)]
          \/ UNCHANGED heard
      BY DEF OnMessage, OnOk, OnErr, OnData, OnMalformed, OnEnd
    <3> QED
      BY <3>1, <3>2, <3>3
  <2>6. UNCHANGED <<kind, cancelled, stuck>>
    BY DEF OnMessage, sessionVars
  <2>7. added' = added
    BY DEF OnMessage, sinkVars
  <2> QED
    BY <1>b, <1>d, <2>2, <2>3, <2>4, <2>5, <2>6, <2>7 DEF IInv, TypeOK, Frames
<1>2. ItemInv'
  BY MayCallAssumption, ItemsAssumption, <1>b, <1>c, <1>d
     DEF IInv, TypeOK, ItemInv, OnMessage, dartVars, sessionVars, runtimeVars, sinkVars
<1>3. BridgeInv'
  BY MayCallAssumption, ItemsAssumption, <1>b, <1>c, <1>d
     DEF IInv, TypeOK, BridgeInv, HasFuture, OnMessage, dartVars, sessionVars, runtimeVars, sinkVars
<1>4. SinkInv'
  BY MayCallAssumption, ItemsAssumption, <1>b, <1>c, <1>d
     DEF IInv, TypeOK, SinkInv, BridgeInv, OnMessage, dartVars, sessionVars, runtimeVars, sinkVars
<1>5. NoRequestIsLost'
  BY MayCallAssumption, ItemsAssumption, <1>b, <1>c, <1>d
     DEF IInv, TypeOK, NoRequestIsLost, BridgeInv, HasFuture, OnMessage, dartVars, sessionVars, runtimeVars, sinkVars
<1>6. ClosedSinksAreForgotten'
  BY MayCallAssumption, ItemsAssumption, <1>b, <1>c, <1>d
     DEF IInv, TypeOK, ClosedSinksAreForgotten, ItemInv, OnMessage, dartVars, sessionVars, runtimeVars, sinkVars
<1> QED
  BY <1>1, <1>2, <1>3, <1>4, <1>5, <1>6 DEF IInv

\* Another isolate's shutdown keeps it ...
LEMMA ShutBeginsKeeps ==
  ASSUME IInv, ShutBegins
  PROVE  IInv'
<1>1. TypeOK'
  BY MayCallAssumption, ItemsAssumption
     DEF IInv, TypeOK, Frames, Kinds, ShutBegins, dartVars, sessionVars, runtimeVars, sinkVars
<1>2. ItemInv'
  BY MayCallAssumption, ItemsAssumption
     DEF IInv, TypeOK, ItemInv, ShutBegins, dartVars, sessionVars, runtimeVars, sinkVars
<1>3. BridgeInv'
  BY MayCallAssumption, ItemsAssumption
     DEF IInv, TypeOK, BridgeInv, HasFuture, ShutBegins, dartVars, sessionVars, runtimeVars, sinkVars
<1>4. SinkInv'
  BY MayCallAssumption, ItemsAssumption
     DEF IInv, TypeOK, SinkInv, BridgeInv, ShutBegins, dartVars, sessionVars, runtimeVars, sinkVars
<1>5. NoRequestIsLost'
  BY MayCallAssumption, ItemsAssumption
     DEF IInv, TypeOK, NoRequestIsLost, BridgeInv, AnswerComes, HasFuture, ShutBegins, dartVars, sessionVars, runtimeVars, sinkVars
<1>6. ClosedSinksAreForgotten'
  BY MayCallAssumption, ItemsAssumption
     DEF IInv, TypeOK, ClosedSinksAreForgotten, ItemInv, ShutBegins, dartVars, sessionVars, runtimeVars, sinkVars
<1> QED
  BY <1>1, <1>2, <1>3, <1>4, <1>5, <1>6 DEF IInv

\* ... step by step ...
LEMMA ShutDisposesKeeps ==
  ASSUME IInv, ShutDisposes
  PROVE  IInv'
<1>1. TypeOK'
  BY MayCallAssumption, ItemsAssumption
     DEF IInv, TypeOK, Frames, Kinds, ShutDisposes, dartVars, sessionVars, runtimeVars, sinkVars
<1>2. ItemInv'
  BY MayCallAssumption, ItemsAssumption
     DEF IInv, TypeOK, ItemInv, ShutDisposes, dartVars, sessionVars, runtimeVars, sinkVars
<1>3. BridgeInv'
  BY MayCallAssumption, ItemsAssumption
     DEF IInv, TypeOK, BridgeInv, HasFuture, ShutDisposes, dartVars, sessionVars, runtimeVars, sinkVars
<1>4. SinkInv'
  BY MayCallAssumption, ItemsAssumption
     DEF IInv, TypeOK, SinkInv, BridgeInv, ShutDisposes, dartVars, sessionVars, runtimeVars, sinkVars
<1>5. NoRequestIsLost'
  BY MayCallAssumption, ItemsAssumption
     DEF IInv, TypeOK, NoRequestIsLost, BridgeInv, AnswerComes, HasFuture, ShutDisposes, dartVars, sessionVars, runtimeVars, sinkVars
<1>6. ClosedSinksAreForgotten'
  BY MayCallAssumption, ItemsAssumption
     DEF IInv, TypeOK, ClosedSinksAreForgotten, ItemInv, ShutDisposes, dartVars, sessionVars, runtimeVars, sinkVars
<1> QED
  BY <1>1, <1>2, <1>3, <1>4, <1>5, <1>6 DEF IInv

\* ... to its end.
LEMMA ShutStopsKeeps ==
  ASSUME IInv, ShutStops
  PROVE  IInv'
<1>1. TypeOK'
  BY MayCallAssumption, ItemsAssumption
     DEF IInv, TypeOK, Frames, Kinds, ShutStops, dartVars, sessionVars, runtimeVars, sinkVars
<1>2. ItemInv'
  BY MayCallAssumption, ItemsAssumption
     DEF IInv, TypeOK, ItemInv, ShutStops, dartVars, sessionVars, runtimeVars, sinkVars
<1>3. BridgeInv'
  BY MayCallAssumption, ItemsAssumption
     DEF IInv, TypeOK, BridgeInv, HasFuture, ShutStops, dartVars, sessionVars, runtimeVars, sinkVars
<1>4. SinkInv'
  BY MayCallAssumption, ItemsAssumption
     DEF IInv, TypeOK, SinkInv, BridgeInv, ShutStops, dartVars, sessionVars, runtimeVars, sinkVars
<1>5. NoRequestIsLost'
  BY MayCallAssumption, ItemsAssumption
     DEF IInv, TypeOK, NoRequestIsLost, BridgeInv, AnswerComes, HasFuture, ShutStops, dartVars, sessionVars, runtimeVars, sinkVars
<1>6. ClosedSinksAreForgotten'
  BY MayCallAssumption, ItemsAssumption
     DEF IInv, TypeOK, ClosedSinksAreForgotten, ItemInv, ShutStops, dartVars, sessionVars, runtimeVars, sinkVars
<1> QED
  BY <1>1, <1>2, <1>3, <1>4, <1>5, <1>6 DEF IInv

\* A step that changes nothing keeps the invariant.
LEMMA StutterKeeps ==
  ASSUME IInv, UNCHANGED vars
  PROVE  IInv'
BY DEF IInv, TypeOK, ItemInv, BridgeInv, SinkInv, NoRequestIsLost, ClosedSinksAreForgotten,
   AnswerComes, HasFuture, vars, dartVars, sessionVars, runtimeVars, sinkVars

\* Every step keeps the invariant.
LEMMA StepIInv == IInv /\ [Next]_vars => IInv'
<1> SUFFICES ASSUME IInv, [Next]_vars PROVE IInv'
  OBVIOUS
<1>1. ASSUME NEW r \in Requests, Invoke(r) \/ Cancel(r) PROVE IInv'
  BY <1>1, InvokeKeeps, CancelKeeps
<1>2. ASSUME NEW r \in Requests, IoStep(r) PROVE IInv'
  BY <1>2, DispatchDroppedKeeps, DispatchStartsKeeps, DispatchFailsKeeps, DispatchLocksTwiceKeeps,
     ReplyLooksKeeps, ReplyPostsKeeps DEF IoStep, Dispatch
<1>3. ASSUME NEW r \in Requests, SinkStep(r) PROVE IInv'
  BY <1>3, AddPostsKeeps, AddFailsKeeps, EndPostsKeeps, EndErasesKeeps DEF SinkStep
<1>4. ASSUME NEW r \in Requests, AddRefused(r) \/ AddLooks(r) \/ EndLooks(r) PROVE IInv'
  BY <1>4, AddRefusedKeeps, AddLooksKeeps, EndLooksKeeps
<1>5. CASE DartDisposes \/ DartCloses \/ OnMessage
  BY <1>5, DartDisposesKeeps, DartClosesKeeps, OnMessageKeeps
<1>6. CASE ShutBegins \/ ShutStep
  BY <1>6, ShutBeginsKeeps, ShutDisposesKeeps, ShutStopsKeeps DEF ShutStep
<1>7. CASE UNCHANGED vars
  BY <1>7, StutterKeeps
<1> QED
  BY <1>1, <1>2, <1>3, <1>4, <1>5, <1>6, <1>7 DEF Next

-----------------------------------------------------------------------------
(* Theorems.                                                                *)

\* The invariant holds in every reachable state.
THEOREM InvocationInvariant == Spec => []IInv
<1> QED
  BY InitIInv, StepIInv, PTL DEF Spec

\* Types.
THEOREM InvocationTypes == Spec => []TypeOK
<1>1. IInv => TypeOK
  BY DEF IInv
<1> QED
  BY <1>1, InvocationInvariant, PTL

\* Between dcb_invoke_async, the dispatch and dispose() no request is lost: a
\* Future that waits has its request in the native side's hands, or its answer
\* in the port.
THEOREM NoRequestFallsBetween == Spec => []NoRequestIsLost
<1>1. IInv => NoRequestIsLost
  BY DEF IInv
<1> QED
  BY <1>1, InvocationInvariant, PTL

\* A sink that is closed, by whichever side, has left Session::streams_open_.
THEOREM SinksAreForgotten == Spec => []ClosedSinksAreForgotten
<1>1. IInv => ClosedSinksAreForgotten
  BY DEF IInv
<1> QED
  BY <1>1, InvocationInvariant, PTL

\* No add() passes its checks once Dart has closed the sink's stream.
LEMMA MutedStep ==
  ASSUME IInv, [Next]_vars, NEW r \in muted, producer[r] = "idle"
  PROVE  producer'[r] # "adding"
<1>1. r \in Requests /\ r \notin streamsOpen /\ producer \in [Requests -> {"idle", "adding", "ending",
        "failing", "erasing"}]
  BY DEF IInv, TypeOK, SinkInv
<1>2. ASSUME NEW q \in Requests, AddLooks(q) PROVE producer'[r] # "adding"
  BY <1>1, <1>2 DEF AddLooks
<1>3. ASSUME NEW q \in Requests, EndLooks(q) PROVE producer'[r] # "adding"
  BY <1>1, <1>3 DEF EndLooks
<1>4. ASSUME NEW q \in Requests, SinkStep(q) PROVE producer'[r] # "adding"
  BY <1>1, <1>4 DEF SinkStep, AddPosts, AddFails, EndPosts, EndErases
<1>5. ASSUME NEW q \in Requests, IoStep(q) PROVE producer'[r] # "adding"
  BY <1>5 DEF IoStep, Dispatch, DispatchDropped, DispatchStarts, DispatchFails, DispatchLocksTwice,
     ReplyLooks, ReplyPosts, sinkVars
<1>6. ASSUME NEW q \in Requests, Invoke(q) \/ Cancel(q) \/ AddRefused(q) PROVE producer'[r] # "adding"
  BY <1>6 DEF Invoke, Cancel, AddRefused, sinkVars
<1>7. CASE DartDisposes \/ DartCloses \/ OnMessage
  BY <1>7 DEF DartDisposes, DartCloses, OnMessage, sinkVars
<1>8. CASE ShutBegins \/ ShutStep
  BY <1>8 DEF ShutBegins, ShutStep, ShutDisposes, ShutStops, sinkVars
<1>9. CASE UNCHANGED vars
  BY <1>9 DEF vars, sinkVars
<1> QED
  BY <1>2, <1>3, <1>4, <1>5, <1>6, <1>7, <1>8, <1>9 DEF Next

\* A cancelled stream falls silent: at most the item whose add() had passed its
\* checks before is still posted.
THEOREM CancelledSinksStaySilent == Spec => CancelSilencesSinks
<1>1. IInv /\ [Next]_vars => [\A r \in muted : producer[r] = "idle" => producer'[r] # "adding"]_vars
  BY MutedStep
<1> QED
  BY <1>1, InvocationInvariant, PTL DEF Spec, CancelSilencesSinks

-----------------------------------------------------------------------------
(* Streams: what the frames in the port say of the sinks and the listeners.  *)

\* The items of r that add() has posted or lost: all but the one in its hands.
Posted(r) == IF producer[r] = "adding" THEN added[r] - 1 ELSE added[r]

\* The port holds the k-th item of r, or its end.
Comes(r, k) == \E i \in DOMAIN port : port[i] = Frame("data", r, k)
EndComes(r) == \E i \in DOMAIN port : port[i].type = "end" /\ port[i].req = r

\* Every item so far has been posted, and the stream may still end well.
Live(r) == running /\ ~disposed /\ (sink[r] # "closed" \/ producer[r] = "ending")

\* A sink that does not exist has no items and no frames, and one that ends is
\* closed first.
SinkOK(r) ==
  /\ sink[r] = "none" =>
       /\ producer[r] = "idle" /\ added[r] = 0 /\ heard[r] = <<>>
       /\ \A i \in DOMAIN port : port[i].req = r => port[i].type \notin {"data", "end"}
  /\ producer[r] \in {"ending", "failing", "erasing"} => sink[r] = "closed"

\* The items stand in the port in their order, and behind them the end, which
\* only a closed sink posts.
OrderOK(r) ==
  /\ \A i \in DOMAIN port : port[i].req = r =>
       /\ port[i].type = "data" => port[i].item <= Posted(r)
       /\ port[i].type = "end" => sink[r] = "closed" /\ producer[r] \in {"erasing", "idle"}
  /\ \A i, j \in DOMAIN port :
       i < j /\ port[i].req = r /\ port[j].req = r /\ port[j].type = "data" =>
         /\ port[i].type # "end"
         /\ port[i].type = "data" => port[i].item < port[j].item

\* What has been heard is a prefix of what was posted, ...
HeardOK(r) ==
  /\ heard[r] = [k \in 1..Len(heard[r]) |-> k]
  /\ Len(heard[r]) <= Posted(r)
  /\ listener[r] = "ended" => /\ r \notin streams /\ Len(heard[r]) = added[r]
                              /\ sink[r] = "closed" /\ producer[r] # "adding"

\* ... and what comes to a listener continues it without a gap, up to the last
\* item while the sink is live or when it has ended well.
GapOK(r) ==
  r \in streams =>
    /\ \A k \in 1..Items : Comes(r, k) =>
         /\ Len(heard[r]) < k
         /\ \A l \in 1..Items : Len(heard[r]) < l /\ l < k => Comes(r, l)
    /\ Live(r) \/ EndComes(r) =>
         \A k \in 1..Items : Len(heard[r]) < k /\ k <= Posted(r) => Comes(r, k)

StreamOK(r) == SinkOK(r) /\ OrderOK(r) /\ HeardOK(r) /\ GapOK(r)

StreamInv ==
  /\ streams # {} => bridge = "open"
  /\ \A r \in Requests : StreamOK(r)

\* A step that posts no item and no end of r, and makes r no livelier.
Calm(r) ==
  /\ heard'[r] = heard[r]
  /\ r \in streams' => r \in streams
  /\ sink'[r] = "none" => sink[r] = "none" /\ producer'[r] = "idle" /\ added'[r] = added[r]
  /\ producer'[r] \in {"ending", "failing", "erasing"} => sink'[r] = "closed"
  /\ sink[r] = "closed" /\ producer[r] # "adding" =>
       sink'[r] = "closed" /\ producer'[r] # "adding" /\ added'[r] = added[r]
  /\ sink[r] = "closed" /\ producer[r] \in {"erasing", "idle"} =>
       producer'[r] \in {"erasing", "idle"}
  /\ Posted(r) <= Posted(r)'
  /\ r \in streams' /\ Live(r)' => Live(r) /\ Posted(r)' = Posted(r)
  /\ listener'[r] = "ended" =>
       \/ listener[r] = "ended"
       \/ /\ r \notin streams' /\ Len(heard[r]) = added[r]
          /\ sink[r] = "closed" /\ producer[r] # "adding"

\* The frames stay, and no item and no end of r joins them.
Neutral(r) ==
  /\ \A i \in DOMAIN port : i \in DOMAIN port' /\ port'[i] = port[i]
  /\ \A i \in DOMAIN port' :
       \/ i \in DOMAIN port
       \/ port'[i].req # r
       \/ port'[i].type \notin {"data", "end"}

\* The types of what the streams are made of.
LEMMA StreamTypes ==
  ASSUME TypeOK, ItemInv, NEW r \in Requests
  PROVE  /\ port \in Seq(Frames) /\ Len(port) \in Nat /\ DOMAIN port = 1..Len(port)
         /\ \A i \in DOMAIN port : port[i] \in Frames
         /\ added[r] \in 0..Items /\ Posted(r) \in 0..Items /\ Items \in Nat
         /\ heard[r] \in Seq(1..Items) /\ Len(heard[r]) \in Nat
<1>1. port \in Seq(Frames) /\ Len(port) \in Nat /\ DOMAIN port = 1..Len(port)
  BY DEF TypeOK, Frames
<1>2. added[r] \in 0..Items /\ Items \in Nat /\ (producer[r] = "adding" => added[r] \in 1..Items)
  BY ItemsAssumption DEF TypeOK, ItemInv
<1>3. Posted(r) \in 0..Items
  BY <1>2 DEF Posted
<1>4. heard[r] \in Seq(1..Items) /\ Len(heard[r]) \in Nat
  BY DEF TypeOK
<1>5. \A i \in DOMAIN port : port[i] \in Frames
  BY <1>1
<1> QED
  BY <1>1, <1>2, <1>3, <1>4, <1>5

\* What a calm step keeps of a sink and its listener.
LEMMA CalmKeeps ==
  ASSUME TypeOK, TypeOK', ItemInv, ItemInv', NEW r \in Requests, StreamOK(r), Calm(r)
  PROVE  HeardOK(r)' /\ (Posted(r) <= Posted(r)') /\ Posted(r) \in Int /\ Posted(r)' \in Int
<1>1. Posted(r) \in Int /\ Len(heard[r]) \in Int /\ Posted(r)' \in Int
  <2>1. Posted(r) \in 0..Items /\ Len(heard[r]) \in Nat /\ Items \in Nat
    BY StreamTypes
  <2>2. producer'[r] = "adding" => added'[r] \in 1..Items
    BY DEF ItemInv
  <2>3. added'[r] \in 0..Items
    BY DEF TypeOK
  <2>4. Posted(r)' \in Int
    BY <2>1, <2>2, <2>3 DEF Posted
  <2> QED
    BY <2>1, <2>4
<1>2. Len(heard[r]) <= Posted(r) /\ Posted(r) <= Posted(r)'
  BY DEF StreamOK, HeardOK, Calm
<1>3. Len(heard[r]) <= Posted(r)'
  BY <1>1, <1>2
<1>4. heard'[r] = heard[r] /\ heard[r] = [k \in 1..Len(heard[r]) |-> k]
  BY DEF Calm, StreamOK, HeardOK
<1>5. listener'[r] = "ended" => /\ r \notin streams' /\ Len(heard'[r]) = added'[r]
                                /\ sink'[r] = "closed" /\ producer'[r] # "adding"
  BY <1>4 DEF Calm, StreamOK, HeardOK
<1> QED
  BY <1>1, <1>2, <1>3, <1>4, <1>5 DEF HeardOK

\* A calm step that leaves the frames of r alone keeps its stream in order.
LEMMA NeutralStep ==
  ASSUME TypeOK, TypeOK', ItemInv, ItemInv', NEW r \in Requests,
         StreamOK(r), Calm(r), Neutral(r)
  PROVE  StreamOK(r)'
<1>1. /\ HeardOK(r)' /\ (Posted(r) <= Posted(r)') /\ Posted(r) \in Int /\ Posted(r)' \in Int
  BY CalmKeeps
<1>2. DOMAIN port \subseteq Int /\ DOMAIN port' \subseteq Int /\ \A i \in DOMAIN port : port[i] \in Frames
  <2>1. DOMAIN port' \subseteq Int
    BY DEF TypeOK
  <2> QED
    BY <2>1, StreamTypes
<1>3. \A i \in DOMAIN port' : port'[i].req = r /\ port'[i].type \in {"data", "end"} =>
        i \in DOMAIN port /\ port'[i] = port[i]
  BY DEF Neutral
<1>4. SinkOK(r)'
  BY <1>3 DEF StreamOK, SinkOK, Calm
<1>5. OrderOK(r)'
  <2>1. ASSUME NEW i \in DOMAIN port', port'[i].req = r
        PROVE  /\ port'[i].type = "data" => port'[i].item <= Posted(r)'
               /\ port'[i].type = "end" => sink'[r] = "closed" /\ producer'[r] \in {"erasing", "idle"}
    <3>1. ASSUME port'[i].type = "data" PROVE port'[i].item <= Posted(r)'
      <4>1. i \in DOMAIN port /\ port'[i] = port[i]
        BY <1>3, <2>1, <3>1
      <4>2. port[i].item <= Posted(r) /\ port[i].item \in Int
        BY <1>2, <2>1, <3>1, <4>1, ItemsAssumption DEF StreamOK, OrderOK, Frames
      <4> QED
        BY <1>1, <4>1, <4>2
    <3>2. ASSUME port'[i].type = "end"
          PROVE  sink'[r] = "closed" /\ producer'[r] \in {"erasing", "idle"}
      <4>1. i \in DOMAIN port /\ port'[i] = port[i]
        BY <1>3, <2>1, <3>2
      <4> QED
        BY <2>1, <3>2, <4>1 DEF StreamOK, OrderOK, Calm
    <3> QED
      BY <3>1, <3>2
  <2>2. ASSUME NEW i \in DOMAIN port', NEW j \in DOMAIN port', i < j,
               port'[i].req = r, port'[j].req = r, port'[j].type = "data"
        PROVE  /\ port'[i].type # "end"
               /\ port'[i].type = "data" => port'[i].item < port'[j].item
    BY <1>3, <2>2 DEF StreamOK, OrderOK
  <2> QED
    BY <2>1, <2>2 DEF OrderOK, Posted
<1>6. GapOK(r)'
  <2>1. \A k : Comes(r, k)' <=> Comes(r, k)
    BY <1>3 DEF Comes, Neutral, Frame
  <2>2. EndComes(r)' <=> EndComes(r)
    BY <1>3 DEF EndComes, Neutral
  <2>3. ASSUME r \in streams' PROVE r \in streams /\ heard'[r] = heard[r] /\ GapOK(r)
    BY <2>3 DEF Calm, StreamOK
  <2>4. ASSUME r \in streams', Live(r)' \/ EndComes(r)'
        PROVE  (Live(r) \/ EndComes(r)) /\ Posted(r)' = Posted(r)
    <3>1. CASE Live(r)'
      BY <2>4, <3>1 DEF Calm
    <3>2. CASE EndComes(r)'
      <4>1. EndComes(r) /\ sink[r] = "closed" /\ producer[r] \in {"erasing", "idle"}
        BY <2>2, <3>2 DEF EndComes, StreamOK, OrderOK
      <4>2. Posted(r)' = Posted(r)
        BY <4>1 DEF Calm, Posted
      <4> QED
        BY <4>1, <4>2
    <3> QED
      BY <2>4, <3>1, <3>2
  <2>5. ASSUME r \in streams', NEW k \in 1..Items, Comes(r, k)'
        PROVE  /\ Len(heard'[r]) < k
               /\ \A l \in 1..Items : Len(heard'[r]) < l /\ l < k => Comes(r, l)'
    BY <2>1, <2>3, <2>5 DEF GapOK
  <2>6. ASSUME r \in streams', Live(r)' \/ EndComes(r)', NEW k \in 1..Items,
               Len(heard'[r]) < k, k <= Posted(r)'
        PROVE  Comes(r, k)'
    BY <2>1, <2>3, <2>4, <2>6 DEF GapOK
  <2> QED
    BY <2>5, <2>6 DEF GapOK
<1> QED
  BY <1>1, <1>4, <1>5, <1>6 DEF StreamOK

\* The isolate closes the port, or what it handles is no item and no end that
\* a listener of r waits for.
LEMMA ShiftStep ==
  ASSUME TypeOK, TypeOK', ItemInv, ItemInv', NEW r \in Requests, StreamOK(r), Calm(r),
         port # <<>>, port' = Tail(port),
         r \in streams' => Head(port).req # r \/ Head(port).type \notin {"data", "end"}
  PROVE  StreamOK(r)'
<1>1. /\ HeardOK(r)' /\ (Posted(r) <= Posted(r)') /\ Posted(r) \in Int /\ Posted(r)' \in Int
  BY CalmKeeps
<1>2. /\ port \in Seq(Frames) /\ DOMAIN port \subseteq Int
      /\ \A i \in DOMAIN port : port[i] \in Frames
  BY StreamTypes
<1>3. /\ Head(port) = port[1] /\ DOMAIN port' \subseteq Int
      /\ \A i \in DOMAIN port : i = 1 \/ (i - 1 \in DOMAIN port' /\ port'[i - 1] = port[i])
      /\ \A i \in DOMAIN port' : i + 1 \in DOMAIN port /\ port'[i] = port[i + 1]
  <2>1. DOMAIN port' \subseteq Int
    BY DEF TypeOK
  <2> QED
    BY <1>2, <2>1, TailProperties
<1>4. SinkOK(r)'
  BY <1>3 DEF StreamOK, SinkOK, Calm
<1>5. OrderOK(r)'
  <2>1. ASSUME NEW i \in DOMAIN port', port'[i].req = r
        PROVE  /\ port'[i].type = "data" => port'[i].item <= Posted(r)'
               /\ port'[i].type = "end" => sink'[r] = "closed" /\ producer'[r] \in {"erasing", "idle"}
    <3>1. i + 1 \in DOMAIN port /\ port'[i] = port[i + 1] /\ port[i + 1].req = r
      BY <1>3, <2>1
    <3>2. ASSUME port'[i].type = "data" PROVE port'[i].item <= Posted(r)'
      <4>1. port[i + 1].item <= Posted(r) /\ port[i + 1].item \in Int
        BY <1>2, <3>1, <3>2, ItemsAssumption DEF StreamOK, OrderOK, Frames
      <4> QED
        BY <1>1, <3>1, <4>1
    <3>3. ASSUME port'[i].type = "end"
          PROVE  sink'[r] = "closed" /\ producer'[r] \in {"erasing", "idle"}
      BY <3>1, <3>3 DEF StreamOK, OrderOK, Calm
    <3> QED
      BY <3>2, <3>3
  <2>2. ASSUME NEW i \in DOMAIN port', NEW j \in DOMAIN port', i < j,
               port'[i].req = r, port'[j].req = r, port'[j].type = "data"
        PROVE  /\ port'[i].type # "end"
               /\ port'[i].type = "data" => port'[i].item < port'[j].item
    <3>1. i + 1 < j + 1
      BY <1>3, <2>2
    <3> QED
      BY <1>3, <2>2, <3>1 DEF StreamOK, OrderOK
  <2> QED
    BY <2>1, <2>2 DEF OrderOK, Posted
<1>6. GapOK(r)'
  <2>1. ASSUME r \in streams' PROVE \A k : Comes(r, k)' <=> Comes(r, k)
    <3>1. ASSUME NEW k, Comes(r, k)' PROVE Comes(r, k)
      BY <1>3, <3>1 DEF Comes, Frame
    <3>2. ASSUME NEW k, Comes(r, k) PROVE Comes(r, k)'
      <4>1. PICK i \in DOMAIN port : port[i] = Frame("data", r, k)
        BY <3>2 DEF Comes
      <4>2. i # 1
        BY <1>3, <2>1, <4>1 DEF Frame
      <4> QED
        BY <1>3, <4>1, <4>2 DEF Comes, Frame
    <3> QED
      BY <3>1, <3>2
  <2>2. EndComes(r)' => EndComes(r)
    BY <1>3 DEF EndComes
  <2>3. ASSUME r \in streams' PROVE r \in streams /\ heard'[r] = heard[r] /\ GapOK(r)
    BY <2>3 DEF Calm, StreamOK
  <2>4. ASSUME r \in streams', Live(r)' \/ EndComes(r)'
        PROVE  (Live(r) \/ EndComes(r)) /\ Posted(r)' = Posted(r)
    <3>1. CASE Live(r)'
      BY <2>4, <3>1 DEF Calm
    <3>2. CASE EndComes(r)'
      <4>1. EndComes(r) /\ sink[r] = "closed" /\ producer[r] \in {"erasing", "idle"}
        BY <2>2, <3>2 DEF EndComes, StreamOK, OrderOK
      <4>2. Posted(r)' = Posted(r)
        BY <4>1 DEF Calm, Posted
      <4> QED
        BY <4>1, <4>2
    <3> QED
      BY <2>4, <3>1, <3>2
  <2>5. ASSUME r \in streams', NEW k \in 1..Items, Comes(r, k)'
        PROVE  /\ Len(heard'[r]) < k
               /\ \A l \in 1..Items : Len(heard'[r]) < l /\ l < k => Comes(r, l)'
    BY <2>1, <2>3, <2>5 DEF GapOK
  <2>6. ASSUME r \in streams', Live(r)' \/ EndComes(r)', NEW k \in 1..Items,
               Len(heard'[r]) < k, k <= Posted(r)'
        PROVE  Comes(r, k)'
    BY <2>1, <2>3, <2>4, <2>6 DEF GapOK
  <2> QED
    BY <2>5, <2>6 DEF GapOK
<1> QED
  BY <1>1, <1>4, <1>5, <1>6 DEF StreamOK

\* The isolate closes its port: nobody listens any more.
LEMMA ClearStep ==
  ASSUME TypeOK, TypeOK', ItemInv, ItemInv', NEW r \in Requests, StreamOK(r), Calm(r),
         port' = <<>>, r \notin streams'
  PROVE  StreamOK(r)'
<1>1. HeardOK(r)'
  BY CalmKeeps
<1>2. DOMAIN port' = {}
  OBVIOUS
<1>3. SinkOK(r)'
  BY <1>2 DEF StreamOK, SinkOK, Calm
<1>4. OrderOK(r)' /\ GapOK(r)'
  BY <1>2 DEF OrderOK, GapOK
<1> QED
  BY <1>1, <1>3, <1>4 DEF StreamOK

\* A listener hears the next item.
LEMMA HearStep ==
  ASSUME TypeOK, TypeOK', ItemInv, ItemInv', NEW r \in Requests, StreamOK(r),
         port # <<>>, port' = Tail(port), r \in streams,
         Head(port).req = r, Head(port).type = "data",
         heard'[r] = Append(heard[r], Head(port).item),
         UNCHANGED <<listener, sink, producer, added, running, disposed>>
  PROVE  StreamOK(r)'
<1>1. /\ port \in Seq(Frames) /\ DOMAIN port \subseteq Int
      /\ \A i \in DOMAIN port : port[i] \in Frames
      /\ Posted(r) \in 0..Items /\ heard[r] \in Seq(1..Items) /\ Len(heard[r]) \in Nat /\ Items \in Nat
  BY StreamTypes
<1>2. /\ 1 \in DOMAIN port /\ Head(port) = port[1] /\ DOMAIN port' \subseteq Int
      /\ \A i \in DOMAIN port : i = 1 \/ (i - 1 \in DOMAIN port' /\ port'[i - 1] = port[i])
      /\ \A i \in DOMAIN port' : i + 1 \in DOMAIN port /\ port'[i] = port[i + 1] /\ 1 < i + 1
  <2>1. DOMAIN port' \subseteq Int /\ \A i \in DOMAIN port' : 1 < i + 1
    BY DEF TypeOK
  <2>2. 1 \in DOMAIN port
    BY <1>1
  <2> QED
    BY <1>1, <2>1, <2>2, TailProperties
<1>3. PICK n \in 1..Items : port[1] = Frame("data", r, n) /\ n = Head(port).item
  <2>1. port[1].item \in 1..Items /\ port[1].type = "data" /\ port[1].req = r /\ port[1] \in Frames
    BY <1>1, <1>2 DEF ItemInv
  <2>2. port[1] = Frame("data", r, port[1].item)
    BY <2>1 DEF Frames, Frame
  <2> QED
    BY <1>2, <2>1, <2>2
<1>4. port[1].req = r /\ port[1].type = "data" /\ port[1].item = n /\ n \in Int
  BY <1>3 DEF Frame
<1>5. OrderOK(r) /\ GapOK(r) /\ HeardOK(r) /\ SinkOK(r)
  BY DEF StreamOK
<1>6. Len(heard[r]) < n /\ \A l \in 1..Items : Len(heard[r]) < l /\ l < n => Comes(r, l)
  <2>1. Comes(r, n)
    BY <1>2, <1>3 DEF Comes
  <2> QED
    BY <1>5, <2>1 DEF GapOK
<1>7. \A l \in 1..Items : Comes(r, l) => l = n \/ n < l
  <2>1. ASSUME NEW l \in 1..Items, NEW j \in DOMAIN port, port[j] = Frame("data", r, l), j # 1
        PROVE  n < l
    <3>1. 1 < j
      BY <1>1, <2>1
    <3>2. port[j].req = r /\ port[j].type = "data" /\ port[j].item = l
      BY <2>1 DEF Frame
    <3> QED
      BY <1>2, <1>4, <1>5, <3>1, <3>2 DEF OrderOK
  <2>2. ASSUME NEW l \in 1..Items, port[1] = Frame("data", r, l) PROVE l = n
    BY <1>3, <2>2 DEF Frame
  <2> QED
    BY <2>1, <2>2 DEF Comes
<1>8. n = Len(heard[r]) + 1
  <2>1. ~(Len(heard[r]) + 1 < n)
    <3>1. SUFFICES ASSUME Len(heard[r]) + 1 < n PROVE FALSE
      OBVIOUS
    <3>2. Len(heard[r]) + 1 \in 1..Items /\ Len(heard[r]) < Len(heard[r]) + 1
      BY <1>1, <1>4, <3>1
    <3>3. Comes(r, Len(heard[r]) + 1)
      BY <1>6, <3>1, <3>2
    <3>4. Len(heard[r]) + 1 = n \/ n < Len(heard[r]) + 1
      BY <1>7, <3>2, <3>3
    <3> QED
      BY <1>1, <1>4, <3>1, <3>4
  <2> QED
    BY <1>1, <1>4, <1>6, <2>1
<1>9. ASSUME NEW k \in 1..Items PROVE Comes(r, k)' <=> Comes(r, k) /\ k # n
  <2>1. ASSUME Comes(r, k)' PROVE Comes(r, k) /\ k # n
    <3>1. PICK i \in DOMAIN port' : port'[i] = Frame("data", r, k)
      BY <2>1 DEF Comes, Frame
    <3>2. i + 1 \in DOMAIN port /\ port[i + 1] = Frame("data", r, k) /\ 1 < i + 1
      BY <1>2, <3>1
    <3>3. port[i + 1].req = r /\ port[i + 1].type = "data" /\ port[i + 1].item = k
      BY <3>2 DEF Frame
    <3>4. n < k
      BY <1>2, <1>4, <1>5, <3>2, <3>3 DEF OrderOK
    <3> QED
      BY <1>4, <3>2, <3>4 DEF Comes
  <2>2. ASSUME Comes(r, k), k # n PROVE Comes(r, k)'
    <3>1. PICK i \in DOMAIN port : port[i] = Frame("data", r, k)
      BY <2>2 DEF Comes
    <3>2. i # 1
      BY <1>3, <2>2, <3>1 DEF Frame
    <3>3. i - 1 \in DOMAIN port' /\ port'[i - 1] = Frame("data", r, k)
      BY <1>2, <3>1, <3>2
    <3>4. \E j \in DOMAIN port' : port'[j] = Frame("data", r, k)
      BY <3>3
    <3> QED
      BY <3>4 DEF Comes, Frame
  <2> QED
    BY <2>1, <2>2
<1>10. Posted(r)' = Posted(r)
  BY DEF Posted
<1>11. Len(heard'[r]) = n /\ heard'[r] = [k \in 1..n |-> k]
  <2>1. heard'[r] = Append(heard[r], n)
    BY <1>3
  <2> DEFINE h == heard[r]
  <2>2. h \in Seq(1..Items) /\ h = [k \in 1..Len(h) |-> k] /\ n = Len(h) + 1 /\ Len(h) \in Nat
    BY <1>1, <1>5, <1>8 DEF HeardOK
  <2> HIDE DEF h
  <2>3. Len(Append(h, n)) = n /\ Append(h, n) = [k \in 1..n |-> k]
    <3>1. Len(Append(h, n)) = n
      BY <1>3, <2>2
    <3>2. Append(h, n) = [k \in 1..(Len(h) + 1) |-> IF k = Len(h) + 1 THEN n ELSE h[k]]
      BY <1>3, <2>2
    <3>3. \A k \in 1..(Len(h) + 1) : (IF k = Len(h) + 1 THEN n ELSE h[k]) = k
      BY <2>2
    <3> QED
      BY <2>2, <3>1, <3>2, <3>3
  <2> QED
    BY <2>1, <2>3 DEF h
<1>12. SinkOK(r)'
  <2>1. sink[r] # "none"
    BY <1>2, <1>4, <1>5 DEF SinkOK
  <2> QED
    BY <1>5, <2>1 DEF SinkOK
<1>13. OrderOK(r)'
  <2>1. ASSUME NEW i \in DOMAIN port', port'[i].req = r
        PROVE  /\ port'[i].type = "data" => port'[i].item <= Posted(r)'
               /\ port'[i].type = "end" => sink'[r] = "closed" /\ producer'[r] \in {"erasing", "idle"}
    BY <1>2, <1>5, <1>10, <2>1 DEF OrderOK
  <2>2. ASSUME NEW i \in DOMAIN port', NEW j \in DOMAIN port', i < j,
               port'[i].req = r, port'[j].req = r, port'[j].type = "data"
        PROVE  /\ port'[i].type # "end"
               /\ port'[i].type = "data" => port'[i].item < port'[j].item
    <3>1. i + 1 < j + 1
      BY <1>2, <2>2
    <3> QED
      BY <1>2, <1>5, <2>2, <3>1 DEF OrderOK
  <2> QED
    BY <2>1, <2>2 DEF OrderOK, Posted
<1>14. HeardOK(r)'
  <2>1. n <= Posted(r)
    BY <1>2, <1>4, <1>5 DEF OrderOK
  <2>2. listener[r] # "ended"
    BY <1>5 DEF HeardOK
  <2> QED
    BY <1>10, <1>11, <2>1, <2>2 DEF HeardOK
<1>15. GapOK(r)'
  <2>1. ASSUME NEW k \in 1..Items, Comes(r, k)'
        PROVE  /\ n < k
               /\ \A l \in 1..Items : n < l /\ l < k => Comes(r, l)'
    <3>1. Comes(r, k) /\ k # n
      BY <1>9, <2>1
    <3>2. n < k
      BY <1>7, <3>1
    <3>3. ASSUME NEW l \in 1..Items, n < l, l < k PROVE Comes(r, l)'
      <4>1. Len(heard[r]) < l /\ l # n
        BY <1>1, <1>4, <1>8, <3>3
      <4>2. Comes(r, l)
        BY <1>5, <3>1, <3>3, <4>1 DEF GapOK
      <4> QED
        BY <1>9, <4>1, <4>2
    <3> QED
      BY <3>2, <3>3
  <2>2. ASSUME Live(r)' \/ EndComes(r)', NEW k \in 1..Items, n < k, k <= Posted(r)
        PROVE  Comes(r, k)'
    <3>1. Live(r) \/ EndComes(r)
      BY <1>2, <2>2 DEF Live, EndComes
    <3>2. Len(heard[r]) < k /\ k # n
      BY <1>1, <1>4, <1>8, <2>2
    <3>3. Comes(r, k)
      BY <1>5, <2>2, <3>1, <3>2 DEF GapOK
    <3> QED
      BY <1>9, <3>2, <3>3
  <2> QED
    BY <1>10, <1>11, <2>1, <2>2 DEF GapOK
<1> QED
  BY <1>12, <1>13, <1>14, <1>15 DEF StreamOK

\* add() posts the item behind those before it.
LEMMA AddPostsStep ==
  ASSUME TypeOK, TypeOK', ItemInv, NEW r \in Requests, StreamOK(r),
         producer[r] = "adding", producer'[r] = "idle", running, ~disposed,
         port' = Append(port, Frame("data", r, added[r])),
         UNCHANGED <<sink, added, heard, listener, streams>>
  PROVE  StreamOK(r)'
<1> DEFINE n == added[r]
           f == Frame("data", r, n)
           L == Len(port) + 1
<1>1. /\ port \in Seq(Frames) /\ Len(port) \in Nat /\ DOMAIN port = 1..Len(port)
      /\ Len(heard[r]) \in Nat /\ Items \in Nat /\ \A i \in DOMAIN port : port[i] \in Frames
  BY StreamTypes
<1>2. n \in 1..Items /\ n \in Int /\ sink[r] = "open"
  BY DEF ItemInv
<1>3. Posted(r) = n - 1 /\ Posted(r)' = n
  BY DEF Posted
<1>4. f \in Frames /\ f.req = r /\ f.type = "data" /\ f.item = n
  BY <1>2 DEF Frames, Frame
<1>5. /\ DOMAIN port' = 1..L /\ port'[L] = f
      /\ \A i \in DOMAIN port : i \in DOMAIN port' /\ i < L /\ port'[i] = port[i]
      /\ \A i \in DOMAIN port' : i \in DOMAIN port \/ i = L
  BY <1>1, <1>4
<1> HIDE DEF f, L
<1>6. OrderOK(r) /\ GapOK(r) /\ HeardOK(r) /\ SinkOK(r)
  BY DEF StreamOK
<1>7. \A i \in DOMAIN port : port[i].req = r =>
        port[i].type # "end" /\ (port[i].type = "data" => port[i].item < n)
  <2>1. ASSUME NEW i \in DOMAIN port, port[i].req = r, port[i].type = "data" PROVE port[i].item < n
    <3>1. port[i].item <= n - 1 /\ port[i].item \in Int
      BY <1>1, <1>3, <1>6, <2>1 DEF OrderOK, Frames
    <3> QED
      BY <1>2, <3>1
  <2>2. ASSUME NEW i \in DOMAIN port, port[i].req = r PROVE port[i].type # "end"
    BY <1>2, <1>6, <2>2 DEF OrderOK
  <2> QED
    BY <2>1, <2>2
<1>8. SinkOK(r)'
  BY <1>2 DEF SinkOK
<1>9. OrderOK(r)'
  <2>1. ASSUME NEW i \in DOMAIN port', port'[i].req = r
        PROVE  port'[i].type # "end" /\ (port'[i].type = "data" => port'[i].item <= n)
    <3>1. CASE i \in DOMAIN port
      <4>1. port[i].type = "data" => port[i].item < n /\ port[i].item \in Int
        BY <1>1, <1>5, <1>7, <2>1, <3>1 DEF Frames
      <4> QED
        BY <1>2, <1>5, <1>7, <2>1, <3>1, <4>1
    <3>2. CASE i = L
      BY <1>2, <1>4, <1>5, <3>2
    <3> QED
      BY <1>5, <3>1, <3>2
  <2>2. ASSUME NEW i \in DOMAIN port', NEW j \in DOMAIN port', i < j,
               port'[i].req = r, port'[j].req = r, port'[j].type = "data"
        PROVE  /\ port'[i].type # "end"
               /\ port'[i].type = "data" => port'[i].item < port'[j].item
    <3>1. i \in DOMAIN port
      BY <1>1, <1>5, <2>2 DEF L
    <3>2. CASE j \in DOMAIN port
      BY <1>5, <1>6, <2>2, <3>1, <3>2 DEF OrderOK
    <3>3. CASE j = L
      BY <1>4, <1>5, <1>7, <2>2, <3>1, <3>3
    <3> QED
      BY <1>5, <3>2, <3>3
  <2> QED
    BY <1>3, <2>1, <2>2 DEF OrderOK, Posted
<1>10. HeardOK(r)'
  <2>1. Len(heard[r]) <= n
    BY <1>1, <1>2, <1>3, <1>6 DEF HeardOK
  <2>2. listener[r] # "ended"
    BY <1>6 DEF HeardOK
  <2> QED
    BY <1>3, <1>6, <2>1, <2>2 DEF HeardOK
<1>11. GapOK(r)'
  <2>1. SUFFICES ASSUME r \in streams PROVE GapOK(r)'
    BY DEF GapOK
  <2>2. \A k \in 1..Items : Comes(r, k)' <=> Comes(r, k) \/ k = n
    <3>1. ASSUME NEW k \in 1..Items, Comes(r, k)' PROVE Comes(r, k) \/ k = n
      <4>1. PICK i \in DOMAIN port' : port'[i] = Frame("data", r, k)
        BY <3>1 DEF Comes, Frame
      <4>2. CASE i \in DOMAIN port
        BY <1>5, <4>1, <4>2 DEF Comes
      <4>3. CASE i = L
        BY <1>4, <1>5, <4>1, <4>3 DEF Frame
      <4> QED
        BY <1>5, <4>2, <4>3
    <3>2. ASSUME NEW k \in 1..Items, Comes(r, k) PROVE Comes(r, k)'
      BY <1>5, <3>2 DEF Comes, Frame
    <3>3. Comes(r, n)'
      <4>1. L \in DOMAIN port' /\ port'[L] = f
        BY <1>1, <1>5 DEF L
      <4> QED
        BY <4>1 DEF Comes, Frame, f
    <3>4. ASSUME NEW k \in 1..Items, k = n PROVE Comes(r, k)'
      BY <3>3, <3>4 DEF Comes, Frame
    <3> QED
      BY <3>1, <3>2, <3>4
  <2>3. \A k \in 1..Items : Len(heard[r]) < k /\ k <= n - 1 => Comes(r, k)
    BY <1>2, <1>3, <1>6, <2>1 DEF GapOK, Live
  <2>4. \A k \in 1..Items : Len(heard[r]) < k /\ k <= n => Comes(r, k)'
    BY <1>2, <2>2, <2>3
  <2>5. ASSUME NEW k \in 1..Items, Comes(r, k)'
        PROVE  /\ Len(heard[r]) < k
               /\ \A l \in 1..Items : Len(heard[r]) < l /\ l < k => Comes(r, l)'
    <3>1. CASE Comes(r, k)
      BY <1>6, <2>1, <2>2, <3>1 DEF GapOK
    <3>2. CASE k = n
      <4>1. Len(heard[r]) < n
        BY <1>1, <1>2, <1>3, <1>6 DEF HeardOK
      <4> QED
        BY <1>2, <2>4, <3>2, <4>1
    <3> QED
      BY <2>2, <2>5, <3>1, <3>2
  <2> QED
    BY <1>3, <2>4, <2>5 DEF GapOK
<1> QED
  BY <1>8, <1>9, <1>10, <1>11 DEF StreamOK

\* end() posts the end behind the items.
LEMMA EndPostsStep ==
  ASSUME TypeOK, TypeOK', ItemInv, NEW r \in Requests, StreamOK(r),
         producer[r] = "ending", producer'[r] = "erasing", running, ~disposed,
         port' = Append(port, Frame("end", r, 0)),
         UNCHANGED <<sink, added, heard, listener, streams>>
  PROVE  StreamOK(r)'
<1> DEFINE f == Frame("end", r, 0)
           L == Len(port) + 1
<1>1. /\ port \in Seq(Frames) /\ Len(port) \in Nat /\ DOMAIN port = 1..Len(port)
      /\ Items \in Nat
  BY StreamTypes
<1>2. Posted(r)' = Posted(r)
  BY DEF Posted
<1>3. f \in Frames /\ f.req = r /\ f.type = "end"
  BY <1>1 DEF Frames, Frame
<1>4. /\ DOMAIN port' = 1..L /\ port'[L] = f
      /\ \A i \in DOMAIN port : i \in DOMAIN port' /\ i < L /\ port'[i] = port[i]
      /\ \A i \in DOMAIN port' : i \in DOMAIN port \/ i = L
  BY <1>1, <1>3
<1> HIDE DEF f, L
<1>5. OrderOK(r) /\ GapOK(r) /\ HeardOK(r) /\ SinkOK(r)
  BY DEF StreamOK
<1>6. sink[r] = "closed"
  BY <1>5 DEF SinkOK
<1>7. SinkOK(r)'
  BY <1>6 DEF SinkOK
<1>8. OrderOK(r)'
  <2>1. ASSUME NEW i \in DOMAIN port', port'[i].req = r, port'[i].type = "data"
        PROVE  i \in DOMAIN port /\ port'[i] = port[i]
    BY <1>3, <1>4, <2>1
  <2>2. ASSUME NEW i \in DOMAIN port', NEW j \in DOMAIN port', i < j,
               port'[i].req = r, port'[j].req = r, port'[j].type = "data"
        PROVE  /\ port'[i].type # "end"
               /\ port'[i].type = "data" => port'[i].item < port'[j].item
    <3>1. j \in DOMAIN port /\ port'[j] = port[j]
      BY <2>1, <2>2
    <3>2. i \in DOMAIN port /\ port'[i] = port[i]
      BY <1>1, <1>4, <2>2, <3>1 DEF L
    <3> QED
      BY <1>5, <2>2, <3>1, <3>2 DEF OrderOK
  <2> QED
    BY <1>2, <1>5, <1>6, <2>1, <2>2 DEF OrderOK, Posted
<1>9. HeardOK(r)'
  <2>1. producer'[r] # "adding"
    OBVIOUS
  <2> QED
    BY <1>2, <1>5, <2>1 DEF HeardOK
<1>10. GapOK(r)'
  <2>1. \A k \in 1..Items : Comes(r, k)' <=> Comes(r, k)
    <3>1. ASSUME NEW k \in 1..Items, Comes(r, k)' PROVE Comes(r, k)
      <4>1. PICK i \in DOMAIN port' : port'[i] = Frame("data", r, k)
        BY <3>1 DEF Comes, Frame
      <4>2. i \in DOMAIN port
        BY <1>3, <1>4, <4>1 DEF Frame
      <4> QED
        BY <1>4, <4>1, <4>2 DEF Comes
    <3>2. ASSUME NEW k \in 1..Items, Comes(r, k) PROVE Comes(r, k)'
      BY <1>4, <3>2 DEF Comes, Frame
    <3> QED
      BY <3>1, <3>2
  <2>2. Live(r)
    BY DEF Live
  <2> QED
    BY <1>2, <1>5, <2>1, <2>2 DEF GapOK
<1> QED
  BY <1>7, <1>8, <1>9, <1>10 DEF StreamOK

\* A stream that is opened has nothing on its way.
LEMMA InvokeStep ==
  ASSUME TypeOK, ItemInv, SinkInv, NEW r \in Requests, StreamOK(r), Invoke(r)
  PROVE  StreamOK(r)'
<1>1. /\ UNCHANGED <<port, heard, sink, producer, added>> /\ request[r] = "new"
      /\ listener'[r] \in {listener[r], "listening"}
  BY DEF Invoke, sinkVars, TypeOK
<1>2. sink[r] = "none"
  BY <1>1 DEF SinkInv
<1>3. /\ producer[r] = "idle" /\ added[r] = 0 /\ heard[r] = <<>> /\ listener[r] # "ended"
      /\ \A i \in DOMAIN port : port[i].req = r => port[i].type \notin {"data", "end"}
  BY <1>2 DEF StreamOK, SinkOK, HeardOK
<1>4. SinkOK(r)' /\ OrderOK(r)'
  BY <1>1, <1>2, <1>3 DEF SinkOK, OrderOK
<1>5. HeardOK(r)'
  <2>1. Len(heard[r]) <= Posted(r) /\ Posted(r)' = Posted(r)
    BY <1>1 DEF StreamOK, HeardOK, Posted
  <2> QED
    BY <1>1, <1>3, <2>1 DEF HeardOK, StreamOK
<1>6. GapOK(r)'
  <2>1. \A k : ~Comes(r, k)'
    BY <1>1, <1>3 DEF Comes, Frame
  <2>2. Posted(r)' = 0
    BY <1>1, <1>3 DEF Posted
  <2> QED
    BY <2>1, <2>2, ItemsAssumption DEF GapOK
<1> QED
  BY <1>4, <1>5, <1>6 DEF StreamOK

\* A step that leaves the sink of r and what was heard of it alone is calm.
LEMMA AloneIsCalm ==
  ASSUME TypeOK, NEW r \in Requests, StreamOK(r),
         heard'[r] = heard[r], sink'[r] = sink[r], producer'[r] = producer[r],
         added'[r] = added[r], r \in streams' => r \in streams,
         running' => running, disposed => disposed',
         listener'[r] = "ended" => listener[r] = "ended"
  PROVE  Calm(r)
<1>1. Posted(r)' = Posted(r) /\ Posted(r) <= Posted(r)
  <2>1. added[r] \in 0..Items
    BY DEF TypeOK
  <2> QED
    BY <2>1, ItemsAssumption DEF Posted
<1>2. Live(r)' => Live(r)
  BY DEF Live
<1>3. sink[r] = "none" => producer[r] = "idle"
  BY DEF StreamOK, SinkOK
<1>4. producer[r] \in {"ending", "failing", "erasing"} => sink[r] = "closed"
  BY DEF StreamOK, SinkOK
<1> QED
  BY <1>1, <1>2, <1>3, <1>4 DEF Calm

\* What a step in the sink of r does to it is calm, unless it posts.
LEMMA SinkIsCalm ==
  ASSUME TypeOK, ItemInv, NEW r \in Requests, StreamOK(r),
         UNCHANGED <<heard, listener, streams, running, disposed>>,
         \/ DispatchStarts(r) /\ sink[r] = "none"
         \/ AddRefused(r) \/ AddLooks(r) \/ AddFails(r) \/ EndLooks(r) \/ EndErases(r)
         \/ (AddPosts(r) \/ EndPosts(r)) /\ ~Live(r)
  PROVE  Calm(r)
<1>1. added[r] \in 0..Items /\ (producer[r] = "adding" => added[r] \in 1..Items /\ sink[r] = "open")
  BY DEF TypeOK, ItemInv
<1>2. /\ sink[r] = "none" => producer[r] = "idle" /\ added[r] = 0
      /\ producer[r] \in {"ending", "failing", "erasing"} => sink[r] = "closed"
  BY DEF StreamOK, SinkOK
<1>3. /\ sink \in [Requests -> {"none", "open", "closed"}]
      /\ producer \in [Requests -> {"idle", "adding", "ending", "failing", "erasing"}]
      /\ added \in [Requests -> 0..Items]
  BY DEF TypeOK
<1>4. CASE DispatchStarts(r) /\ sink[r] = "none"
  <2>1. producer' = producer /\ added' = added /\ sink'[r] \in {"none", "open"}
    BY <1>3, <1>4 DEF DispatchStarts
  <2>2. Posted(r)' = Posted(r) /\ (Posted(r) <= Posted(r)) /\ (Live(r)' => Live(r))
    BY <1>1, <1>2, <1>4, <2>1, ItemsAssumption DEF Posted, Live
  <2> QED
    BY <1>2, <1>4, <2>1, <2>2 DEF Calm
<1>5. CASE AddRefused(r)
  <2>1. producer' = producer /\ added' = added /\ sink'[r] = "closed" /\ sink[r] = "open" /\ producer[r] = "idle"
    BY <1>3, <1>5 DEF AddRefused, SinkFree
  <2>2. Posted(r)' = Posted(r) /\ (Posted(r) <= Posted(r)) /\ (Live(r)' => Live(r))
    BY <1>1, <2>1, ItemsAssumption DEF Posted, Live
  <2> QED
    BY <2>1, <2>2 DEF Calm
<1>6. CASE AddLooks(r)
  <2>1. /\ sink' = sink /\ sink[r] = "open" /\ producer[r] = "idle" /\ producer'[r] = "adding"
        /\ added'[r] = added[r] + 1
    BY <1>3, <1>6 DEF AddLooks, SinkFree
  <2>2. Posted(r)' = Posted(r) /\ (Posted(r) <= Posted(r)) /\ (Live(r)' => Live(r))
    BY <1>1, <2>1, ItemsAssumption DEF Posted, Live
  <2> QED
    BY <2>1, <2>2 DEF Calm
<1>7. CASE AddFails(r)
  <2>1. /\ added' = added /\ sink[r] = "open" /\ sink'[r] = "closed" /\ producer[r] = "adding"
        /\ producer'[r] \in {"idle", "failing"}
    BY <1>1, <1>3, <1>7 DEF AddFails
  <2>2. Posted(r) <= Posted(r)' /\ ~Live(r)'
    BY <1>1, <2>1, ItemsAssumption DEF Posted, Live
  <2> QED
    BY <2>1, <2>2 DEF Calm
<1>8. CASE EndLooks(r)
  <2>1. /\ added' = added /\ sink[r] = "open" /\ sink'[r] = "closed" /\ producer[r] = "idle"
        /\ producer'[r] \in {"idle", "ending", "failing"}
    BY <1>3, <1>8 DEF EndLooks, SinkFree
  <2>2. Posted(r)' = Posted(r) /\ (Posted(r) <= Posted(r)) /\ (Live(r)' => Live(r))
    BY <1>1, <2>1, ItemsAssumption DEF Posted, Live
  <2> QED
    BY <2>1, <2>2 DEF Calm
<1>9. CASE EndErases(r)
  <2>1. /\ added' = added /\ sink' = sink /\ sink[r] = "closed" /\ producer[r] = "erasing"
        /\ producer'[r] = "idle"
    BY <1>2, <1>3, <1>9 DEF EndErases
  <2>2. Posted(r)' = Posted(r) /\ (Posted(r) <= Posted(r)) /\ ~Live(r)'
    BY <1>1, <2>1, ItemsAssumption DEF Posted, Live
  <2> QED
    BY <2>1, <2>2 DEF Calm
<1>10. CASE AddPosts(r) /\ ~Live(r)
  <2>1. /\ added' = added /\ sink' = sink /\ sink[r] = "open" /\ producer[r] = "adding"
        /\ producer'[r] = "idle"
    BY <1>1, <1>3, <1>10 DEF AddPosts
  <2>2. Posted(r) <= Posted(r)' /\ ~Live(r)'
    BY <1>1, <1>10, <2>1, ItemsAssumption DEF Posted, Live
  <2> QED
    BY <2>1, <2>2 DEF Calm
<1>11. CASE EndPosts(r)
  <2>1. /\ added' = added /\ sink' = sink /\ sink[r] = "closed" /\ producer[r] \in {"ending", "failing"}
        /\ producer'[r] = "erasing"
    BY <1>2, <1>3, <1>11 DEF EndPosts
  <2>2. Posted(r)' = Posted(r) /\ (Posted(r) <= Posted(r)) /\ ~Live(r)'
    BY <1>1, <2>1, ItemsAssumption DEF Posted, Live
  <2> QED
    BY <2>1, <2>2 DEF Calm
<1> QED
  BY <1>4, <1>5, <1>6, <1>7, <1>8, <1>9, <1>10, <1>11

\* A frame that is no item and no end of r leaves the others of r alone.
LEMMA PostIsNeutral ==
  ASSUME TypeOK, NEW r \in Requests, NEW f \in Frames, Post(f),
         f.req # r \/ f.type \notin {"data", "end"}
  PROVE  Neutral(r)
<1>1. port \in Seq(Frames)
  BY DEF TypeOK, Frames
<1> QED
  BY <1>1, PostProperties DEF Neutral

\* Every step in a sink or in the io thread keeps the streams in order.
LEMMA NativeStep ==
  ASSUME IInv, IInv', StreamInv, NEW q \in Requests,
         IoStep(q) \/ SinkStep(q) \/ AddRefused(q) \/ AddLooks(q) \/ EndLooks(q)
  PROVE  \A r \in Requests : StreamOK(r)'
<1>1. TypeOK /\ TypeOK' /\ ItemInv /\ ItemInv' /\ SinkInv
  BY DEF IInv
<1>2. /\ sink \in [Requests -> {"none", "open", "closed"}]
      /\ producer \in [Requests -> {"idle", "adding", "ending", "failing", "erasing"}]
      /\ added \in [Requests -> 0..Items] /\ Items \in Nat
  BY <1>1, ItemsAssumption DEF TypeOK
<1>3. /\ UNCHANGED <<heard, listener, streams, running, disposed, bridge>>
      /\ \A r \in Requests : r # q =>
           sink'[r] = sink[r] /\ producer'[r] = producer[r] /\ added'[r] = added[r]
  <2>1. CASE IoStep(q)
    BY <1>2, <2>1 DEF IoStep, Dispatch, DispatchDropped, DispatchStarts, DispatchFails,
       DispatchLocksTwice, ReplyLooks, ReplyPosts, dartVars, sessionVars, runtimeVars, sinkVars
  <2>2. CASE SinkStep(q)
    BY <1>2, <2>2 DEF SinkStep, AddPosts, AddFails, EndPosts, EndErases, dartVars, sessionVars,
       runtimeVars
  <2>3. CASE AddRefused(q) \/ AddLooks(q) \/ EndLooks(q)
    BY <1>2, <2>3 DEF AddRefused, AddLooks, EndLooks, dartVars, sessionVars, runtimeVars
  <2> QED
    BY <2>1, <2>2, <2>3
<1>4. ASSUME UNCHANGED sinkVars PROVE Calm(q)
  BY <1>1, <1>3, <1>4, AloneIsCalm DEF StreamInv, sinkVars
<1>5. \A r \in Requests : r # q => Calm(r)
  BY <1>1, <1>3, AloneIsCalm DEF StreamInv
<1>6. ASSUME NEW r \in Requests, Calm(r), Neutral(r) PROVE StreamOK(r)'
  BY <1>1, <1>6, NeutralStep DEF StreamInv
<1>7. ASSUME UNCHANGED port PROVE \A r \in Requests : Neutral(r)
  BY <1>7 DEF Neutral
<1>8. CASE DispatchDropped(q) \/ DispatchLocksTwice(q) \/ ReplyLooks(q)
  <2>1. UNCHANGED port /\ UNCHANGED sinkVars
    BY <1>8 DEF DispatchDropped, DispatchLocksTwice, ReplyLooks
  <2> QED
    BY <1>4, <1>5, <1>6, <1>7, <2>1
<1>9. CASE DispatchFails(q) \/ ReplyPosts(q)
  <2>1. UNCHANGED sinkVars /\ \E f \in Frames : f.type \in {"ok", "err"} /\ Post(f)
    <3>1. \A type \in {"ok", "err"} : Frame(type, q, 0) \in Frames
                                       /\ Frame(type, q, 0).type \in {"ok", "err"}
      BY <1>2 DEF Frame, Frames
    <3> QED
      BY <1>9, <3>1 DEF DispatchFails, ReplyPosts
  <2>2. \A r \in Requests : Neutral(r)
    BY <1>1, <2>1, PostIsNeutral
  <2> QED
    BY <1>4, <1>5, <1>6, <2>1, <2>2
<1>10. CASE DispatchStarts(q)
  <2>1. UNCHANGED port /\ request[q] = "queued"
    BY <1>10 DEF DispatchStarts
  <2>2. sink[q] = "none"
    BY <1>1, <2>1 DEF SinkInv
  <2>3. Calm(q)
    BY <1>1, <1>3, <1>10, <2>2, SinkIsCalm DEF StreamInv
  <2> QED
    BY <1>5, <1>6, <1>7, <2>1, <2>3
<1>11. CASE AddFails(q) \/ EndErases(q) \/ AddRefused(q) \/ AddLooks(q) \/ EndLooks(q)
  <2>1. UNCHANGED port
    BY <1>11 DEF AddFails, EndErases, AddRefused, AddLooks, EndLooks
  <2>2. Calm(q)
    BY <1>1, <1>3, <1>11, SinkIsCalm DEF StreamInv
  <2> QED
    BY <1>5, <1>6, <1>7, <2>1, <2>2
<1>12. CASE AddPosts(q)
  <2> DEFINE f == Frame("data", q, added[q])
  <2>1. f \in Frames /\ f.req = q /\ f.type = "data"
    BY <1>2 DEF Frame, Frames
  <2>2. ASSUME NEW r \in Requests, r # q PROVE StreamOK(r)'
    <3>1. UNCHANGED port \/ Post(f)
      BY <1>12 DEF AddPosts
    <3>2. Neutral(r)
      BY <1>1, <1>7, <2>1, <2>2, <3>1, PostIsNeutral
    <3> QED
      BY <1>5, <1>6, <2>2, <3>2
  <2>3. CASE running /\ bridge # "closed" /\ ~disposed
    <3>1. /\ producer[q] = "adding" /\ producer'[q] = "idle" /\ sink' = sink /\ added' = added
          /\ port' = Append(port, f)
      BY <1>2, <1>12, <2>3 DEF AddPosts, Post
    <3>2. StreamOK(q)'
      BY <1>1, <1>3, <2>3, <3>1, AddPostsStep DEF StreamInv
    <3> QED
      BY <2>2, <3>2
  <2>4. CASE ~running \/ disposed
    <3>1. UNCHANGED port
      BY <1>12, <2>4 DEF AddPosts, Post
    <3>2. ~Live(q)
      BY <2>4 DEF Live
    <3>3. Calm(q)
      BY <1>1, <1>3, <1>12, <3>2, SinkIsCalm DEF StreamInv
    <3> QED
      BY <1>6, <1>7, <2>2, <3>1, <3>3
  <2>5. CASE bridge = "closed"
    <3>1. port' = port /\ streams = {}
      BY <1>12, <2>5 DEF AddPosts, Post, StreamInv
    <3>2. /\ sink' = sink /\ added' = added /\ producer[q] = "adding" /\ producer'[q] = "idle"
          /\ sink[q] = "open" /\ added[q] \in 1..Items
      BY <1>1, <1>2, <1>12 DEF AddPosts, ItemInv
    <3>3. Posted(q) <= Posted(q)'
      BY <1>2, <3>2 DEF Posted
    <3>4. Calm(q)
      BY <1>3, <3>1, <3>2, <3>3 DEF Calm
    <3> QED
      BY <1>6, <1>7, <2>2, <3>1, <3>4
  <2> QED
    BY <2>3, <2>4, <2>5
<1>13. CASE EndPosts(q)
  <2> DEFINE f == Frame(IF producer[q] = "ending" THEN "end" ELSE "streamErr", q, 0)
  <2>1. f \in Frames /\ f.req = q
    BY <1>2 DEF Frame, Frames
  <2>2. UNCHANGED port \/ Post(f)
    BY <1>13 DEF EndPosts
  <2>3. ASSUME NEW r \in Requests, r # q PROVE StreamOK(r)'
    <3>1. Neutral(r)
      BY <1>1, <1>7, <2>1, <2>2, <2>3, PostIsNeutral
    <3> QED
      BY <1>5, <1>6, <2>3, <3>1
  <2>4. CASE producer[q] = "ending" /\ running /\ bridge # "closed" /\ ~disposed
    <3>1. /\ producer'[q] = "erasing" /\ sink' = sink /\ added' = added
          /\ port' = Append(port, Frame("end", q, 0))
      BY <1>2, <1>13, <2>4 DEF EndPosts, Post
    <3>2. StreamOK(q)'
      BY <1>1, <1>3, <2>4, <3>1, EndPostsStep DEF StreamInv
    <3> QED
      BY <2>3, <3>2
  <2>5. CASE ~(producer[q] = "ending" /\ running /\ bridge # "closed" /\ ~disposed)
    <3>1. Neutral(q)
      <4>1. CASE UNCHANGED port
        BY <1>7, <4>1
      <4>2. CASE producer[q] # "ending"
        <5>1. f.type = "streamErr"
          BY <4>2 DEF Frame
        <5> QED
          BY <1>1, <1>7, <2>1, <2>2, <5>1, PostIsNeutral
      <4>3. CASE ~running \/ bridge = "closed" \/ disposed
        <5>1. UNCHANGED port
          BY <1>13, <4>3 DEF EndPosts, Post
        <5> QED
          BY <1>7, <5>1
      <4> QED
        BY <2>5, <4>2, <4>3
    <3>2. Calm(q)
      <4>1. /\ added' = added /\ sink' = sink /\ producer[q] \in {"ending", "failing"}
            /\ producer'[q] = "erasing"
        BY <1>2, <1>13 DEF EndPosts
      <4>2. sink[q] = "closed"
        BY <4>1 DEF StreamInv, StreamOK, SinkOK
      <4>3. Posted(q)' = Posted(q) /\ (Posted(q) <= Posted(q)) /\ ~Live(q)'
        BY <1>2, <4>1, <4>2 DEF Posted, Live
      <4> QED
        BY <1>3, <4>1, <4>2, <4>3 DEF Calm
    <3> QED
      BY <1>6, <2>3, <3>1, <3>2
  <2> QED
    BY <2>4, <2>5
<1> QED
  BY <1>8, <1>9, <1>10, <1>11, <1>12, <1>13 DEF IoStep, Dispatch, SinkStep

\* What the isolate does with a frame keeps the streams in order.
LEMMA MessageStep ==
  ASSUME IInv, IInv', StreamInv, OnMessage
  PROVE  \A r \in Requests : StreamOK(r)'
<1> DEFINE f == Head(port)
<1>1. TypeOK /\ TypeOK' /\ ItemInv /\ ItemInv'
  BY DEF IInv
<1>2. /\ port # <<>> /\ port' = Tail(port) /\ UNCHANGED sinkVars
      /\ UNCHANGED <<running, disposed>>
      /\ OnOk(f) \/ OnErr(f) \/ OnData(f) \/ OnMalformed(f) \/ OnEnd(f)
  <2>1. port # <<>> /\ port' = Tail(port) /\ UNCHANGED sinkVars
    BY DEF OnMessage
  <2>2. UNCHANGED <<running, disposed>>
    <3>1. UNCHANGED sessionVars
      BY DEF OnMessage
    <3>2. UNCHANGED running
      BY DEF OnMessage, runtimeVars
    <3> QED
      BY <3>1, <3>2 DEF sessionVars
  <2>3. OnOk(f) \/ OnErr(f) \/ OnData(f) \/ OnMalformed(f) \/ OnEnd(f)
    BY DEF OnMessage
  <2> QED
    BY <2>1, <2>2, <2>3
<1>3. f \in Frames /\ f = port[1] /\ 1 \in DOMAIN port /\ DOMAIN port \subseteq Int /\ f.req \in Requests
  <2>1. port \in Seq(Frames)
    BY <1>1 DEF TypeOK, Frames
  <2> QED
    <3>1. f \in Frames /\ f = port[1]
      BY <1>2, <2>1, TailProperties
    <3>2. 1 \in DOMAIN port /\ DOMAIN port \subseteq Int
      BY <1>2, <2>1
    <3> HIDE DEF f
    <3>3. f.req \in Requests
      BY <3>1 DEF Frames
    <3> QED
      BY <3>1, <3>2, <3>3
<1> HIDE DEF f
<1>4. /\ heard \in [Requests -> Seq(1..Items)]
      /\ listener \in [Requests -> {"none", "listening", "cancelled", "ended", "failed", "closed"}]
  BY <1>1 DEF TypeOK
<1>5. SUFFICES ASSUME NEW r \in Requests PROVE StreamOK(r)'
  OBVIOUS
<1>6. StreamOK(r) /\ r \in Requests
  BY <1>5 DEF StreamInv
<1>7. CASE OnData(f) /\ f.req = r /\ r \in streams
  <2>1. heard'[r] = Append(heard[r], f.item) /\ UNCHANGED <<listener, streams>>
    BY <1>4, <1>6, <1>7 DEF OnData
  <2>2. f.type = "data"
    BY <1>7 DEF OnData
  <2> QED
    BY <1>1, <1>2, <1>6, <1>7, <2>1, <2>2, HearStep DEF f, sinkVars
<1>8. CASE ~(OnData(f) /\ f.req = r /\ r \in streams)
  <2>1. heard'[r] = heard[r]
    BY <1>2, <1>3, <1>4, <1>6, <1>8 DEF OnOk, OnErr, OnData, OnMalformed, OnEnd
  <2>2. r \in streams' => r \in streams
    BY <1>2 DEF OnOk, OnErr, OnData, OnMalformed, OnEnd, EndsStream
  <2>3. r \in streams' => f.req # r \/ f.type \notin {"data", "end"}
    BY <1>2, <1>8, <2>2 DEF OnOk, OnErr, OnData, OnMalformed, OnEnd, EndsStream
  <2>4. ASSUME listener'[r] = "ended", listener[r] # "ended"
        PROVE  /\ r \notin streams' /\ Len(heard[r]) = added[r]
               /\ sink[r] = "closed" /\ producer[r] # "adding"
    <3>1. f.type = "end" /\ f.req = r /\ r \in streams /\ r \notin streams'
      <4>1. listener' # listener
        BY <2>4
      <4>2. CASE OnOk(f) \/ OnData(f)
        BY <4>1, <4>2 DEF OnOk, OnData
      <4>3. CASE OnErr(f) \/ OnMalformed(f)
        BY <1>3, <1>4, <1>6, <2>4, <4>3 DEF OnErr, OnMalformed, EndsStream
      <4>4. CASE OnEnd(f)
        BY <1>3, <1>4, <1>6, <2>4, <4>4 DEF OnEnd, EndsStream
      <4> QED
        BY <1>2, <4>2, <4>3, <4>4
    <3>2. sink[r] = "closed" /\ producer[r] \in {"erasing", "idle"} /\ EndComes(r)
      BY <1>3, <1>6, <3>1 DEF StreamOK, OrderOK, EndComes
    <3>3. Posted(r) = added[r] /\ added[r] \in 0..Items /\ Len(heard[r]) \in Nat /\ Items \in Nat
      BY <1>1, <1>6, <3>2, StreamTypes DEF Posted
    <3>4. Len(heard[r]) <= added[r]
      BY <1>6, <3>3 DEF StreamOK, HeardOK
    <3>5. ASSUME Len(heard[r]) < added[r] PROVE FALSE
      <4>1. added[r] \in 1..Items /\ Len(heard[r]) < added[r] /\ added[r] <= Posted(r)
        BY <3>3, <3>5
      <4>2. Comes(r, added[r])
        BY <1>6, <3>1, <3>2, <4>1 DEF StreamOK, GapOK
      <4>3. PICK j \in DOMAIN port : port[j].type = "data" /\ port[j].req = r
        BY <4>2 DEF Comes, Frame
      <4>4. 1 < j
        <5>1. j # 1
          BY <1>3, <3>1, <4>3
        <5>2. DOMAIN port = 1..Len(port) /\ Len(port) \in Nat
          BY <1>1, <1>6, StreamTypes
        <5> QED
          BY <5>1, <5>2
      <4> QED
        BY <1>3, <1>6, <3>1, <4>3, <4>4 DEF StreamOK, OrderOK
    <3> QED
      BY <3>1, <3>2, <3>3, <3>4, <3>5
  <2>5. Calm(r)
    <3>1. /\ sink' = sink /\ producer' = producer /\ added' = added
          /\ running' = running /\ disposed' = disposed
      BY <1>2 DEF sinkVars
    <3>2. Posted(r)' = Posted(r) /\ (Posted(r) <= Posted(r)) /\ (Live(r)' => Live(r))
      <4>1. Posted(r) \in 0..Items /\ Items \in Nat
        BY <1>1, <1>6, StreamTypes
      <4> QED
        BY <3>1, <4>1 DEF Posted, Live
    <3>3. /\ sink[r] = "none" => producer[r] = "idle"
          /\ producer[r] \in {"ending", "failing", "erasing"} => sink[r] = "closed"
      BY <1>6 DEF StreamOK, SinkOK
    <3> QED
      BY <2>1, <2>2, <2>4, <3>1, <3>2, <3>3 DEF Calm
  <2> QED
    BY <1>1, <1>2, <1>6, <2>3, <2>5, ShiftStep DEF f
<1> QED
  BY <1>7, <1>8

\* Every other step of the isolate, and every step of a shutdown, too.
LEMMA IsolateStep ==
  ASSUME IInv, IInv', StreamInv,
         \/ \E q \in Requests : Invoke(q) \/ Cancel(q)
         \/ DartDisposes \/ DartCloses \/ ShutBegins \/ ShutStep \/ UNCHANGED vars
  PROVE  \A r \in Requests : StreamOK(r)'
<1>1. TypeOK /\ TypeOK' /\ ItemInv /\ ItemInv' /\ SinkInv
  BY DEF IInv
<1>2. /\ listener \in [Requests -> {"none", "listening", "cancelled", "ended", "failed", "closed"}]
      /\ streams \subseteq Requests
  BY <1>1 DEF TypeOK
<1>3. UNCHANGED <<heard, sink, producer, added>>
  BY DEF Invoke, Cancel, DartDisposes, DartCloses, ShutBegins, ShutStep, ShutDisposes, ShutStops,
     vars, dartVars, sinkVars
<1>4. (running' => running) /\ (disposed => disposed')
  BY DEF Invoke, Cancel, DartDisposes, DartCloses, ShutBegins, ShutStep, ShutDisposes, ShutStops,
     vars, sessionVars, runtimeVars
<1>5. ASSUME NEW r \in Requests, r \in streams' => r \in streams,
             listener'[r] = "ended" => listener[r] = "ended"
      PROVE  Calm(r)
  BY <1>1, <1>3, <1>4, <1>5, AloneIsCalm DEF StreamInv
<1>6. ASSUME NEW r \in Requests, Calm(r), port' = port \/ (port' = <<>> /\ r \notin streams')
      PROVE  StreamOK(r)'
  <2>1. CASE port' = port
    <3>1. Neutral(r)
      BY <2>1 DEF Neutral
    <3> QED
      BY <1>1, <1>6, <3>1, NeutralStep DEF StreamInv
  <2>2. CASE port' = <<>> /\ r \notin streams'
    BY <1>1, <1>6, <2>2, ClearStep DEF StreamInv
  <2> QED
    BY <1>6, <2>1, <2>2
<1>7. SUFFICES ASSUME NEW r \in Requests PROVE StreamOK(r)'
  OBVIOUS
<1>8. ASSUME NEW q \in Requests, Invoke(q) PROVE StreamOK(r)'
  <2>1. CASE q = r
    BY <1>1, <1>7, <1>8, <2>1, InvokeStep DEF StreamInv
  <2>2. CASE q # r
    <3>1. port' = port /\ (r \in streams' => r \in streams) /\ listener'[r] = listener[r]
      BY <1>2, <1>7, <1>8, <2>2 DEF Invoke
    <3> QED
      BY <1>5, <1>6, <1>7, <3>1
  <2> QED
    BY <2>1, <2>2
<1>9. ASSUME NEW q \in Requests, Cancel(q) PROVE StreamOK(r)'
  <2>1. /\ port' = port /\ (r \in streams' => r \in streams)
        /\ listener'[r] = "ended" => listener[r] = "ended"
    BY <1>2, <1>7, <1>9 DEF Cancel
  <2> QED
    BY <1>5, <1>6, <1>7, <2>1
<1>10. CASE DartDisposes
  <2>1. /\ port' = port \/ port' = <<>>
        /\ r \notin streams'
        /\ listener'[r] = "ended" => listener[r] = "ended"
    BY <1>2, <1>7, <1>10 DEF DartDisposes
  <2> QED
    BY <1>5, <1>6, <1>7, <2>1
<1>11. CASE DartCloses
  <2>1. port' = <<>> /\ r \notin streams' /\ listener' = listener
    BY <1>11 DEF DartCloses, StreamInv
  <2> QED
    BY <1>5, <1>6, <1>7, <2>1
<1>12. CASE ShutBegins \/ ShutStep \/ UNCHANGED vars
  <2>1. UNCHANGED <<port, streams, listener>>
    BY <1>12 DEF ShutBegins, ShutStep, ShutDisposes, ShutStops, vars, dartVars
  <2> QED
    BY <1>5, <1>6, <1>7, <2>1
<1> QED
  BY <1>8, <1>9, <1>10, <1>11, <1>12

\* Every step keeps the streams in order, and no stream outlives the bridge.
LEMMA StepStreamInv == IInv /\ IInv' /\ StreamInv /\ [Next]_vars => StreamInv'
<1> SUFFICES ASSUME IInv, IInv', StreamInv, [Next]_vars PROVE StreamInv'
  OBVIOUS
<1>1. streams' # {} => bridge' = "open"
  <2>1. streams # {} => bridge = "open"
    BY DEF StreamInv
  <2>2. CASE \E r \in Requests : Invoke(r) \/ Cancel(r)
    BY <2>1, <2>2 DEF Invoke, Cancel
  <2>3. CASE \E r \in Requests : IoStep(r)
    BY <2>1, <2>3 DEF IoStep, Dispatch, DispatchDropped, DispatchStarts, DispatchFails,
       DispatchLocksTwice, ReplyLooks, ReplyPosts, dartVars
  <2>4. CASE \E r \in Requests : SinkStep(r) \/ AddRefused(r) \/ AddLooks(r) \/ EndLooks(r)
    BY <2>1, <2>4 DEF SinkStep, AddPosts, AddFails, EndPosts, EndErases, AddRefused, AddLooks,
       EndLooks, dartVars
  <2>5. CASE DartDisposes \/ DartCloses
    BY <2>1, <2>5 DEF DartDisposes, DartCloses
  <2>6. CASE OnMessage
    BY <2>6 DEF OnMessage
  <2>7. CASE ShutBegins \/ ShutStep \/ UNCHANGED vars
    BY <2>1, <2>7 DEF ShutBegins, ShutStep, ShutDisposes, ShutStops, dartVars, vars
  <2> QED
    BY <2>2, <2>3, <2>4, <2>5, <2>6, <2>7 DEF Next
<1>2. \A r \in Requests : StreamOK(r)'
  <2>1. CASE \E q \in Requests :
               IoStep(q) \/ SinkStep(q) \/ AddRefused(q) \/ AddLooks(q) \/ EndLooks(q)
    BY <2>1, NativeStep
  <2>2. CASE \/ \E q \in Requests : Invoke(q) \/ Cancel(q)
             \/ DartDisposes \/ DartCloses \/ ShutBegins \/ ShutStep \/ UNCHANGED vars
    BY <2>2, IsolateStep
  <2>3. CASE OnMessage
    BY <2>3, MessageStep
  <2> QED
    BY <2>1, <2>2, <2>3 DEF Next
<1> QED
  BY <1>1, <1>2 DEF StreamInv

\* No stream, no items, no frames.
LEMMA InitStreamInv == Init => StreamInv
<1> SUFFICES ASSUME Init PROVE StreamInv
  OBVIOUS
<1>1. streams = {} /\ DOMAIN port = {}
  BY DEF Init
<1>2. ASSUME NEW r \in Requests PROVE StreamOK(r)
  <2>1. /\ sink[r] = "none" /\ producer[r] = "idle" /\ added[r] = 0 /\ heard[r] = <<>>
        /\ listener[r] = "none"
    BY DEF Init
  <2>2. Len(heard[r]) = 0 /\ heard[r] = [k \in 1..0 |-> k] /\ Posted(r) = 0
    BY <2>1 DEF Posted
  <2>3. HeardOK(r)
    BY <2>1, <2>2 DEF HeardOK
  <2>4. SinkOK(r) /\ OrderOK(r) /\ GapOK(r)
    BY <1>1, <2>1 DEF SinkOK, OrderOK, GapOK
  <2> QED
    BY <2>3, <2>4 DEF StreamOK
<1> QED
  BY <1>1, <1>2 DEF StreamInv

\* The frames of every stream say what its sink and its listener agree on.
THEOREM StreamInvariant == Spec => []StreamInv
<1>1. IInv /\ IInv' /\ StreamInv /\ [Next]_vars => StreamInv'
  BY StepStreamInv
<1> QED
  BY <1>1, InitStreamInv, InvocationInvariant, PTL DEF Spec

\* A listener hears the items in order, and an end only after all of them.
THEOREM ListenersHearEverything == Spec => []StreamsAreFaithful
<1>1. StreamInv => StreamsAreFaithful
  BY DEF StreamInv, StreamOK, HeardOK, StreamsAreFaithful
<1> QED
  BY <1>1, StreamInvariant, PTL
-----------------------------------------------------------------------------
(* At rest.                                                                *)

\* The caller's Future is open exactly as long as its Completer is registered,
\* and only methods with a stream that have been called have a controller.
FutureInv ==
  /\ \A r \in Requests : future[r] = "open" <=> r \in pending
  /\ \A r \in streams : HasStream(r) /\ request[r] # "new"

\* What closes the controller of r is in the port.
CloseComes(r) ==
  \E i \in DOMAIN port : port[i].req = r /\ port[i].type \in {"end", "streamErr", "err"}

\* As long as nobody shuts the runtime down, a controller that is registered
\* waits for its dispatch, has an open sink, or its end is on its way.
IsFed(r) ==
  \/ request[r] \in {"queued", "locking"}
  \/ sink[r] = "open" /\ r \in streamsOpen
  \/ producer[r] \in {"ending", "failing"}
  \/ CloseComes(r)
EndInv == shut = "no" => \A r \in streams : IsFed(r)

\* A dispatch that waits for its own mutex has stopped the io thread.
StuckInv == \A r \in Requests : request[r] = "locking" => stuck

\* The isolate has handled every frame, the io thread has nothing it can run,
\* no thread is inside a sink, and nobody inside dispose() or dcb_shutdown can
\* go on.
AtRest ==
  /\ bridge = "open" => port = <<>>
  /\ bridge = "closing" => stuck
  /\ shut = "disposing" => stuck
  /\ shut # "stopping"
  /\ \A r \in Requests : request[r] \in {"queued", "running"} => ~IoRuns
  /\ \A r \in Requests : request[r] # "replying"
  /\ \A r \in Requests : producer[r] = "idle"

\* If nobody shuts the runtime down and no dispatch registers with its own
\* session, then nobody is left waiting: ...
NobodyIsLeftWaiting ==
  AtRest /\ shut = "no" /\ ~stuck =>
    /\ \A r \in Requests : future[r] # "open"
    /\ \A r \in streams : sink[r] = "open" /\ r \in streamsOpen

\* A posted frame leaves what is in the port, and a last frame closes.
LEMMA PostCloses ==
  ASSUME TypeOK, NEW f \in Frames, Post(f)
  PROVE  /\ \A r \in Requests : CloseComes(r) => CloseComes(r)'
         /\ running /\ bridge # "closed" /\ f.type \in {"end", "streamErr", "err"} => CloseComes(f.req)'
<1>1. port \in Seq(Frames)
  BY DEF TypeOK, Frames
<1> QED
  BY <1>1, PostProperties DEF CloseComes

\* No step of a request takes its stream's feed away.
LEMMA FedByIo ==
  ASSUME IInv, StreamInv, FutureInv, shut = "no", NEW q \in Requests, IoStep(q),
         NEW r \in streams, IsFed(r)
  PROVE  IsFed(r)'
<1>1. r \in Requests /\ running /\ bridge = "open" /\ ~disposed /\ TypeOK
  BY DEF IInv, TypeOK, BridgeInv, StreamInv
<1>2. \A type \in {"ok", "err"} : Frame(type, q, 0) \in Frames
  BY ItemsAssumption DEF Frame, Frames
<1>3. CASE DispatchDropped(q)
  BY <1>1, <1>3 DEF DispatchDropped
<1>4. CASE DispatchStarts(q)
  <2>1. \A p \in Requests : p # q => request'[p] = request[p] /\ sink'[p] = sink[p]
    BY <1>1, <1>4 DEF DispatchStarts, TypeOK
  <2>2. UNCHANGED <<port, producer>> /\ streamsOpen \subseteq streamsOpen'
    BY <1>4 DEF DispatchStarts
  <2>3. CASE r = q
    BY <1>1, <1>4, <2>3 DEF DispatchStarts, FutureInv, IsFed, TypeOK
  <2>4. CASE r # q
    BY <1>1, <2>1, <2>2, <2>4 DEF IsFed, CloseComes
  <2> QED
    BY <2>3, <2>4
<1>5. CASE DispatchFails(q)
  <2>1. Post(Frame("err", q, 0)) /\ UNCHANGED <<sink, producer, streamsOpen>>
    BY <1>5 DEF DispatchFails, sessionVars, sinkVars
  <2>2. /\ \A p \in Requests : CloseComes(p) => CloseComes(p)'
        /\ CloseComes(q)'
    BY <1>1, <1>2, <2>1, PostCloses DEF Frame
  <2>3. \A p \in Requests : p # q => request'[p] = request[p]
    BY <1>1, <1>5 DEF DispatchFails, TypeOK
  <2> QED
    BY <1>1, <2>1, <2>2, <2>3 DEF IsFed
<1>6. CASE DispatchLocksTwice(q)
  <2>1. \A p \in Requests : request'[p] = "locking" \/ request'[p] = request[p]
    BY <1>1, <1>6 DEF DispatchLocksTwice, TypeOK
  <2>2. UNCHANGED <<port, producer, sink, streamsOpen>>
    BY <1>6 DEF DispatchLocksTwice, sinkVars
  <2> QED
    BY <1>1, <2>1, <2>2 DEF IsFed, CloseComes
<1>7. CASE ReplyLooks(q) \/ ReplyPosts(q)
  <2>1. \A p \in Requests : request[p] \in {"queued", "locking"} => request'[p] = request[p]
    BY <1>1, <1>7 DEF ReplyLooks, ReplyPosts, TypeOK
  <2>2. UNCHANGED <<producer, sink, streamsOpen>>
    BY <1>7 DEF ReplyLooks, ReplyPosts, sessionVars, sinkVars
  <2>3. CloseComes(r) => CloseComes(r)'
    <3>1. CASE ReplyLooks(q)
      BY <3>1 DEF ReplyLooks, CloseComes
    <3>2. CASE ReplyPosts(q)
      <4>1. PICK type \in {"ok", "err"} : Post(Frame(type, q, 0))
        BY <3>2 DEF ReplyPosts
      <4> QED
        BY <1>1, <1>2, <4>1, PostCloses
    <3> QED
      BY <1>7, <3>1, <3>2
  <2> QED
    BY <1>1, <2>1, <2>2, <2>3 DEF IsFed
<1> QED
  BY <1>3, <1>4, <1>5, <1>6, <1>7 DEF IoStep, Dispatch

\* Nor does a thread inside the sink: who closes it posts its end.
LEMMA FedBySink ==
  ASSUME IInv, StreamInv, shut = "no", NEW q \in Requests,
         SinkStep(q) \/ AddRefused(q) \/ AddLooks(q) \/ EndLooks(q),
         NEW r \in streams, IsFed(r)
  PROVE  IsFed(r)'
<1>1. r \in Requests /\ running /\ bridge = "open" /\ ~disposed /\ TypeOK
  BY DEF IInv, TypeOK, BridgeInv, StreamInv
<1>2. UNCHANGED request
  BY DEF SinkStep, AddPosts, AddFails, EndPosts, EndErases, AddRefused, AddLooks, EndLooks
<1>3. CASE AddRefused(q)
  <2>1. \A p \in Requests : p \in streamsOpen => sink'[p] = sink[p]
    BY <1>1, <1>3 DEF AddRefused, TypeOK
  <2>2. UNCHANGED <<port, producer, streamsOpen>>
    BY <1>3 DEF AddRefused, sessionVars
  <2> QED
    BY <1>1, <1>2, <2>1, <2>2 DEF IsFed, CloseComes
<1>4. CASE AddLooks(q)
  <2>1. \A p \in Requests : producer[p] # "idle" => producer'[p] = producer[p]
    BY <1>1, <1>4 DEF AddLooks, SinkFree, TypeOK
  <2>2. UNCHANGED <<port, sink, streamsOpen>>
    BY <1>4 DEF AddLooks, sessionVars
  <2> QED
    BY <1>1, <1>2, <2>1, <2>2 DEF IsFed, CloseComes
<1>5. CASE AddFails(q) \/ EndLooks(q)
  <2>1. /\ \A p \in Requests : p # q => producer'[p] = producer[p] /\ sink'[p] = sink[p]
        /\ producer'[q] \in {"ending", "failing"}
    BY <1>1, <1>5 DEF AddFails, EndLooks, SinkFree, TypeOK
  <2>2. UNCHANGED <<port, streamsOpen>>
    BY <1>5 DEF AddFails, EndLooks, sessionVars
  <2> QED
    BY <1>1, <1>2, <2>1, <2>2 DEF IsFed, CloseComes
<1>6. CASE AddPosts(q)
  <2>1. \A p \in Requests : producer[p] \in {"ending", "failing"} => producer'[p] = producer[p]
    BY <1>1, <1>6 DEF AddPosts, TypeOK
  <2>2. UNCHANGED <<sink, streamsOpen>>
    BY <1>6 DEF AddPosts, sessionVars
  <2>3. CloseComes(r) => CloseComes(r)'
    <3>1. Frame("data", q, added[q]) \in Frames /\ Post(Frame("data", q, added[q]))
      BY <1>1, <1>6 DEF AddPosts, Frame, Frames, TypeOK
    <3> QED
      BY <1>1, <3>1, PostCloses
  <2> QED
    BY <1>1, <1>2, <2>1, <2>2, <2>3 DEF IsFed
<1>7. CASE EndPosts(q)
  <2>1. /\ \A p \in Requests : p # q => producer'[p] = producer[p]
        /\ UNCHANGED <<sink, streamsOpen>>
    BY <1>1, <1>7 DEF EndPosts, TypeOK, sessionVars
  <2>2. PICK type \in {"end", "streamErr"} : Post(Frame(type, q, 0))
    BY <1>1, <1>7 DEF EndPosts
  <2>3. Frame(type, q, 0) \in Frames
    BY ItemsAssumption DEF Frame, Frames
  <2>4. /\ \A p \in Requests : CloseComes(p) => CloseComes(p)'
        /\ CloseComes(q)'
    BY <1>1, <2>2, <2>3, PostCloses DEF Frame
  <2> QED
    BY <1>1, <1>2, <2>1, <2>4 DEF IsFed
<1>8. CASE EndErases(q)
  <2>1. /\ \A p \in Requests : p # q => producer'[p] = producer[p]
        /\ \A p \in streamsOpen : p # q => p \in streamsOpen'
        /\ UNCHANGED <<port, sink>>
    BY <1>1, <1>8 DEF EndErases, TypeOK
  <2>2. producer[q] = "erasing" /\ sink[q] = "closed"
    BY <1>8 DEF EndErases, StreamInv, StreamOK, SinkOK
  <2> QED
    BY <1>1, <1>2, <2>1, <2>2 DEF IsFed, CloseComes
<1> QED
  BY <1>3, <1>4, <1>5, <1>6, <1>7, <1>8 DEF SinkStep

\* The isolate takes a stream's end together with its controller.
LEMMA FedByMessage ==
  ASSUME IInv, OnMessage, NEW r \in streams', IsFed(r)
  PROVE  IsFed(r)'
<1>1. port \in Seq(Frames) /\ port # <<>> /\ port' = Tail(port)
  BY DEF IInv, TypeOK, Frames, OnMessage
<1>2. UNCHANGED <<request, sink, producer, streamsOpen>>
  BY DEF OnMessage, sessionVars, sinkVars
<1>3. ~(Head(port).req = r /\ Head(port).type \in {"end", "streamErr", "err"})
  BY DEF OnMessage, OnOk, OnErr, OnData, OnMalformed, OnEnd, EndsStream
<1>4. CloseComes(r) => CloseComes(r)'
  <2> SUFFICES ASSUME NEW i \in DOMAIN port,
                      port[i].req = r, port[i].type \in {"end", "streamErr", "err"}
               PROVE  CloseComes(r)'
    BY DEF CloseComes
  <2>1. i # 1
    BY <1>1, <1>3, TailProperties
  <2> QED
    BY <1>1, <2>1, TailProperties DEF CloseComes
<1> QED
  BY <1>2, <1>4 DEF IsFed

\* A step of the isolate's caller.
LEMMA FedByCaller ==
  ASSUME IInv, StreamInv, EndInv, shut = "no",
         DartDisposes \/ DartCloses \/ \E q \in Requests : Invoke(q) \/ Cancel(q),
         NEW r \in streams'
  PROVE  IsFed(r)'
<1>1. \A p \in streams : p \in Requests /\ IsFed(p)
  BY DEF EndInv, IInv, TypeOK
<1>2. CASE DartDisposes
  BY <1>2 DEF DartDisposes
<1>3. CASE DartCloses
  <2>1. UNCHANGED <<streams, request, sink, producer, streamsOpen>>
    BY <1>3 DEF DartCloses, sinkVars
  <2> QED
    BY <1>3, <2>1 DEF DartCloses, StreamInv
<1>4. ASSUME NEW q \in Requests, Invoke(q) PROVE IsFed(r)'
  <2>1. /\ \A p \in Requests : p # q => request'[p] = request[p]
        /\ UNCHANGED <<port, sink, producer, streamsOpen>>
        /\ request'[q] = IF registered /\ running THEN "queued" ELSE "ignored"
        /\ \A p \in streams' : p # q => p \in streams
    BY <1>4 DEF Invoke, sessionVars, sinkVars, IInv, TypeOK
  <2>2. registered /\ running
    BY <1>4 DEF Invoke, IInv, BridgeInv
  <2> QED
    BY <1>1, <2>1, <2>2 DEF IsFed, CloseComes
<1>5. ASSUME NEW q \in Requests, Cancel(q) PROVE IsFed(r)'
  <2>1. /\ UNCHANGED <<port, sink, producer, request>>
        /\ r \in streams /\ r # q
        /\ \A p \in streamsOpen : p # q => p \in streamsOpen'
    BY <1>5 DEF Cancel, sinkVars
  <2> QED
    BY <1>1, <2>1 DEF IsFed, CloseComes
<1> QED
  BY <1>2, <1>3, <1>4, <1>5

LEMMA EndInvStep ==
  ASSUME IInv, StreamInv, FutureInv, EndInv, [Next]_vars
  PROVE  EndInv'
<1> SUFFICES ASSUME shut' = "no", NEW r \in streams' PROVE IsFed(r)'
  BY DEF EndInv
<1>1. CASE ShutBegins \/ ShutStep
  BY <1>1 DEF ShutBegins, ShutStep, ShutDisposes, ShutStops
<1>2. CASE DartDisposes \/ DartCloses \/ \E q \in Requests : Invoke(q) \/ Cancel(q)
  <2>1. shut = "no"
    BY <1>2 DEF DartDisposes, DartCloses, Invoke, Cancel, runtimeVars
  <2> QED
    BY <1>2, <2>1, FedByCaller
<1>3. ASSUME NEW q \in Requests,
             IoStep(q) \/ SinkStep(q) \/ AddRefused(q) \/ AddLooks(q) \/ EndLooks(q)
      PROVE  IsFed(r)'
  <2>1. UNCHANGED <<shut, streams>>
    BY <1>3 DEF IoStep, Dispatch, DispatchDropped, DispatchStarts, DispatchFails,
       DispatchLocksTwice, ReplyLooks, ReplyPosts, SinkStep, AddPosts, AddFails, EndPosts,
       EndErases, AddRefused, AddLooks, EndLooks, runtimeVars, dartVars
  <2>2. r \in streams /\ IsFed(r)
    BY <2>1 DEF EndInv
  <2> QED
    BY <1>3, <2>1, <2>2, FedByIo, FedBySink
<1>4. CASE OnMessage
  <2>1. shut = "no" /\ r \in streams
    BY <1>4 DEF OnMessage, OnOk, OnErr, OnData, OnMalformed, OnEnd, EndsStream, runtimeVars
  <2> QED
    BY <1>4, <2>1, FedByMessage DEF EndInv
<1>5. CASE UNCHANGED vars
  BY <1>5 DEF vars, dartVars, runtimeVars, sessionVars, sinkVars, EndInv, IsFed, CloseComes
<1> QED
  BY <1>1, <1>2, <1>3, <1>4, <1>5 DEF Next

\* Future and Completer, controller and kind of method go together.
LEMMA FutureInvStep ==
  ASSUME IInv, FutureInv, [Next]_vars
  PROVE  FutureInv'
<1> USE DEF FutureInv
<1>1. ASSUME NEW q \in Requests, Invoke(q) PROVE FutureInv'
  <2>1. /\ \A p \in Requests : p # q => kind'[p] = kind[p]
        /\ \A p \in streams : p # q => p \in streams'
    BY <1>1 DEF Invoke, IInv, TypeOK
  <2>2. (\A p \in Requests : future[p] = "open" <=> p \in pending)'
    <3>1. CASE UNCHANGED <<pending, future>>
      BY <3>1
    <3>2. CASE pending' = pending \cup {q} /\ future' = [future EXCEPT ![q] = "open"]
      BY <3>2 DEF IInv, TypeOK
    <3> QED
      BY <1>1, <3>1, <3>2 DEF Invoke
  <2>3. ASSUME NEW p \in streams' PROVE HasStream(p)' /\ request'[p] # "new"
    <3>1. p \in streams \/ (p = q /\ HasStream(q)')
      BY <1>1 DEF Invoke
    <3>2. p \in streams => p \in Requests /\ HasStream(p)
      BY DEF IInv, TypeOK
    <3>3. q \notin streams
      BY <1>1 DEF Invoke
    <3>4. request'[q] # "new" /\ \A o \in Requests : o # q => request'[o] = request[o]
      BY <1>1 DEF Invoke, IInv, TypeOK
    <3> QED
      BY <2>1, <3>1, <3>2, <3>3, <3>4 DEF HasStream
  <2> QED
    BY <2>2, <2>3
<1>a. \A r \in Requests : request[r] # "new" => request'[r] # "new"
  <2>1. ASSUME NEW q \in Requests, IoStep(q) \/ Invoke(q)
        PROVE  \A r \in Requests : request[r] # "new" => request'[r] # "new"
    BY <2>1 DEF IoStep, Dispatch, DispatchDropped, DispatchStarts, DispatchFails,
       DispatchLocksTwice, ReplyLooks, ReplyPosts, Invoke, IInv, TypeOK
  <2>2. ASSUME NEW q \in Requests,
               Cancel(q) \/ SinkStep(q) \/ AddRefused(q) \/ AddLooks(q) \/ EndLooks(q)
        PROVE  request' = request
    BY <2>2 DEF Cancel, SinkStep, AddPosts, AddFails, EndPosts, EndErases, AddRefused, AddLooks,
       EndLooks
  <2>3. CASE DartDisposes \/ DartCloses \/ OnMessage \/ ShutBegins \/ ShutStep \/ UNCHANGED vars
    BY <2>3 DEF DartDisposes, DartCloses, OnMessage, ShutBegins, ShutStep, ShutDisposes,
       ShutStops, vars
  <2> QED
    BY <2>1, <2>2, <2>3 DEF Next
<1>2. ASSUME UNCHANGED <<kind, pending, future>>, streams' \subseteq streams PROVE FutureInv'
  BY <1>a, <1>2 DEF HasStream, IInv, TypeOK
<1>3. ASSUME NEW q \in Requests, Cancel(q) PROVE FutureInv'
  BY <1>2, <1>3 DEF Cancel
<1>4. CASE DartDisposes
  BY <1>4 DEF DartDisposes, IInv, TypeOK
<1>5. ASSUME NEW q \in Requests,
             IoStep(q) \/ SinkStep(q) \/ AddRefused(q) \/ AddLooks(q) \/ EndLooks(q)
      PROVE  FutureInv'
  <2>1. UNCHANGED dartVars
    BY <1>5 DEF IoStep, Dispatch, DispatchDropped, DispatchStarts, DispatchFails,
       DispatchLocksTwice, ReplyLooks, ReplyPosts, SinkStep, AddPosts, AddFails, EndPosts,
       EndErases, AddRefused, AddLooks, EndLooks
  <2> QED
    BY <1>2, <2>1 DEF dartVars
<1>6. CASE DartCloses \/ ShutBegins \/ ShutStep \/ UNCHANGED vars
  BY <1>2, <1>6 DEF DartCloses, ShutBegins, ShutStep, ShutDisposes, ShutStops, vars, dartVars
<1>7. CASE OnMessage
  <2>1. UNCHANGED kind /\ streams' \subseteq streams
    BY <1>7 DEF OnMessage, OnOk, OnErr, OnData, OnMalformed, OnEnd, EndsStream
  <2>2. \/ UNCHANGED <<pending, future>>
        \/ \E q \in Requests, how \in {"value", "error"} : Answers(q, how)
    <3>1. Head(port).req \in Requests
      BY <1>7, TailProperties DEF OnMessage, IInv, TypeOK, Frames
    <3> QED
      BY <1>7, <3>1 DEF OnMessage, OnOk, OnErr, OnData, OnMalformed, OnEnd
  <2>3. CASE UNCHANGED <<pending, future>>
    BY <1>2, <2>1, <2>3
  <2>4. ASSUME NEW q \in Requests, NEW how \in {"value", "error"}, Answers(q, how)
        PROVE  FutureInv'
    <3>1. (\A p \in Requests : future[p] = "open" <=> p \in pending)'
      BY <2>4 DEF Answers, IInv, TypeOK
    <3>2. (\A p \in streams : HasStream(p) /\ request[p] # "new")'
      BY <1>a, <2>1 DEF HasStream, IInv, TypeOK
    <3> QED
      BY <3>1, <3>2
  <2> QED
    BY <2>2, <2>3, <2>4
<1> QED
  BY <1>1, <1>3, <1>4, <1>5, <1>6, <1>7 DEF Next

\* A blocked dispatch is never let in.
LEMMA StuckInvStep ==
  ASSUME IInv, StuckInv, [Next]_vars
  PROVE  StuckInv'
<1>1. stuck => stuck'
  BY DEF Next, Invoke, Cancel, DartDisposes, DartCloses, OnMessage, ShutBegins, ShutStep,
     ShutDisposes, ShutStops, IoStep, Dispatch, DispatchDropped, DispatchStarts, DispatchFails,
     DispatchLocksTwice, ReplyLooks, ReplyPosts, SinkStep, AddPosts, AddFails, EndPosts, EndErases,
     AddRefused, AddLooks, EndLooks, sessionVars, vars
<1>2. ASSUME NEW r \in Requests, request'[r] = "locking" PROVE request[r] = "locking" \/ stuck'
  <2>1. ASSUME NEW q \in Requests, Invoke(q) PROVE request[r] = "locking"
    BY <1>2, <2>1 DEF Invoke, IInv, TypeOK
  <2>2. ASSUME NEW q \in Requests, DispatchLocksTwice(q) PROVE stuck'
    BY <2>2 DEF DispatchLocksTwice
  <2>3. ASSUME NEW q \in Requests,
               DispatchDropped(q) \/ DispatchStarts(q) \/ DispatchFails(q) \/ ReplyLooks(q) \/ ReplyPosts(q)
        PROVE  request[r] = "locking"
    BY <1>2, <2>3 DEF DispatchDropped, DispatchStarts, DispatchFails, ReplyLooks, ReplyPosts,
       IInv, TypeOK
  <2>4. ASSUME NEW q \in Requests,
               Cancel(q) \/ SinkStep(q) \/ AddRefused(q) \/ AddLooks(q) \/ EndLooks(q)
        PROVE  request[r] = "locking"
    BY <1>2, <2>4 DEF Cancel, SinkStep, AddPosts, AddFails, EndPosts, EndErases, AddRefused,
       AddLooks, EndLooks
  <2>5. CASE DartDisposes \/ DartCloses \/ OnMessage \/ ShutBegins \/ ShutStep \/ UNCHANGED vars
    BY <1>2, <2>5 DEF DartDisposes, DartCloses, OnMessage, ShutBegins, ShutStep, ShutDisposes,
       ShutStops, vars
  <2> QED
    BY <2>1, <2>2, <2>3, <2>4, <2>5 DEF Next, IoStep, Dispatch
<1> QED
  BY <1>1, <1>2 DEF StuckInv

\* If nobody shuts the runtime down and no dispatch registers with its own
\* session, then, once there is nothing left to do, no Future is open, and a
\* controller that is still registered has an open sink that may feed it: no
\* answer and no end of a stream is lost between the sink, the session, the
\* port and the isolate's tables.
THEOREM NobodyWaitsForALostFrame == Spec => []NobodyIsLeftWaiting
<1>1. Init => FutureInv /\ EndInv /\ StuckInv
  BY DEF Init, FutureInv, EndInv, StuckInv
<1>2. IInv /\ FutureInv /\ [Next]_vars => FutureInv'
  BY FutureInvStep
<1>3. IInv /\ StreamInv /\ FutureInv /\ EndInv /\ [Next]_vars => EndInv'
  BY EndInvStep
<1>4. IInv /\ StuckInv /\ [Next]_vars => StuckInv'
  BY StuckInvStep
<1>5. IInv /\ StreamInv /\ FutureInv /\ EndInv /\ StuckInv => NobodyIsLeftWaiting
  <2> SUFFICES ASSUME IInv, StreamInv, FutureInv, EndInv, StuckInv, AtRest, shut = "no", ~stuck
               PROVE  /\ \A r \in Requests : future[r] # "open"
                      /\ \A r \in streams : sink[r] = "open" /\ r \in streamsOpen
    BY DEF NobodyIsLeftWaiting
  <2>1. ASSUME NEW r \in Requests PROVE request[r] \notin {"queued", "locking", "running", "replying"}
    BY DEF AtRest, StuckInv, IoRuns, IInv, BridgeInv
  <2>2. bridge = "open" => DOMAIN port = {}
    BY DEF AtRest
  <2>3. ASSUME NEW r \in Requests, future[r] = "open" PROVE FALSE
    <3>1. r \in pending /\ bridge = "open"
      BY <2>3 DEF FutureInv, IInv, BridgeInv
    <3> QED
      BY <2>1, <2>2, <3>1 DEF IInv, NoRequestIsLost, AnswerComes
  <2>4. ASSUME NEW r \in streams PROVE sink[r] = "open" /\ r \in streamsOpen
    <3>1. bridge = "open" /\ r \in Requests
      BY DEF StreamInv, IInv, TypeOK
    <3> QED
      BY <2>1, <2>2, <3>1 DEF EndInv, IsFed, CloseComes, AtRest
  <2> QED
    BY <2>3, <2>4
<1> QED
  BY <1>1, <1>2, <1>3, <1>4, <1>5, InvocationInvariant, StreamInvariant, PTL DEF Spec
=============================================================================
